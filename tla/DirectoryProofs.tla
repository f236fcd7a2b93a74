--------------------------- MODULE DirectoryProofs ---------------------------
(***************************************************************************)
(* Proofs about the directory layer, for every set of names, every bound   *)
(* and every pattern of refused writes: the tree keeps its shape, only     *)
(* empty directories are freed, and, while no link count wraps, names and  *)
(* link counts agree.                                                      *)
(*                                                                         *)
(* Induction over a path, here and below, is by the least number of a set: *)
(* the shortest prefix for which a statement fails.                        *)
(***************************************************************************)
EXTENDS Directory, FiniteSetTheorems, SequenceTheorems, WellFoundedInduction, TLAPS

EntryNames == Names \cup Dots \cup {"", ".ifile"}
Entry == [name : EntryNames, inum : INums]
Inode == [inUse : BOOLEAN, fileType : FileTypes, nlinks : 0 .. LinkModulus - 1,
          entries : Seq(Entry)]
IFile == [INums -> Inode]

\* The names requests are about.
PathNames == Names \cup {".ifile"}

LEMMA TypeOKFacts == TypeOK <=> iFile \in IFile /\ history \in Seq(SUBSET LapseKinds)
BY DEF TypeOK, IFile, Inode, Entry, EntryNames

LEMMA NumberFacts ==
    /\ MaxINum \in Nat \ {0} /\ MaxEntries \in Nat /\ MaxEntries > 2
    /\ MaxDepth \in Nat \ {0}
    /\ LinkModulus \in Nat /\ LinkModulus > 3
    /\ INums = 0 .. MaxINum /\ INums \subseteq Nat
    /\ INUM_NOT_FOUND \notin INums
    /\ IFILE_INUM \in INums /\ ROOT_DIRECTORY_INUM \in INums
    /\ IFILE_INUM # ROOT_DIRECTORY_INUM
<1>1. /\ MaxINum \in Nat \ {0} /\ MaxEntries \in Nat /\ MaxEntries > 2
      /\ MaxDepth \in Nat \ {0}
      /\ LinkModulus \in Nat /\ LinkModulus > 3
  BY DirectoryAssumption
<1> QED BY <1>1 DEF INums, INUM_NOT_FOUND, IFILE_INUM, ROOT_DIRECTORY_INUM

LEMMA NameFacts ==
    ASSUME NEW n \in PathNames
    PROVE  n \notin Dots /\ n # "" /\ n \in EntryNames
BY DirectoryAssumption DEF PathNames, Dots, EntryNames

\* Every set of natural numbers that is not empty has a least element.
LEMMA LeastOf ==
    ASSUME NEW T, T \subseteq Nat, T # {}
    PROVE  \E x \in T : \A y \in T : x <= y
<1>1. PICK x \in T : \A y \in T : ~ (<<y, x>> \in OpToRel(<, Nat))
  BY NatLessThanWellFounded, WFMin
<1>2. \A y \in T : ~ (y < x)
  BY <1>1 DEF OpToRel
<1> QED BY <1>2

LEMMA MinIs ==
    ASSUME NEW T \in SUBSET Nat, NEW x \in T, \A y \in T : x <= y
    PROVE  Min(T) = x
<1>1. \A y \in T : (\A z \in T : y <= z) => y = x
  <2> SUFFICES ASSUME NEW y \in T, \A z \in T : y <= z PROVE y = x
    OBVIOUS
  <2>1. y <= x /\ x <= y /\ x \in Nat /\ y \in Nat
    OBVIOUS
  <2> QED BY <2>1
<1> QED BY <1>1 DEF Min

LEMMA MinOf ==
    ASSUME NEW T \in SUBSET Nat, T # {}
    PROVE  Min(T) \in T
BY LeastOf, MinIs

LEMMA UnusedFacts ==
    ASSUME NEW f \in IFile, Unused(f) # {}
    PROVE  /\ GetUnusedINum(f) \in INums /\ GetUnusedINum(f) # IFILE_INUM
           /\ ~f[GetUnusedINum(f)].inUse
BY MinOf, NumberFacts DEF Unused, GetUnusedINum

----------------------------------------------------------------------------
(* Paths.                                                                  *)

LEMMA PathFacts ==
    ASSUME NEW path \in Paths
    PROVE  /\ path \in Seq(PathNames) /\ Len(path) \in Nat \ {0}
           /\ Front(path) \in Seq(PathNames)
           /\ Len(Front(path)) = Len(path) - 1
           /\ \A n \in 1 .. Len(path) - 1 : Front(path)[n] = path[n]
           /\ Last(path) = path[Len(path)] /\ Last(path) \in PathNames
<1>1. path \in Seq(PathNames) /\ Len(path) \in Nat \ {0}
  <2>1. CASE path = <<".ifile">>
    BY <2>1 DEF PathNames
  <2>2. CASE path \in NewPaths
    <3>1. PICK n \in 1 .. MaxDepth : path \in [1 .. n -> Names]
      BY <2>2 DEF NewPaths
    <3>2. n \in Nat \ {0}
      BY NumberFacts
    <3>3. path \in Seq(Names) /\ Len(path) = n
      BY <3>1, <3>2
    <3> QED BY <3>2, <3>3 DEF PathNames
  <2> QED BY <2>1, <2>2 DEF Paths
<1>2. path[Len(path)] \in PathNames
  BY <1>1
<1>3. /\ SubSeq(path, 1, Len(path) - 1) \in Seq(PathNames)
      /\ Len(SubSeq(path, 1, Len(path) - 1)) = Len(path) - 1
      /\ \A n \in 1 .. Len(path) - 1 : SubSeq(path, 1, Len(path) - 1)[n] = path[n]
  <2> DEFINE k == Len(path) - 1
  <2>1. k \in 0 .. Len(path) /\ 1 \in 1 .. Len(path) + 1
    BY <1>1
  <2> HIDE DEF k
  <2>2. /\ SubSeq(path, 1, k) \in Seq(PathNames)
        /\ Len(SubSeq(path, 1, k)) = k
        /\ \A n \in 1 .. k : SubSeq(path, 1, k)[n] = path[n]
    BY <1>1, <2>1, SubSeqProperties
  <2> QED BY <2>2 DEF k
<1> QED BY <1>1, <1>2, <1>3 DEF Front, Last

LEMMA NewPathFacts == \A path \in NewPaths : path \in Paths
BY DEF Paths

LEMMA NewPathLast == \A path \in NewPaths : Last(path) \in Names
<1> SUFFICES ASSUME NEW path \in NewPaths PROVE Last(path) \in Names
  OBVIOUS
<1>1. PICK n \in 1 .. MaxDepth : path \in [1 .. n -> Names]
  BY DEF NewPaths
<1>2. n \in Nat \ {0}
  BY NumberFacts
<1>3. path \in Seq(Names) /\ Len(path) = n
  BY <1>1, <1>2
<1>4. path[n] \in Names
  BY <1>1, <1>2
<1> QED BY <1>3, <1>4 DEF Last

LEMMA ReadDirectoryType ==
    ASSUME NEW f \in IFile, NEW d
    PROVE  ReadDirectory(f, d) \in Seq(Entry)
BY DEF ReadDirectory, IFile, Inode

\* Looking a name up finds its first entry.
LEMMA LookupIs ==
    ASSUME NEW f \in IFile, NEW d, NEW name, NEW i \in 1 .. Len(ReadDirectory(f, d)),
           ReadDirectory(f, d)[i].name = name,
           \A j \in 1 .. Len(ReadDirectory(f, d)) : ReadDirectory(f, d)[j].name = name => i <= j
    PROVE  Lookup(f, d, name) = ReadDirectory(f, d)[i].inum
<1> DEFINE list == ReadDirectory(f, d)
           T == {j \in 1 .. Len(list) : list[j].name = name}
<1>0. list \in Seq(Entry)
  BY ReadDirectoryType
<1>1. ContainsFile(list, name)
  BY DEF ContainsFile
<1>2. T \in SUBSET Nat /\ i \in T /\ \A j \in T : i <= j
  BY <1>0
<1>3. Min(T) = i
  <2> HIDE DEF T
  <2> QED BY <1>2, MinIs
<1> QED BY <1>1, <1>3 DEF Lookup, EntryINum

LEMMA LookupMissing ==
    ASSUME NEW f, NEW d, NEW name,
           \A j \in 1 .. Len(ReadDirectory(f, d)) : ReadDirectory(f, d)[j].name # name
    PROVE  Lookup(f, d, name) = INUM_NOT_FOUND
BY DEF Lookup, ContainsFile

LEMMA FirstEntry ==
    ASSUME NEW list \in Seq(Entry), NEW name, ContainsFile(list, name)
    PROVE  \E i \in 1 .. Len(list) :
             /\ list[i].name = name
             /\ \A j \in 1 .. Len(list) : list[j].name = name => i <= j
<1> DEFINE T == {j \in 1 .. Len(list) : list[j].name = name}
<1>1. T \subseteq Nat /\ T # {}
  BY DEF ContainsFile
<1>2. PICK i \in T : \A j \in T : i <= j
  <2> HIDE DEF T
  <2> QED BY <1>1, LeastOf
<1> QED BY <1>2

LEMMA LookupCases ==
    ASSUME NEW f \in IFile, NEW d, NEW name
    PROVE  \/ /\ Lookup(f, d, name) = INUM_NOT_FOUND
              /\ ~ContainsFile(ReadDirectory(f, d), name)
           \/ \E i \in 1 .. Len(ReadDirectory(f, d)) :
                /\ ReadDirectory(f, d)[i].name = name
                /\ \A j \in 1 .. Len(ReadDirectory(f, d)) :
                      ReadDirectory(f, d)[j].name = name => i <= j
                /\ Lookup(f, d, name) = ReadDirectory(f, d)[i].inum
                /\ Lookup(f, d, name) \in INums
<1> DEFINE list == ReadDirectory(f, d)
<1>0. list \in Seq(Entry)
  BY ReadDirectoryType
<1>1. CASE ~ContainsFile(list, name)
  BY <1>1 DEF Lookup
<1>2. CASE ContainsFile(list, name)
  <2>1. PICK i \in 1 .. Len(list) :
          /\ list[i].name = name
          /\ \A j \in 1 .. Len(list) : list[j].name = name => i <= j
    BY <1>0, <1>2, FirstEntry
  <2>2. Lookup(f, d, name) = list[i].inum
    BY <2>1, LookupIs
  <2>3. list[i] \in Entry
    BY <1>0
  <2> QED BY <2>1, <2>2, <2>3 DEF Entry
<1> QED BY <1>1, <1>2

----------------------------------------------------------------------------

(* Walks: the inums met along a path.                                      *)

Partial(f, path, k, w) ==
  /\ w \in [0 .. k -> INums \cup {INUM_NOT_FOUND}]
  /\ w[0] = ROOT_DIRECTORY_INUM
  /\ \A n \in 1 .. k : w[n] = Lookup(f, w[n - 1], path[n])

IsWalk(f, path, w) == Partial(f, path, Len(path), w)

LEMMA LookupRange ==
    ASSUME NEW f \in IFile, NEW d, NEW name
    PROVE  Lookup(f, d, name) \in INums \cup {INUM_NOT_FOUND}
BY LookupCases

LEMMA WalkExists ==
    ASSUME NEW f \in IFile, NEW path \in Seq(PathNames)
    PROVE  \E w : IsWalk(f, path, w)
<1> DEFINE T == {k \in 0 .. Len(path) : ~ \E w : Partial(f, path, k, w)}
<1>0. Len(path) \in Nat
  OBVIOUS
<1>1. ASSUME T # {} PROVE FALSE
  <2>0. T \subseteq Nat
    BY <1>0
  <2>1. PICK k \in T : \A j \in T : k <= j
    <3> HIDE DEF T
    <3> QED BY <1>1, <2>0, LeastOf
  <2>2. CASE k = 0
    <3>1. Partial(f, path, 0, [n \in 0 .. 0 |-> ROOT_DIRECTORY_INUM])
      BY NumberFacts DEF Partial
    <3> QED BY <2>2, <3>1
  <2>3. CASE k # 0
    <3>1. k \in Nat /\ k - 1 \in Nat /\ k <= Len(path)
      BY <2>3, <1>0
    <3>2. k - 1 \notin T
      BY <2>1, <3>1
    <3>3. PICK w : Partial(f, path, k - 1, w)
      BY <3>1, <3>2, <1>0
    <3> DEFINE next == Lookup(f, w[k - 1], path[k])
               v == [n \in 0 .. k |-> IF n = k THEN next ELSE w[n]]
    <3>4. next \in INums \cup {INUM_NOT_FOUND}
      BY LookupRange
    <3>5. w \in [0 .. k - 1 -> INums \cup {INUM_NOT_FOUND}]
      BY <3>3 DEF Partial
    <3>6. v \in [0 .. k -> INums \cup {INUM_NOT_FOUND}]
      <4> HIDE DEF next
      <4> QED BY <3>1, <3>4, <3>5
    <3>7. v[0] = w[0] /\ v[k] = next /\ \A n \in 0 .. k - 1 : v[n] = w[n]
      <4> HIDE DEF next
      <4> QED BY <3>1
    <3>8. \A n \in 1 .. k : v[n] = Lookup(f, v[n - 1], path[n])
      <4> SUFFICES ASSUME NEW n \in 1 .. k PROVE v[n] = Lookup(f, v[n - 1], path[n])
        OBVIOUS
      <4>1. v[n - 1] = w[n - 1]
        <5> HIDE DEF v
        <5> QED BY <3>1, <3>7
      <4>2. CASE n = k
        <5> HIDE DEF v
        <5> QED BY <3>7, <4>1, <4>2 DEF next
      <4>3. CASE n # k
        <5>1. n \in 1 .. k - 1 /\ n \in 0 .. k - 1
          BY <3>1, <4>3
        <5>2. w[n] = Lookup(f, w[n - 1], path[n])
          BY <3>3, <5>1 DEF Partial
        <5> HIDE DEF v
        <5> QED BY <3>7, <4>1, <5>1, <5>2
      <4> QED BY <4>2, <4>3
    <3>9. Partial(f, path, k, v)
      <4> HIDE DEF v
      <4> QED BY <3>3, <3>6, <3>7, <3>8 DEF Partial
    <3> QED BY <3>9
  <2> QED BY <2>2, <2>3
<1>2. Len(path) \notin T
  BY <1>1
<1> QED BY <1>0, <1>2 DEF IsWalk

LEMMA WalkIsGetINum ==
    ASSUME NEW f \in IFile, NEW path \in Seq(PathNames), NEW w, IsWalk(f, path, w)
    PROVE  GetINum(f, path) = w[Len(path)]
<1> DEFINE Step(g) == [n \in 0 .. Len(path) |->
                         IF n = 0 THEN ROOT_DIRECTORY_INUM ELSE Lookup(f, g[n - 1], path[n])]
           walk == CHOOSE g : g = Step(g)
           T == {n \in 0 .. Len(path) : walk[n] # w[n]}
<1>0. Len(path) \in Nat
  OBVIOUS
<1>1. w = Step(w)
  <2>1. w \in [0 .. Len(path) -> INums \cup {INUM_NOT_FOUND}]
    BY DEF IsWalk, Partial
  <2>2. \A n \in 0 .. Len(path) :
           w[n] = IF n = 0 THEN ROOT_DIRECTORY_INUM ELSE Lookup(f, w[n - 1], path[n])
    BY <1>0 DEF IsWalk, Partial
  <2> QED BY <2>1, <2>2
<1>2. walk = Step(walk)
  <2> HIDE DEF Step
  <2> QED BY <1>1
<1>3. GetINum(f, path) = walk[Len(path)]
  BY DEF GetINum
<1> HIDE DEF walk
<1>4. /\ walk[0] = ROOT_DIRECTORY_INUM
      /\ \A n \in 1 .. Len(path) : walk[n] = Lookup(f, walk[n - 1], path[n])
  BY <1>0, <1>2
<1>5. ASSUME T # {} PROVE FALSE
  <2>1. T \subseteq Nat
    BY <1>0
  <2>2. PICK n \in T : \A j \in T : n <= j
    <3> HIDE DEF T
    <3> QED BY <1>5, <2>1, LeastOf
  <2>3. n # 0
    BY <1>4 DEF IsWalk, Partial
  <2>4. n - 1 \in 0 .. Len(path) /\ n - 1 \notin T
    BY <1>0, <2>2, <2>3
  <2>5. walk[n - 1] = w[n - 1]
    BY <2>4
  <2>6. n \in 1 .. Len(path)
    BY <1>0, <2>3
  <2>7. w[n] = Lookup(f, w[n - 1], path[n])
    BY <2>6 DEF IsWalk, Partial
  <2> QED BY <1>4, <2>5, <2>6, <2>7
<1>6. walk[Len(path)] = w[Len(path)]
  BY <1>0, <1>5
<1> QED BY <1>3, <1>6

\* A path leads to an inode of the ifile or nowhere.
LEMMA GetINumRange ==
    ASSUME NEW f \in IFile, NEW path \in Seq(PathNames)
    PROVE  GetINum(f, path) \in INums \cup {INUM_NOT_FOUND}
<1>1. PICK w : IsWalk(f, path, w)
  BY WalkExists
<1>2. w[Len(path)] \in INums \cup {INUM_NOT_FOUND}
  BY <1>1 DEF IsWalk, Partial
<1> QED BY <1>1, <1>2, WalkIsGetINum

\* A path is resolved by looking its last element up in its directory.
LEMMA GetINumStep ==
    ASSUME NEW f \in IFile, NEW path \in Paths
    PROVE  GetINum(f, path) = Lookup(f, GetINum(f, Front(path)), Last(path))
<1>1. PICK w : IsWalk(f, path, w)
  BY WalkExists, PathFacts
<1> DEFINE k == Len(path) - 1
           v == [n \in 0 .. k |-> w[n]]
<1>2. /\ path \in Seq(PathNames) /\ Len(path) \in Nat \ {0}
      /\ Front(path) \in Seq(PathNames)
      /\ Len(Front(path)) = k /\ \A n \in 1 .. k : Front(path)[n] = path[n]
      /\ Last(path) = path[Len(path)]
  BY PathFacts
<1>3. k \in Nat /\ Len(path) = k + 1
  BY <1>2
<1> HIDE DEF k
<1>4. /\ w \in [0 .. k + 1 -> INums \cup {INUM_NOT_FOUND}]
      /\ w[0] = ROOT_DIRECTORY_INUM
      /\ \A n \in 1 .. k + 1 : w[n] = Lookup(f, w[n - 1], path[n])
  BY <1>1, <1>3 DEF IsWalk, Partial
<1>5. IsWalk(f, Front(path), v)
  <2>1. v \in [0 .. k -> INums \cup {INUM_NOT_FOUND}] /\ v[0] = ROOT_DIRECTORY_INUM
    BY <1>3, <1>4
  <2>2. ASSUME NEW n \in 1 .. k PROVE v[n] = Lookup(f, v[n - 1], Front(path)[n])
    <3>1. v[n] = w[n] /\ v[n - 1] = w[n - 1]
      BY <1>3
    <3>2. w[n] = Lookup(f, w[n - 1], path[n])
      BY <1>3, <1>4
    <3>3. Front(path)[n] = path[n]
      BY <1>2
    <3> HIDE DEF v
    <3> QED BY <3>1, <3>2, <3>3
  <2> HIDE DEF v
  <2> QED BY <1>2, <2>1, <2>2 DEF IsWalk, Partial
<1>6. GetINum(f, Front(path)) = w[k]
  <2>1. v[k] = w[k]
    BY <1>3
  <2> HIDE DEF v
  <2> QED BY <1>2, <1>5, <2>1, WalkIsGetINum
<1>7. GetINum(f, path) = w[k + 1]
  BY <1>1, <1>2, <1>3, WalkIsGetINum
<1>8. w[k + 1] = Lookup(f, w[k], path[k + 1])
  BY <1>3, <1>4
<1> QED BY <1>2, <1>3, <1>6, <1>7, <1>8

\* Where a path leads depends on the lists of the directories only.
LEMMA GetINumSame ==
    ASSUME NEW f \in IFile, NEW g \in IFile, NEW path \in Seq(PathNames),
           \A d : ReadDirectory(g, d) = ReadDirectory(f, d)
    PROVE  GetINum(g, path) = GetINum(f, path)
<1>1. PICK w : IsWalk(f, path, w)
  BY WalkExists
<1>2. ASSUME NEW d, NEW name PROVE Lookup(g, d, name) = Lookup(f, d, name)
  BY DEF Lookup
<1>3. IsWalk(g, path, w)
  BY <1>1, <1>2 DEF IsWalk, Partial
<1> QED BY <1>1, <1>3, WalkIsGetINum

----------------------------------------------------------------------------

(* Type correctness.                                                       *)

LEMMA AddFileType ==
    ASSUME NEW list \in Seq(Entry), NEW name \in EntryNames, NEW i \in INums
    PROVE  AddFile(list, name, i) \in Seq(Entry)
<1>1. [name |-> name, inum |-> i] \in Entry
  BY DEF Entry
<1> QED BY <1>1 DEF AddFile

LEMMA DirectoryListType ==
    ASSUME NEW i \in INums
    PROVE  DirectoryList(i) \in Seq(Entry)
<1>1. [name |-> ".", inum |-> i] \in Entry /\ [name |-> "..", inum |-> i] \in Entry
  BY DEF Entry, EntryNames, Dots
<1> QED BY <1>1 DEF DirectoryList

LEMMA ZeroEntryType == ZeroEntry \in Entry
BY NumberFacts DEF ZeroEntry, Entry, EntryNames, IFILE_INUM

\* The entry that comes to position j when the entries of a name are removed.
Moved(list, name, j) ==
  IF \E i \in Kept(list, name) : CopyIndex(Kept(list, name), i) = j
    THEN list[CHOOSE i \in Kept(list, name) : CopyIndex(Kept(list, name), i) = j]
    ELSE ZeroEntry

LEMMA RemoveFileMoves ==
    ASSUME NEW list \in Seq(Entry), NEW name, name \notin Dots,
           Kept(list, name) # 1 .. Len(list)
    PROVE  /\ RemoveFile(list, name) \in Seq(Entry)
           /\ Len(list) - 1 \in Nat
           /\ Len(RemoveFile(list, name)) = Len(list) - 1
           /\ \A j \in 1 .. Len(list) - 1 : RemoveFile(list, name)[j] = Moved(list, name, j)
<1> DEFINE n == Len(list) - 1
           new == [j \in 1 .. n |-> Moved(list, name, j)]
<1>1. RemoveFile(list, name) = SubSeq(new, 1, n)
  BY DEF RemoveFile, Moved
<1>2. ASSUME NEW j PROVE Moved(list, name, j) \in Entry
  <2>1. Kept(list, name) \subseteq 1 .. Len(list)
    BY DEF Kept
  <2>2. \A i \in Kept(list, name) : list[i] \in Entry
    BY <2>1
  <2> QED BY <2>2, ZeroEntryType DEF Moved
<1>3. n \in Nat
  <2>1. list # <<>>
    BY DEF Kept
  <2> QED BY <2>1
<1> HIDE DEF n
<1>4. \A j \in 1 .. n : new[j] = Moved(list, name, j)
  OBVIOUS
<1> HIDE DEF new
<1>5. /\ SubSeq(new, 1, n) \in Seq(Entry)
      /\ Len(SubSeq(new, 1, n)) = IF 1 <= n THEN n - 1 + 1 ELSE 0
      /\ \A j \in 1 .. n - 1 + 1 : SubSeq(new, 1, n)[j] = new[1 + j - 1]
  <2>1. \A j \in 1 .. n : new[j] \in Entry
    BY <1>2, <1>4
  <2> QED BY <1>3, <2>1, SubSeqProperties
<1>6. /\ Len(SubSeq(new, 1, n)) = n
      /\ \A j \in 1 .. n : SubSeq(new, 1, n)[j] = Moved(list, name, j)
  <2>1. \A j \in 1 .. n : j \in 1 .. n - 1 + 1 /\ 1 + j - 1 = j
    BY <1>3
  <2>2. Len(SubSeq(new, 1, n)) = n
    BY <1>3, <1>5
  <2> QED BY <1>4, <1>5, <2>1, <2>2
<1> QED BY <1>1, <1>3, <1>5, <1>6 DEF n

LEMMA RemoveFileType ==
    ASSUME NEW list \in Seq(Entry), NEW name
    PROVE  RemoveFile(list, name) \in Seq(Entry)
<1>1. CASE name \in Dots \/ Kept(list, name) = 1 .. Len(list)
  BY <1>1 DEF RemoveFile
<1>2. CASE ~(name \in Dots \/ Kept(list, name) = 1 .. Len(list))
  BY <1>2, RemoveFileMoves
<1> QED BY <1>1, <1>2

LEMMA UpdateIFileType ==
    ASSUME NEW f \in IFile, NEW i \in INums, NEW inode \in Inode, NEW ok
    PROVE  UpdateIFile(f, i, inode, ok) \in IFile
BY DEF UpdateIFile, IFile

LEMMA File_CreateType ==
    ASSUME NEW f \in IFile, Unused(f) # {}, NEW fileType \in FileTypes, NEW ok
    PROVE  File_Create(f, fileType, ok) \in IFile
<1>1. [inUse |-> TRUE, fileType |-> fileType, nlinks |-> 1, entries |-> <<>>] \in Inode
  BY NumberFacts DEF Inode
<1>2. GetUnusedINum(f) \in INums
  BY UnusedFacts
<1> QED BY <1>1, <1>2, UpdateIFileType DEF File_Create

LEMMA File_FreeType ==
    ASSUME NEW f \in IFile, NEW i \in INums, NEW ok
    PROVE  File_Free(f, i, ok) \in IFile
<1>1. [f[i] EXCEPT !.inUse = FALSE, !.entries = <<>>] \in Inode
  <2>1. f[i] \in Inode /\ <<>> \in Seq(Entry)
    BY DEF IFile
  <2> QED BY <2>1 DEF Inode
<1> QED BY <1>1, UpdateIFileType DEF File_Free

LEMMA ModRange == \A x \in Int : x % LinkModulus \in 0 .. LinkModulus - 1
BY NumberFacts

LEMMA SetLinksType ==
    ASSUME NEW f \in IFile, NEW i \in INums, NEW n \in 0 .. LinkModulus - 1
    PROVE  [f[i] EXCEPT !.nlinks = n] \in Inode
BY DEF IFile, Inode

LEMMA LinksRange ==
    ASSUME NEW f \in IFile, NEW i \in INums
    PROVE  f[i].nlinks \in 0 .. LinkModulus - 1 /\ f[i].nlinks \in Int
BY NumberFacts DEF IFile, Inode

LEMMA File_AddLinkType ==
    ASSUME NEW f \in IFile, NEW i \in INums, NEW ok
    PROVE  File_AddLink(f, i, ok) \in IFile
<1>1. (f[i].nlinks + 1) % LinkModulus \in 0 .. LinkModulus - 1
  BY LinksRange, ModRange
<1>2. [f[i] EXCEPT !.nlinks = (@ + 1) % LinkModulus] \in Inode
  BY <1>1 DEF IFile, Inode
<1> QED BY <1>2, UpdateIFileType DEF File_AddLink

LEMMA File_RemoveLinkType ==
    ASSUME NEW f \in IFile, NEW i \in INums, NEW ok, NEW okFree
    PROVE  File_RemoveLink(f, i, ok, okFree) \in IFile
<1> DEFINE left == (f[i].nlinks - 1) % LinkModulus
           g == UpdateIFile(f, i, [f[i] EXCEPT !.nlinks = left], ok)
<1>1. left \in 0 .. LinkModulus - 1
  BY LinksRange, ModRange
<1>2. g \in IFile
  <2> HIDE DEF left
  <2> QED BY <1>1, SetLinksType, UpdateIFileType
<1>3. File_Free(g, i, okFree) \in IFile
  <2> HIDE DEF g
  <2> QED BY <1>2, File_FreeType
<1> QED BY <1>2, <1>3 DEF File_RemoveLink

LEMMA ForgetType ==
    ASSUME NEW f \in IFile, NEW i \in INums, NEW ok
    PROVE  Forget(f, i, ok) \in IFile
BY File_FreeType, File_RemoveLinkType DEF Forget

LEMMA WriteDirectoryType ==
    ASSUME NEW f \in IFile, NEW d, NEW list \in Seq(Entry), NEW ok
    PROVE  WriteDirectory(f, d, list, ok) \in IFile
BY DEF WriteDirectory, IFile, Inode

LEMMA RecordType ==
    ASSUME history \in Seq(SUBSET LapseKinds), NEW ok, NEW others \in SUBSET LapseKinds,
           Record(ok, others)
    PROVE  history' \in Seq(SUBSET LapseKinds)
<1> DEFINE lapses == others \cup (IF \A w \in 1 .. 3 : ok[w] THEN {} ELSE {"refused"})
<1>1. lapses \in SUBSET LapseKinds
  BY DEF LapseKinds
<1>2. history' = IF lapses = {} THEN history ELSE Append(history, lapses)
  BY DEF Record
<1> HIDE DEF lapses
<1> QED BY <1>1, <1>2

----------------------------------------------------------------------------

(* What a refused list leaves.                                             *)

LEMMA LeftoversType == Leftovers \subseteq Entry
BY ZeroEntryType DEF Leftovers, Entry, EntryNames

LEMMA LeavingsAre ==
    ASSUME NEW old \in Seq(Entry), NEW new \in Seq(Entry), NEW left \in Leavings(old, new)
    PROVE  /\ left \in Seq(Entry)
           /\ Len(left) \in {Len(old), Len(new)}
           /\ \A j \in 1 .. Len(left) :
                \/ j <= Len(new) /\ j > 2 /\ left[j] = new[j]
                \/ j <= Len(old) /\ left[j] = old[j]
                \/ j > Len(old) /\ left[j] \in Leftovers
<1>1. PICK n \in {Len(old), Len(new)}, fresh \in SUBSET (3 .. MaxEntries), beyond \in Leftovers :
        left = Mixture(old, new, n, fresh, beyond)
  BY DEF Leavings
<1>2. n \in Nat /\ Len(old) \in Nat /\ Len(new) \in Nat
  OBVIOUS
<1>3. \A j \in 1 .. n : /\ j \in Nat
                        /\ \/ j <= Len(new) /\ j > 2 /\ left[j] = new[j]
                           \/ j <= Len(old) /\ left[j] = old[j]
                           \/ j > Len(old) /\ left[j] \in Leftovers
  <2> SUFFICES ASSUME NEW j \in 1 .. n
               PROVE  /\ j \in Nat
                      /\ \/ j <= Len(new) /\ j > 2 /\ left[j] = new[j]
                         \/ j <= Len(old) /\ left[j] = old[j]
                         \/ j > Len(old) /\ left[j] \in Leftovers
    OBVIOUS
  <2>1. j \in fresh => j > 2
    BY <1>1, NumberFacts
  <2>2. left[j] = IF j \in fresh /\ j <= Len(new) THEN new[j]
                  ELSE IF j <= Len(old) THEN old[j] ELSE beyond
    BY <1>1 DEF Mixture
  <2> QED BY <1>1, <1>2, <2>1, <2>2
<1>4. \A j \in 1 .. n : left[j] \in Entry
  BY <1>2, <1>3, LeftoversType
<1>5. left = [j \in 1 .. n |-> left[j]]
  BY <1>1 DEF Mixture
<1>6. left \in [1 .. n -> Entry]
  BY <1>4, <1>5
<1>7. left \in Seq(Entry) /\ Len(left) = n
  BY <1>2, <1>6
<1> QED BY <1>1, <1>3, <1>7

\* What a request with a refused list leaves, and what it records.
Leaves(f, dir, list, ok, seen, left, others) ==
  /\ left \in Leavings(ReadDirectory(f, dir), list)
  /\ iFile' = WriteDirectory(f, dir, left, TRUE)
  /\ Record(ok, others)
  /\ \/ left = ReadDirectory(f, dir) /\ others = {}
     \/ left = list /\ others = seen
     \/ others = {"torn"}

LEMMA ListRefusedIs ==
    ASSUME NEW f, NEW dir, NEW list, NEW ok, NEW seen, ListRefused(f, dir, list, ok, seen)
    PROVE  \E left, others : Leaves(f, dir, list, ok, seen, left, others)
<1>1. PICK left \in Leavings(ReadDirectory(f, dir), list) :
        /\ iFile' = [f EXCEPT ![dir].entries = left]
        /\ Record(ok, IF left = ReadDirectory(f, dir) THEN {}
                      ELSE IF left = list THEN seen ELSE {"torn"})
  BY Zenon DEF ListRefused
<1>2. iFile' = WriteDirectory(f, dir, left, TRUE)
  BY <1>1 DEF WriteDirectory
<1>3. CASE left = ReadDirectory(f, dir)
  BY <1>1, <1>2, <1>3 DEF Leaves
<1>4. CASE left # ReadDirectory(f, dir) /\ left = list
  BY <1>1, <1>2, <1>4 DEF Leaves
<1>5. CASE left # ReadDirectory(f, dir) /\ left # list
  BY <1>1, <1>2, <1>5 DEF Leaves
<1> QED BY <1>3, <1>4, <1>5

LEMMA ListRefusedType ==
    ASSUME history \in Seq(SUBSET LapseKinds), NEW f \in IFile, NEW dir,
           NEW list \in Seq(Entry), NEW ok, NEW seen \in SUBSET LapseKinds,
           ListRefused(f, dir, list, ok, seen)
    PROVE  TypeOK'
<1>1. PICK left, others : Leaves(f, dir, list, ok, seen, left, others)
  BY ListRefusedIs
<1>2. left \in Seq(Entry)
  BY <1>1, ReadDirectoryType, LeavingsAre DEF Leaves
<1>3. iFile' \in IFile
  BY <1>1, <1>2, WriteDirectoryType DEF Leaves
<1>4. others \in SUBSET LapseKinds
  BY <1>1 DEF Leaves, LapseKinds
<1>5. history' \in Seq(SUBSET LapseKinds)
  BY <1>1, <1>4, RecordType DEF Leaves
<1> QED BY <1>3, <1>5 DEF TypeOK, IFile, Inode, Entry, EntryNames

LEMMA ListRefusedKeepsUse ==
    ASSUME NEW f \in IFile, NEW dir, NEW list, NEW ok, NEW seen,
           ListRefused(f, dir, list, ok, seen), NEW i \in INums
    PROVE  iFile'[i].inUse <=> f[i].inUse
BY Zenon DEF ListRefused, IFile, Inode

----------------------------------------------------------------------------

LEMMA CreateFileType ==
    ASSUME TypeOK, NEW path \in NewPaths, CanCreate(path), NEW fileType \in FileTypes, NEW ok
    PROVE  /\ CreateFile(path, fileType, ok).iFile \in IFile
           /\ CreateFile(path, fileType, ok).inum \in INums
           /\ CreateFile(path, fileType, ok).list \in Seq(Entry)
<1> DEFINE inum == GetUnusedINum(iFile)
           made == File_Create(iFile, fileType, ok[1])
           dir == GetINum(made, GetDirectoryPath(path))
           listed == Readable(made, dir) /\ ok[2]
           name == GetLastPathElement(path)
           list == AddFile(ReadDirectory(made, dir), name, inum)
<1>1. iFile \in IFile /\ Unused(iFile) # {}
  BY TypeOKFacts DEF CanCreate
<1>2. inum \in INums
  BY <1>1, UnusedFacts
<1>3. made \in IFile
  BY <1>1, File_CreateType
<1>4. name \in EntryNames
  BY NewPathFacts, PathFacts, NameFacts DEF GetLastPathElement
<1> HIDE DEF made, inum, dir, name
<1>5. list \in Seq(Entry)
  BY <1>2, <1>3, <1>4, ReadDirectoryType, AddFileType
<1>6. WriteDirectory(made, dir, list, TRUE) \in IFile
  BY <1>3, <1>5, WriteDirectoryType
<1>7. /\ CreateFile(path, fileType, ok).iFile
           = IF ok[1] /\ listed THEN WriteDirectory(made, dir, list, TRUE) ELSE made
      /\ CreateFile(path, fileType, ok).inum = inum
      /\ CreateFile(path, fileType, ok).list = list
  BY DEF CreateFile, made, inum, dir, name
<1> HIDE DEF list
<1> QED BY <1>2, <1>3, <1>5, <1>6, <1>7

LEMMA CreateRefusedType ==
    ASSUME TypeOK, NEW path \in NewPaths, CanCreate(path), NEW fileType \in FileTypes, NEW ok,
           CreateRefused(CreateFile(path, fileType, ok), ok)
    PROVE  TypeOK'
<1> DEFINE created == CreateFile(path, fileType, ok)
<1>1. created.iFile \in IFile /\ created.list \in Seq(Entry)
  BY CreateFileType
<1>2. ListRefused(created.iFile, created.dir, created.list, ok, {})
  BY DEF CreateRefused
<1> HIDE DEF created
<1> QED BY <1>1, <1>2, ListRefusedType, TypeOKFacts

LEMMA CreateType ==
    ASSUME TypeOK, NEW path \in NewPaths,
           Fuse_Create(path) \/ Fuse_Symlink(path) \/ Fuse_Mkdir(path)
    PROVE  TypeOK'
<1>0. CanCreate(path) /\ history \in Seq(SUBSET LapseKinds)
  BY TypeOKFacts DEF Fuse_Create, Fuse_Symlink, Fuse_Mkdir
<1>1. CASE Fuse_Create(path)
  <2>1. PICK ok : Directory_Create(path, ok)
    BY <1>1 DEF Fuse_Create
  <2>2. CASE CreateRefused(CreateFile(path, "File", ok), ok)
    BY <1>0, <2>2, CreateRefusedType DEF FileTypes
  <2>3. CASE iFile' = CreateFile(path, "File", ok).iFile /\ Record(ok, {})
    <3>1. iFile' \in IFile
      BY <1>0, <2>3, CreateFileType DEF FileTypes
    <3>2. history' \in Seq(SUBSET LapseKinds)
      BY <1>0, <2>3, RecordType
    <3> QED BY <3>1, <3>2 DEF TypeOK, IFile, Inode, Entry, EntryNames
  <2> QED BY <2>1, <2>2, <2>3 DEF Directory_Create
<1>2. CASE Fuse_Symlink(path)
  <2>1. PICK ok : Directory_Symlink(path, ok)
    BY <1>2 DEF Fuse_Symlink
  <2>2. CASE CreateRefused(CreateFile(path, "Symlink", ok), ok)
    BY <1>0, <2>2, CreateRefusedType DEF FileTypes
  <2>3. CASE iFile' = CreateFile(path, "Symlink", ok).iFile /\ Record(ok, {})
    <3>1. iFile' \in IFile
      BY <1>0, <2>3, CreateFileType DEF FileTypes
    <3>2. history' \in Seq(SUBSET LapseKinds)
      BY <1>0, <2>3, RecordType
    <3> QED BY <3>1, <3>2 DEF TypeOK, IFile, Inode, Entry, EntryNames
  <2> QED BY <2>1, <2>2, <2>3 DEF Directory_Symlink
<1>3. CASE Fuse_Mkdir(path)
  <2>1. PICK ok : Directory_Mkdir(path, ok)
    BY <1>3 DEF Fuse_Mkdir
  <2> DEFINE made == CreateFile(path, "Directory", ok)
  <2>2. made.iFile \in IFile /\ made.inum \in INums
    BY <1>0, CreateFileType DEF FileTypes
  <2>3. CASE CreateRefused(made, ok)
    BY <1>0, <2>3, CreateRefusedType DEF FileTypes
  <2>4. CASE /\ iFile' = IF made.created
                          THEN WriteDirectory(made.iFile, made.inum, DirectoryList(made.inum), ok[3])
                          ELSE made.iFile
             /\ Record(ok, {})
    <3> HIDE DEF made
    <3>1. iFile' \in IFile
      BY <2>2, <2>4, WriteDirectoryType, DirectoryListType
    <3>2. history' \in Seq(SUBSET LapseKinds)
      BY <1>0, <2>4, RecordType
    <3> QED BY <3>1, <3>2 DEF TypeOK, IFile, Inode, Entry, EntryNames
  <2> QED BY <2>1, <2>3, <2>4 DEF Directory_Mkdir
<1> QED BY <1>1, <1>2, <1>3

LEMMA FoundRange ==
    ASSUME TypeOK, NEW path \in Paths, GetINum(iFile, path) # INUM_NOT_FOUND
    PROVE  GetINum(iFile, path) \in INums
BY GetINumRange, PathFacts, TypeOKFacts

LEMMA LinkType ==
    ASSUME TypeOK,
           NEW from \in Paths, NEW to \in NewPaths, KernelFinds(from),
           KernelFindsDirectory(GetDirectoryPath(to)), Fuse_Link(from, to)
    PROVE  TypeOK'
<1>1. PICK ok : Directory_Link(from, to, ok)
  BY DEF Fuse_Link
<1> DEFINE inum == GetINum(iFile, from)
           dir == GetINum(iFile, GetDirectoryPath(to))
           list == ReadDirectory(iFile, dir)
           added == AddFile(list, GetLastPathElement(to), inum)
           named == WriteDirectory(iFile, dir, added, TRUE)
           others == (IF ~ok[2] THEN {"uncounted"} ELSE {}) \cup
                     (IF iFile[inum].fileType = "Symlink" THEN {"symlink linked"} ELSE {})
<1>2. \/ iFile' = File_AddLink(named, inum, ok[2]) /\ Record(ok, others)
      \/ ListRefused(iFile, dir, added, ok, {"uncounted"})
      \/ iFile' = iFile /\ Record(ok, {})
  BY <1>1 DEF Directory_Link
<1>3. iFile \in IFile /\ history \in Seq(SUBSET LapseKinds)
  BY TypeOKFacts
<1>4. GetLastPathElement(to) \in EntryNames
  BY NewPathFacts, PathFacts, NameFacts DEF GetLastPathElement
<1>5. inum \in INums
  BY FoundRange DEF Fuse_Link, KernelFinds
<1>6. list \in Seq(Entry)
  BY <1>3, ReadDirectoryType
<1>7. others \in SUBSET LapseKinds /\ {"uncounted"} \in SUBSET LapseKinds
  BY DEF LapseKinds
<1> HIDE DEF inum, dir, list, others
<1>8. added \in Seq(Entry)
  BY <1>4, <1>5, <1>6, AddFileType
<1> HIDE DEF added
<1>9. File_AddLink(named, inum, ok[2]) \in IFile
  <2>1. named \in IFile
    BY <1>3, <1>8, WriteDirectoryType
  <2> HIDE DEF named
  <2> QED BY <1>5, <2>1, File_AddLinkType
<1> HIDE DEF named
<1>10. CASE ListRefused(iFile, dir, added, ok, {"uncounted"})
  BY <1>3, <1>7, <1>8, <1>10, ListRefusedType
<1>11. CASE \/ iFile' = File_AddLink(named, inum, ok[2]) /\ Record(ok, others)
            \/ iFile' = iFile /\ Record(ok, {})
  <2>1. iFile' \in IFile
    BY <1>3, <1>9, <1>11
  <2>2. history' \in Seq(SUBSET LapseKinds)
    BY <1>3, <1>7, <1>11, RecordType
  <2> QED BY <2>1, <2>2 DEF TypeOK, IFile, Inode, Entry, EntryNames
<1> QED BY <1>2, <1>10, <1>11

LEMMA UnlinkType ==
    ASSUME TypeOK, NEW path \in Paths, NEW ok, Directory_Unlink(path, ok)
    PROVE  TypeOK'
<1> DEFINE inum == GetINum(iFile, path)
           dir == GetINum(iFile, GetDirectoryPath(path))
           list == ReadDirectory(iFile, dir)
           name == GetLastPathElement(path)
           found == inum # INUM_NOT_FOUND /\ list # <<>> /\ name \notin Dots
           rest == RemoveFile(list, name)
           removed == WriteDirectory(iFile, dir, rest, TRUE)
<1>1. \/ iFile' = removed /\ Record(ok, {"terminated"})
      \/ found /\ iFile' = Forget(removed, inum, ok) /\ Record(ok, {})
      \/ ListRefused(iFile, dir, rest, ok, {})
      \/ iFile' = iFile /\ Record(ok, {})
  BY DEF Directory_Unlink
<1>2. iFile \in IFile /\ history \in Seq(SUBSET LapseKinds)
  BY TypeOKFacts
<1>3. inum # INUM_NOT_FOUND => inum \in INums
  BY FoundRange
<1>4. list \in Seq(Entry)
  BY <1>2, ReadDirectoryType
<1>5. rest \in Seq(Entry)
  <2> HIDE DEF list, name
  <2> QED BY <1>4, RemoveFileType
<1> HIDE DEF inum, dir, list, name, rest
<1>6. removed \in IFile
  BY <1>2, <1>5, WriteDirectoryType
<1> HIDE DEF removed
<1>7. found => Forget(removed, inum, ok) \in IFile
  BY <1>3, <1>6, ForgetType
<1>8. {"terminated"} \in SUBSET LapseKinds
  BY DEF LapseKinds
<1> HIDE DEF found
<1>9. CASE ListRefused(iFile, dir, rest, ok, {})
  BY <1>2, <1>5, <1>9, ListRefusedType
<1>10. CASE ~ListRefused(iFile, dir, rest, ok, {})
  <2>1. iFile' \in IFile
    BY <1>1, <1>2, <1>6, <1>7, <1>10
  <2>2. history' \in Seq(SUBSET LapseKinds)
    BY <1>1, <1>2, <1>8, <1>10, RecordType
  <2> QED BY <2>1, <2>2 DEF TypeOK, IFile, Inode, Entry, EntryNames
<1> QED BY <1>9, <1>10

LEMMA RmdirType ==
    ASSUME TypeOK, NEW path \in Paths, NEW ok, Directory_Rmdir(path, ok)
    PROVE  TypeOK'
<1>1. CASE Directory_Unlink(path, ok)
  BY <1>1, UnlinkType
<1>2. CASE UNCHANGED vars
  BY <1>2 DEF vars, TypeOK
<1> QED BY <1>1, <1>2 DEF Directory_Rmdir

LEMMA RenameType ==
    ASSUME TypeOK,
           NEW from \in Paths, NEW to \in NewPaths, KernelFinds(from),
           KernelFindsDirectory(GetDirectoryPath(to)), Fuse_Rename(from, to)
    PROVE  TypeOK'
<1>1. PICK ok : Directory_Rename(from, to, ok)
  BY DEF Fuse_Rename
<1> DEFINE inum == GetINum(iFile, from)
           fromDir == GetINum(iFile, GetDirectoryPath(from))
           toName == GetLastPathElement(to)
           rest == RemoveFile(ReadDirectory(iFile, fromDir), GetLastPathElement(from))
           removed == WriteDirectory(iFile, fromDir, rest, TRUE)
           toDir == GetINum(removed, GetDirectoryPath(to))
           toList == ReadDirectory(removed, toDir)
           added == AddFile(toList, toName, inum)
           over == IF ContainsFile(toList, toName) THEN {"renamed over"} ELSE {}
<1>2. \/ iFile' = WriteDirectory(removed, toDir, added, TRUE) /\ Record(ok, over)
      \/ ListRefused(removed, toDir, added, ok, over)
      \/ iFile' = removed /\ Record(ok, {})
      \/ ListRefused(iFile, fromDir, rest, ok, {})
      \/ iFile' = iFile /\ Record(ok, {})
  BY <1>1 DEF Directory_Rename
<1>3. iFile \in IFile /\ history \in Seq(SUBSET LapseKinds)
  BY TypeOKFacts
<1>4. inum \in INums
  BY FoundRange DEF Fuse_Rename, KernelRenames, KernelFinds
<1>5. toName \in EntryNames
  BY NewPathFacts, PathFacts, NameFacts DEF GetLastPathElement
<1>6. rest \in Seq(Entry)
  BY <1>3, ReadDirectoryType, RemoveFileType
<1> HIDE DEF rest, fromDir, inum, toName
<1>7. removed \in IFile
  BY <1>3, <1>6, WriteDirectoryType
<1> HIDE DEF removed
<1>8. toList \in Seq(Entry)
  BY <1>7, ReadDirectoryType
<1> HIDE DEF toList, toDir
<1>9. added \in Seq(Entry)
  BY <1>4, <1>5, <1>8, AddFileType
<1>10. over \in SUBSET LapseKinds
  BY DEF LapseKinds
<1> HIDE DEF added, over
<1>11. CASE ListRefused(removed, toDir, added, ok, over) \/ ListRefused(iFile, fromDir, rest, ok, {})
  BY <1>3, <1>6, <1>7, <1>9, <1>10, <1>11, ListRefusedType
<1>12. CASE \/ iFile' = WriteDirectory(removed, toDir, added, TRUE) /\ Record(ok, over)
            \/ iFile' = removed /\ Record(ok, {})
            \/ iFile' = iFile /\ Record(ok, {})
  <2>1. iFile' \in IFile
    BY <1>3, <1>7, <1>9, <1>12, WriteDirectoryType
  <2>2. history' \in Seq(SUBSET LapseKinds)
    BY <1>3, <1>10, <1>12, RecordType
  <2> QED BY <2>1, <2>2 DEF TypeOK, IFile, Inode, Entry, EntryNames
<1> QED BY <1>2, <1>11, <1>12

LEMMA InitType == Init => TypeOK
<1> SUFFICES ASSUME Init PROVE TypeOK
  OBVIOUS
<1> DEFINE rootList == AddFile(DirectoryList(ROOT_DIRECTORY_INUM), ".ifile", IFILE_INUM)
           inode(i) ==
             CASE i = IFILE_INUM ->
                    [inUse |-> TRUE, fileType |-> "File", nlinks |-> 1, entries |-> <<>>]
               [] i = ROOT_DIRECTORY_INUM ->
                    [inUse |-> TRUE, fileType |-> "Directory", nlinks |-> 3, entries |-> rootList]
               [] OTHER ->
                    [inUse |-> FALSE, fileType |-> "File", nlinks |-> 0, entries |-> <<>>]
<1>1. rootList \in Seq(Entry)
  <2>1. ".ifile" \in EntryNames
    BY DEF EntryNames
  <2> QED BY <2>1, NumberFacts, DirectoryListType, AddFileType
<1>2. iFile = [i \in INums |-> inode(i)] /\ history = <<>>
  BY DEF Init
<1>3. ASSUME NEW i \in INums PROVE inode(i) \in Inode
  <2> HIDE DEF rootList
  <2> QED BY <1>1, NumberFacts DEF Inode, FileTypes
<1> HIDE DEF inode
<1>4. iFile \in IFile
  BY <1>2, <1>3 DEF IFile
<1> QED BY <1>2, <1>4, TypeOKFacts

LEMMA NextType == TypeOK /\ [Next]_vars => TypeOK'
<1> SUFFICES ASSUME TypeOK, [Next]_vars PROVE TypeOK'
  OBVIOUS
<1>1. ASSUME NEW path \in NewPaths, Fuse_Create(path) \/ Fuse_Symlink(path) \/ Fuse_Mkdir(path)
      PROVE TypeOK'
  BY <1>1, CreateType
<1>2. ASSUME NEW path \in Paths, Fuse_Unlink(path) \/ Fuse_Rmdir(path) PROVE TypeOK'
  BY <1>2, UnlinkType, RmdirType DEF Fuse_Unlink, Fuse_Rmdir
<1>3. ASSUME NEW from \in Paths, NEW to \in NewPaths, KernelFinds(from),
             KernelFindsDirectory(GetDirectoryPath(to)), Fuse_Link(from, to) \/ Fuse_Rename(from, to)
      PROVE TypeOK'
  BY <1>3, LinkType, RenameType
<1>4. CASE UNCHANGED vars
  BY <1>4 DEF vars, TypeOK
<1> QED BY <1>1, <1>2, <1>3, <1>4 DEF Next, Known, Places

\* Whatever is refused, inodes and directory lists stay well formed: no entry
\* ever holds INUM_NOT_FOUND, which a failed lookup returns (GetINum), and no
\* link count leaves the range of an nlink_t.
THEOREM DirectoryTypeCorrect == Spec => []TypeOK
<1>1. Init => TypeOK
  BY InitType
<1>2. TypeOK /\ [Next]_vars => TypeOK'
  BY NextType
<1> QED BY <1>1, <1>2, PTL DEF Spec

----------------------------------------------------------------------------

(* Which inodes a request frees.                                           *)

LEMMA WriteDirectoryKeeps ==
    ASSUME NEW f \in IFile, NEW d, NEW list, NEW ok, NEW i \in INums
    PROVE  WriteDirectory(f, d, list, ok)[i].inUse <=> f[i].inUse
BY DEF WriteDirectory, IFile, Inode

LEMMA UpdateIFileElsewhere ==
    ASSUME NEW f \in IFile, NEW i, NEW inode, NEW ok, NEW j \in INums, j # i
    PROVE  UpdateIFile(f, i, inode, ok)[j] = f[j]
BY DEF UpdateIFile, IFile

LEMMA UpdateIFileThere ==
    ASSUME NEW f \in IFile, NEW i \in INums, NEW inode, NEW ok
    PROVE  UpdateIFile(f, i, inode, ok)[i] = IF ok \/ i = IFILE_INUM THEN inode ELSE f[i]
BY DEF UpdateIFile, IFile

LEMMA ForgetElsewhere ==
    ASSUME NEW f \in IFile, NEW i \in INums, NEW ok, NEW j \in INums, j # i
    PROVE  Forget(f, i, ok)[j] = f[j]
<1> DEFINE left == (f[i].nlinks - 1) % LinkModulus
           g == UpdateIFile(f, i, [f[i] EXCEPT !.nlinks = left], ok[2])
<1>1. left \in 0 .. LinkModulus - 1
  BY LinksRange, ModRange
<1>2. g \in IFile
  <2> HIDE DEF left
  <2> QED BY <1>1, SetLinksType, UpdateIFileType
<1>3. g[j] = f[j]
  BY UpdateIFileElsewhere
<1>4. File_RemoveLink(f, i, ok[2], ok[3]) = IF left = 0 THEN File_Free(g, i, ok[3]) ELSE g
  BY DEF File_RemoveLink
<1>5. File_Free(f, i, ok[2])[j] = f[j]
  BY UpdateIFileElsewhere DEF File_Free
<1>6. File_Free(g, i, ok[3])[j] = g[j]
  <2> HIDE DEF g
  <2> QED BY <1>2, UpdateIFileElsewhere DEF File_Free
<1> HIDE DEF g, left
<1> QED BY <1>3, <1>4, <1>5, <1>6 DEF Forget

LEMMA CreateFileKeepsUse ==
    ASSUME TypeOK, NEW path \in NewPaths, CanCreate(path), NEW fileType \in FileTypes, NEW ok,
           NEW d \in INums, iFile[d].inUse
    PROVE  CreateFile(path, fileType, ok).iFile[d].inUse
<1> DEFINE made == File_Create(iFile, fileType, ok[1])
           dir == GetINum(made, GetDirectoryPath(path))
           list == AddFile(ReadDirectory(made, dir), GetLastPathElement(path),
                           GetUnusedINum(iFile))
<1>1. iFile \in IFile /\ Unused(iFile) # {}
  BY TypeOKFacts DEF CanCreate
<1>2. made \in IFile /\ made[d].inUse
  <2>1. GetUnusedINum(iFile) # d
    BY <1>1, UnusedFacts
  <2> QED BY <1>1, <2>1, File_CreateType, UpdateIFileElsewhere DEF File_Create
<1> HIDE DEF made
<1>3. WriteDirectory(made, dir, list, TRUE)[d].inUse
  <2> HIDE DEF dir, list
  <2> QED BY <1>2, WriteDirectoryKeeps
<1>4. \/ CreateFile(path, fileType, ok).iFile = made
      \/ CreateFile(path, fileType, ok).iFile = WriteDirectory(made, dir, list, TRUE)
  BY DEF CreateFile, made
<1> HIDE DEF dir, list
<1> QED BY <1>2, <1>3, <1>4

LEMMA CreateKeepsUse ==
    ASSUME TypeOK, NEW path \in NewPaths,
           Fuse_Create(path) \/ Fuse_Symlink(path) \/ Fuse_Mkdir(path),
           NEW d \in INums, iFile[d].inUse
    PROVE  iFile'[d].inUse
<1>0. CanCreate(path)
  BY DEF Fuse_Create, Fuse_Symlink, Fuse_Mkdir
<1>1. ASSUME NEW t \in FileTypes, NEW ok PROVE CreateFile(path, t, ok).iFile[d].inUse
  BY <1>0, CreateFileKeepsUse
<1>3. ASSUME NEW t \in FileTypes, NEW ok, CreateRefused(CreateFile(path, t, ok), ok)
      PROVE  iFile'[d].inUse
  <2> DEFINE created == CreateFile(path, t, ok)
  <2>1. created.iFile \in IFile /\ created.iFile[d].inUse
    BY <1>0, <1>1, CreateFileType
  <2>2. ListRefused(created.iFile, created.dir, created.list, ok, {})
    BY <1>3 DEF CreateRefused
  <2> HIDE DEF created
  <2> QED BY <2>1, <2>2, ListRefusedKeepsUse
<1>2. ASSUME NEW ok, Directory_Mkdir(path, ok) PROVE iFile'[d].inUse
  <2> DEFINE made == CreateFile(path, "Directory", ok)
  <2>1. /\ made.iFile \in IFile
        /\ made.iFile[d].inUse
    BY <1>0, <1>1, CreateFileType DEF FileTypes
  <2>2. CASE iFile' = IF made.created
                        THEN WriteDirectory(made.iFile, made.inum, DirectoryList(made.inum), ok[3])
                        ELSE made.iFile
    <3> HIDE DEF made
    <3> QED BY <2>1, <2>2, WriteDirectoryKeeps
  <2>3. CASE CreateRefused(made, ok)
    BY <1>3, <2>3 DEF FileTypes
  <2> QED BY <1>2, <2>2, <2>3 DEF Directory_Mkdir
<1> QED BY <1>1, <1>2, <1>3 DEF Fuse_Create, Fuse_Symlink, Fuse_Mkdir, Directory_Create,
                          Directory_Symlink, FileTypes

LEMMA LinkKeepsUse ==
    ASSUME TypeOK,
           NEW from \in Paths, NEW to \in NewPaths, KernelFinds(from),
           KernelFindsDirectory(GetDirectoryPath(to)), Fuse_Link(from, to),
           NEW d \in INums
    PROVE  iFile'[d].inUse <=> iFile[d].inUse
<1>1. PICK ok : Directory_Link(from, to, ok)
  BY DEF Fuse_Link
<1> DEFINE inum == GetINum(iFile, from)
           dir == GetINum(iFile, GetDirectoryPath(to))
           list == ReadDirectory(iFile, dir)
           added == AddFile(list, GetLastPathElement(to), inum)
           named == WriteDirectory(iFile, dir, added, TRUE)
<1>2. \/ iFile' = File_AddLink(named, inum, ok[2]) \/ iFile' = iFile
      \/ ListRefused(iFile, dir, added, ok, {"uncounted"})
  BY <1>1 DEF Directory_Link
<1>3. iFile \in IFile
  BY TypeOKFacts
<1>4. inum \in INums
  BY FoundRange DEF Fuse_Link, KernelFinds
<1>5. added \in Seq(Entry)
  <2>1. list \in Seq(Entry)
    BY <1>3, ReadDirectoryType
  <2>2. GetLastPathElement(to) \in EntryNames
    BY NewPathFacts, PathFacts, NameFacts DEF GetLastPathElement
  <2> HIDE DEF list, inum
  <2> QED BY <1>4, <2>1, <2>2, AddFileType
<1> HIDE DEF inum, dir, added
<1>6. named \in IFile /\ (named[d].inUse <=> iFile[d].inUse)
  <2>1. named \in IFile
    BY <1>3, <1>5, WriteDirectoryType
  <2>2. named[d].inUse <=> iFile[d].inUse
    BY <1>3, <1>5, WriteDirectoryKeeps
  <2> QED BY <2>1, <2>2
<1> HIDE DEF named
<1>7. File_AddLink(named, inum, ok[2])[d].inUse <=> named[d].inUse
  BY <1>4, <1>6 DEF File_AddLink, UpdateIFile, IFile, Inode
<1>8. ListRefused(iFile, dir, added, ok, {"uncounted"}) => (iFile'[d].inUse <=> iFile[d].inUse)
  BY <1>3, ListRefusedKeepsUse
<1> QED BY <1>2, <1>6, <1>7, <1>8, Zenon

LEMMA UnlinkKeepsUse ==
    ASSUME TypeOK, NEW path \in Paths, NEW ok, Directory_Unlink(path, ok),
           NEW d \in INums, d # GetINum(iFile, path)
    PROVE  iFile'[d].inUse <=> iFile[d].inUse
<1> DEFINE inum == GetINum(iFile, path)
           dir == GetINum(iFile, GetDirectoryPath(path))
           rest == RemoveFile(ReadDirectory(iFile, dir), GetLastPathElement(path))
           removed == WriteDirectory(iFile, dir, rest, TRUE)
<1>1. \/ iFile' = removed
      \/ inum # INUM_NOT_FOUND /\ iFile' = Forget(removed, inum, ok)
      \/ iFile' = iFile
      \/ ListRefused(iFile, dir, rest, ok, {})
  BY DEF Directory_Unlink
<1>2. iFile \in IFile
  BY TypeOKFacts
<1>3. rest \in Seq(Entry)
  BY <1>2, ReadDirectoryType, RemoveFileType
<1>4. inum # INUM_NOT_FOUND => inum \in INums
  BY FoundRange
<1> HIDE DEF rest, dir, inum
<1>5. removed \in IFile /\ (removed[d].inUse <=> iFile[d].inUse)
  <2>1. removed \in IFile
    BY <1>2, <1>3, WriteDirectoryType
  <2>2. removed[d].inUse <=> iFile[d].inUse
    BY <1>2, <1>3, WriteDirectoryKeeps
  <2> QED BY <2>1, <2>2
<1>6. d # inum
  BY DEF inum
<1> HIDE DEF removed
<1>7. inum # INUM_NOT_FOUND => Forget(removed, inum, ok)[d] = removed[d]
  BY <1>4, <1>5, <1>6, ForgetElsewhere
<1>8. ListRefused(iFile, dir, rest, ok, {}) => (iFile'[d].inUse <=> iFile[d].inUse)
  BY <1>2, ListRefusedKeepsUse
<1> QED BY <1>1, <1>5, <1>7, <1>8, Zenon

LEMMA RenameKeepsUse ==
    ASSUME TypeOK,
           NEW from \in Paths, NEW to \in NewPaths, KernelFinds(from),
           KernelFindsDirectory(GetDirectoryPath(to)), Fuse_Rename(from, to),
           NEW d \in INums
    PROVE  iFile'[d].inUse <=> iFile[d].inUse
<1>1. PICK ok : Directory_Rename(from, to, ok)
  BY DEF Fuse_Rename
<1> DEFINE fromDir == GetINum(iFile, GetDirectoryPath(from))
           rest == RemoveFile(ReadDirectory(iFile, fromDir), GetLastPathElement(from))
           removed == WriteDirectory(iFile, fromDir, rest, TRUE)
           toDir == GetINum(removed, GetDirectoryPath(to))
           added == AddFile(ReadDirectory(removed, toDir), GetLastPathElement(to),
                            GetINum(iFile, from))
           over == IF ContainsFile(ReadDirectory(removed, toDir), GetLastPathElement(to))
                     THEN {"renamed over"} ELSE {}
<1>2. \/ iFile' = WriteDirectory(removed, toDir, added, TRUE)
      \/ iFile' = removed
      \/ iFile' = iFile
      \/ ListRefused(removed, toDir, added, ok, over)
      \/ ListRefused(iFile, fromDir, rest, ok, {})
  BY <1>1 DEF Directory_Rename
<1>3. iFile \in IFile
  BY TypeOKFacts
<1>4. rest \in Seq(Entry)
  BY <1>3, ReadDirectoryType, RemoveFileType
<1> HIDE DEF rest, fromDir
<1>5. removed \in IFile /\ (removed[d].inUse <=> iFile[d].inUse)
  <2>1. removed \in IFile
    BY <1>3, <1>4, WriteDirectoryType
  <2>2. removed[d].inUse <=> iFile[d].inUse
    BY <1>3, <1>4, WriteDirectoryKeeps
  <2> QED BY <2>1, <2>2
<1> HIDE DEF removed, toDir, added, over
<1>6. WriteDirectory(removed, toDir, added, TRUE)[d].inUse <=> removed[d].inUse
  BY <1>5, WriteDirectoryKeeps
<1>7. ListRefused(removed, toDir, added, ok, over) => (iFile'[d].inUse <=> removed[d].inUse)
  BY <1>5, ListRefusedKeepsUse
<1>8. ListRefused(iFile, fromDir, rest, ok, {}) => (iFile'[d].inUse <=> iFile[d].inUse)
  BY <1>3, ListRefusedKeepsUse
<1> QED BY <1>2, <1>5, <1>6, <1>7, <1>8, Zenon

\* A directory is freed by rmdir alone, which reads its list first and goes on
\* only when nothing but the two dots is left (Directory_Rmdir); neither a
\* refused write nor an earlier rename over its name gets around that.
THEOREM OnlyEmptyDirectoriesAreFreed == Spec => OnlyEmptyDirectoriesGo
<1> DEFINE Goes(d) == Readable(iFile, d) /\ ~iFile'[d].inUse => Len(iFile[d].entries) = 2
<1>1. TypeOK /\ [Next]_vars => [\A d \in INums : Goes(d)]_vars
  <2> SUFFICES ASSUME TypeOK, Next, NEW d \in INums, Readable(iFile, d), ~iFile'[d].inUse
               PROVE  Len(iFile[d].entries) = 2
    OBVIOUS
  <2>1. /\ iFile[d].inUse /\ iFile[d].fileType = "Directory"
        /\ ReadDirectory(iFile, d) = iFile[d].entries
    BY DEF Readable, ReadDirectory
  <2>2. ASSUME NEW path \in NewPaths,
               Fuse_Create(path) \/ Fuse_Symlink(path) \/ Fuse_Mkdir(path)
        PROVE  FALSE
    BY <2>1, <2>2, CreateKeepsUse
  <2>3. ASSUME NEW path \in Paths, Fuse_Unlink(path) PROVE FALSE
    <3>1. PICK ok : Directory_Unlink(path, ok)
      BY <2>3 DEF Fuse_Unlink
    <3>2. d # GetINum(iFile, path)
      BY <2>1, <2>3 DEF Fuse_Unlink, KernelType
    <3> QED BY <2>1, <3>1, <3>2, UnlinkKeepsUse
  <2>4. ASSUME NEW path \in Paths, Fuse_Rmdir(path) PROVE Len(iFile[d].entries) = 2
    <3>1. PICK ok : Directory_Rmdir(path, ok)
      BY <2>4 DEF Fuse_Rmdir
    <3>2. CASE ~IsEmpty(ReadDirectory(iFile, GetINum(iFile, path)))
      BY <2>1, <3>1, <3>2 DEF Directory_Rmdir, vars
    <3>3. CASE IsEmpty(ReadDirectory(iFile, GetINum(iFile, path)))
      <4>1. Directory_Unlink(path, ok)
        BY <3>1, <3>3 DEF Directory_Rmdir
      <4>2. d = GetINum(iFile, path)
        BY <2>1, <4>1, UnlinkKeepsUse
      <4> QED BY <2>1, <3>3, <4>2 DEF IsEmpty
    <3> QED BY <3>2, <3>3
  <2>5. ASSUME NEW from \in Paths, NEW to \in NewPaths, KernelFinds(from),
               KernelFindsDirectory(GetDirectoryPath(to)), Fuse_Link(from, to) \/ Fuse_Rename(from, to)
        PROVE  FALSE
    BY <2>1, <2>5, LinkKeepsUse, RenameKeepsUse
  <2> QED BY <2>2, <2>3, <2>4, <2>5 DEF Next, Known, Places
<1>2. Spec => []TypeOK
  BY DirectoryTypeCorrect
<1> QED BY <1>1, <1>2, PTL DEF Spec, OnlyEmptyDirectoriesGo

----------------------------------------------------------------------------

(* Removing a name from a list: the entries that are kept move down and    *)
(* stay in order, what is left over at the end is zeroed.                  *)

Compacts(list, name, new, c) ==
  /\ Len(new) <= Len(list)
  /\ c \in [Kept(list, name) -> 1 .. Len(new)]
  /\ \A i \in Kept(list, name) : c[i] <= i /\ new[c[i]] = list[i]
  /\ \A i, k \in Kept(list, name) : i < k => c[i] < c[k]
  /\ \A j \in 1 .. Len(new) : (\E i \in Kept(list, name) : c[i] = j) \/ new[j] = ZeroEntry

LEMMA CopyIndexFacts ==
    ASSUME NEW n \in Nat, NEW kept \in SUBSET (1 .. n)
    PROVE  /\ \A i \in kept : CopyIndex(kept, i) \in 1 .. i
           /\ \A i, k \in kept : i < k => CopyIndex(kept, i) < CopyIndex(kept, k)
           /\ \A i \in kept : kept # 1 .. n => CopyIndex(kept, i) \in 1 .. n - 1
<1> DEFINE upTo(i) == {k \in kept : k <= i}
<1>0. /\ IsFiniteSet(1 .. n) /\ Cardinality(1 .. n) = n
      /\ IsFiniteSet(kept) /\ Cardinality(kept) \in Nat /\ Cardinality(kept) <= n
      /\ Cardinality(kept) = n => kept = 1 .. n
  <2>1. IsFiniteSet(1 .. n) /\ Cardinality(1 .. n) = n
    BY FS_Interval
  <2> QED BY <2>1, FS_Subset, FS_CardinalityType
<1>1. ASSUME NEW i \in kept
      PROVE  /\ IsFiniteSet(upTo(i)) /\ Cardinality(upTo(i)) \in Nat
             /\ Cardinality(upTo(i)) <= Cardinality(kept)
             /\ Cardinality(upTo(i)) <= i /\ Cardinality(upTo(i)) # 0
  <2>0. \A k \in kept : k \in 1 .. n
    OBVIOUS
  <2>1. upTo(i) \in SUBSET kept /\ upTo(i) \in SUBSET (1 .. i) /\ i \in upTo(i) /\ i \in Nat
    <3>1. i \in Nat /\ \A k \in upTo(i) : k \in 1 .. i
      BY <2>0
    <3>2. upTo(i) \subseteq kept /\ i \in upTo(i)
      BY <3>1
    <3> QED BY <3>1, <3>2
  <2>2. IsFiniteSet(1 .. i) /\ Cardinality(1 .. i) = i
    BY <2>1, FS_Interval
  <2> HIDE DEF upTo
  <2>3. /\ IsFiniteSet(upTo(i)) /\ Cardinality(upTo(i)) <= Cardinality(kept)
    BY <1>0, <2>1, FS_Subset
  <2>4. Cardinality(upTo(i)) <= i
    BY <2>1, <2>2, FS_Subset
  <2>5. Cardinality(upTo(i)) \in Nat /\ Cardinality(upTo(i)) # 0
    BY <2>1, <2>3, FS_CardinalityType, FS_EmptySet
  <2> QED BY <2>3, <2>4, <2>5
<1>2. ASSUME NEW i \in kept, NEW k \in kept, i < k
      PROVE  Cardinality(upTo(i)) < Cardinality(upTo(k))
  <2>1. upTo(i) \in SUBSET upTo(k) /\ upTo(i) # upTo(k)
    <3>0. \A m \in kept : m \in Nat
      OBVIOUS
    <3>1. k \in upTo(k) /\ k \notin upTo(i)
      BY <1>2, <3>0
    <3>2. \A m \in upTo(i) : m \in upTo(k)
      BY <1>2, <3>0
    <3> QED BY <3>1, <3>2
  <2>2. /\ IsFiniteSet(upTo(k)) /\ Cardinality(upTo(k)) \in Nat /\ Cardinality(upTo(i)) \in Nat
    BY <1>1
  <2> HIDE DEF upTo
  <2>3. Cardinality(upTo(i)) <= Cardinality(upTo(k))
        /\ Cardinality(upTo(i)) # Cardinality(upTo(k))
    BY <2>1, <2>2, FS_Subset
  <2> QED BY <2>2, <2>3
<1>3. \A i : CopyIndex(kept, i) = Cardinality(upTo(i))
  BY DEF CopyIndex
<1> HIDE DEF upTo
<1>4. kept \subseteq Nat
  OBVIOUS
<1> QED BY <1>0, <1>1, <1>2, <1>3, <1>4

LEMMA RemoveFileCompacts ==
    ASSUME NEW list \in Seq(Entry), NEW name, name \notin Dots
    PROVE  \E c : Compacts(list, name, RemoveFile(list, name), c)
<1> DEFINE kept == Kept(list, name)
           new == RemoveFile(list, name)
<1>0. kept \in SUBSET (1 .. Len(list)) /\ Len(list) \in Nat
  BY DEF Kept
<1>1. CASE kept = 1 .. Len(list)
  <2>1. new = list
    BY <1>1 DEF RemoveFile
  <2> DEFINE c == [i \in kept |-> i]
  <2>2. Compacts(list, name, list, c)
    BY <1>0, <1>1 DEF Compacts
  <2> QED BY <2>1, <2>2
<1>2. CASE kept # 1 .. Len(list)
  <2> DEFINE c == [i \in kept |-> CopyIndex(kept, i)]
  <2>3. /\ Len(list) - 1 \in Nat /\ Len(new) = Len(list) - 1
        /\ \A j \in 1 .. Len(list) - 1 : new[j] = Moved(list, name, j)
    BY <1>2, RemoveFileMoves
  <2> HIDE DEF new
  <2>4. /\ \A i \in kept : CopyIndex(kept, i) \in 1 .. i
        /\ \A i, k \in kept : i < k => CopyIndex(kept, i) < CopyIndex(kept, k)
        /\ \A i \in kept : CopyIndex(kept, i) \in 1 .. Len(list) - 1
    <3> HIDE DEF kept
    <3> QED BY <1>0, <1>2, CopyIndexFacts
  <2>5. ASSUME NEW i \in kept PROVE Moved(list, name, CopyIndex(kept, i)) = list[i]
    <3>1. ASSUME NEW k \in kept, CopyIndex(kept, k) = CopyIndex(kept, i) PROVE k = i
      <4> HIDE DEF kept
      <4>1. ~(i < k) /\ ~(k < i)
        <5>1. CopyIndex(kept, i) \in 1 .. i /\ i \in Nat
          BY <1>0, <2>4
        <5> QED BY <2>4, <3>1, <5>1
      <4> QED BY <1>0, <4>1
    <3> DEFINE k == CHOOSE m \in kept : CopyIndex(kept, m) = CopyIndex(kept, i)
    <3>2. k \in kept /\ CopyIndex(kept, k) = CopyIndex(kept, i)
      OBVIOUS
    <3>3. Moved(list, name, CopyIndex(kept, i)) = list[k]
      BY DEF Moved
    <3> HIDE DEF k
    <3>4. k = i
      BY <3>1, <3>2
    <3> QED BY <3>3, <3>4
  <2>6. ASSUME NEW j, ~ \E i \in kept : CopyIndex(kept, i) = j
        PROVE  Moved(list, name, j) = ZeroEntry
    BY <2>6 DEF Moved
  <2>7. /\ c \in [kept -> 1 .. Len(new)]
        /\ \A i \in kept : c[i] = CopyIndex(kept, i)
    BY <2>3, <2>4
  <2>8. \A i \in kept : c[i] <= i /\ new[c[i]] = list[i]
    <3> SUFFICES ASSUME NEW i \in kept PROVE c[i] <= i /\ new[c[i]] = list[i]
      OBVIOUS
    <3>1. c[i] = CopyIndex(kept, i) /\ c[i] \in 1 .. i /\ c[i] \in 1 .. Len(list) - 1
      BY <2>4, <2>7
    <3> HIDE DEF c
    <3> QED BY <1>0, <2>3, <2>5, <3>1
  <2>9. \A j \in 1 .. Len(new) : (\E i \in kept : c[i] = j) \/ new[j] = ZeroEntry
    <3> SUFFICES ASSUME NEW j \in 1 .. Len(new), ~ \E i \in kept : c[i] = j
                 PROVE  new[j] = ZeroEntry
      OBVIOUS
    <3>1. ~ \E i \in kept : CopyIndex(kept, i) = j
      BY <2>7
    <3> HIDE DEF c
    <3> QED BY <2>3, <2>6, <3>1
  <2> HIDE DEF c
  <2>10. Compacts(list, name, new, c)
    BY <1>0, <2>3, <2>4, <2>7, <2>8, <2>9 DEF Compacts
  <2> QED BY <2>10 DEF new
<1> QED BY <1>1, <1>2

----------------------------------------------------------------------------

(* The shape of the tree.                                                  *)

\* A list starts with the two dots and has them nowhere else.
ListOK(list) ==
  /\ Len(list) \in 2 .. MaxEntries
  /\ list[1].name = "." /\ list[2].name = ".."
  /\ \A j \in 3 .. Len(list) : list[j].name \notin Dots

Tree(f) ==
  /\ f[IFILE_INUM].inUse /\ f[IFILE_INUM].fileType = "File"
  /\ \A d \in INums : f[d].entries = <<>> \/ ListOK(f[d].entries)

\* g holds what f does but that dir lost the name.
Removes(f, g, dir, name) ==
  /\ \A d : d # dir => ReadDirectory(g, d) = ReadDirectory(f, d)
  /\ \E c : Compacts(ReadDirectory(f, dir), name, ReadDirectory(g, dir), c)

LEMMA TreeLists ==
    ASSUME NEW f \in IFile, Tree(f), NEW d, ReadDirectory(f, d) # <<>>
    PROVE  /\ d \in INums /\ f[d].inUse /\ f[d].fileType = "Directory"
           /\ ReadDirectory(f, d) = f[d].entries /\ ListOK(ReadDirectory(f, d))
BY DEF ReadDirectory, Tree

LEMMA CompactsListOK ==
    ASSUME NEW list \in Seq(Entry), NEW new \in Seq(Entry), NEW name, NEW c,
           ListOK(list), name \notin Dots, Compacts(list, name, new, c)
    PROVE  ListOK(new)
<1>1. /\ Len(list) \in Nat /\ Len(new) \in Nat /\ Len(list) >= 2
      /\ Len(new) <= Len(list) /\ Len(new) <= MaxEntries
  BY NumberFacts DEF ListOK, Compacts
<1>2. 1 \in Kept(list, name) /\ 2 \in Kept(list, name)
  BY <1>1 DEF Kept, ListOK, Dots
<1>3. /\ c[1] \in 1 .. Len(new) /\ c[2] \in 1 .. Len(new) /\ c[1] < c[2] /\ c[1] <= 1 /\ c[2] <= 2
      /\ new[c[1]] = list[1] /\ new[c[2]] = list[2]
  BY <1>2 DEF Compacts
<1>4. c[1] = 1 /\ c[2] = 2
  BY <1>1, <1>3
<1>5. ASSUME NEW j \in 3 .. Len(new) PROVE new[j].name \notin Dots
  <2>1. CASE new[j] = ZeroEntry
    <3>1. ZeroEntry.name \notin Dots
      BY DEF ZeroEntry, Dots
    <3> QED BY <2>1, <3>1
  <2>2. ASSUME NEW i \in Kept(list, name), c[i] = j PROVE new[j].name \notin Dots
    <3>1. i \in 1 .. Len(list) /\ j <= i /\ new[j] = list[i]
      BY <2>2 DEF Compacts, Kept
    <3>2. i \in 3 .. Len(list)
      BY <1>1, <3>1
    <3> QED BY <3>1, <3>2 DEF ListOK
  <2>3. j \in 1 .. Len(new)
    BY <1>1
  <2> QED BY <2>1, <2>2, <2>3 DEF Compacts
<1> QED BY <1>1, <1>3, <1>4, <1>5 DEF ListOK

\* Other names are found where they were.
LEMMA RemovesLookup ==
    ASSUME NEW f \in IFile, NEW g \in IFile, NEW dir, NEW name, Removes(f, g, dir, name),
           NEW d, NEW other \in PathNames
    PROVE  Lookup(g, d, other) =
             IF d = dir /\ other = name THEN INUM_NOT_FOUND ELSE Lookup(f, d, other)
<1>1. CASE d # dir
  <2>1. ReadDirectory(g, d) = ReadDirectory(f, d)
    BY <1>1 DEF Removes
  <2> QED BY <1>1, <2>1 DEF Lookup
<1>2. CASE d = dir
  <2> DEFINE list == ReadDirectory(f, dir)
             new == ReadDirectory(g, dir)
  <2>0. list \in Seq(Entry) /\ new \in Seq(Entry)
    BY ReadDirectoryType
  <2>1. PICK c : Compacts(list, name, new, c)
    BY DEF Removes
  <2>2. other # ZeroEntry.name
    BY NameFacts DEF ZeroEntry
  <2>3. ASSUME NEW j \in 1 .. Len(new), new[j].name = other
        PROVE  \E i \in Kept(list, name) : c[i] = j /\ list[i].name = other
    <3> HIDE DEF list, new
    <3> QED BY <2>1, <2>2, <2>3 DEF Compacts
  <2>4. CASE other = name
    <3>1. \A j \in 1 .. Len(new) : new[j].name # other
      BY <2>3, <2>4 DEF Kept
    <3>2. Lookup(g, dir, other) = INUM_NOT_FOUND
      BY <3>1, LookupMissing
    <3> QED BY <1>2, <2>4, <3>2
  <2>5. CASE other # name /\ ~ContainsFile(list, other)
    <3>1. \A j \in 1 .. Len(new) : new[j].name # other
      BY <2>3, <2>5 DEF Kept, ContainsFile
    <3>2. Lookup(g, dir, other) = INUM_NOT_FOUND
      BY <3>1, LookupMissing
    <3>3. Lookup(f, dir, other) = INUM_NOT_FOUND
      BY <2>5 DEF Lookup
    <3> QED BY <1>2, <2>5, <3>2, <3>3
  <2>6. CASE other # name /\ ContainsFile(list, other)
    <3>1. PICK i \in 1 .. Len(list) :
            /\ list[i].name = other
            /\ \A j \in 1 .. Len(list) : list[j].name = other => i <= j
      BY <2>0, <2>6, FirstEntry
    <3>2. i \in Kept(list, name)
      BY <2>6, <3>1 DEF Kept
    <3>3. c[i] \in 1 .. Len(new) /\ new[c[i]] = list[i]
      BY <2>1, <3>2 DEF Compacts
    <3>4. ASSUME NEW j \in 1 .. Len(new), new[j].name = other PROVE c[i] <= j
      <4>1. PICK k \in Kept(list, name) : c[k] = j /\ list[k].name = other
        BY <2>3, <3>4
      <4>2. k \in 1 .. Len(list) /\ i <= k
        BY <3>1, <4>1 DEF Kept
      <4>3. i < k => c[i] < c[k]
        BY <2>1, <3>2 DEF Compacts
      <4>4. c[i] \in Int /\ c[k] \in Int /\ i \in Int /\ k \in Int
        BY <2>0, <3>3, <4>1, <4>2
      <4> HIDE DEF list, new
      <4> QED BY <4>1, <4>2, <4>3, <4>4
    <3>5. Lookup(g, dir, other) = new[c[i]].inum
      BY <3>1, <3>3, <3>4, LookupIs
    <3>6. Lookup(f, dir, other) = list[i].inum
      BY <3>1, LookupIs
    <3> HIDE DEF list, new
    <3> QED BY <1>2, <2>6, <3>3, <3>5, <3>6
  <2> QED BY <2>4, <2>5, <2>6
<1> QED BY <1>1, <1>2

LEMMA LookupNowhere ==
    ASSUME NEW f \in IFile, NEW name
    PROVE  Lookup(f, INUM_NOT_FOUND, name) = INUM_NOT_FOUND
<1>1. ReadDirectory(f, INUM_NOT_FOUND) = <<>>
  BY NumberFacts DEF ReadDirectory
<1> QED BY <1>1 DEF Lookup, ContainsFile

\* With a name gone, a path leads where it led or nowhere.
LEMMA RemovesGetINum ==
    ASSUME NEW f \in IFile, NEW g \in IFile, NEW dir, NEW name, Removes(f, g, dir, name),
           NEW path \in Seq(PathNames)
    PROVE  GetINum(g, path) \in {GetINum(f, path), INUM_NOT_FOUND}
<1>1. PICK w : IsWalk(f, path, w)
  BY WalkExists
<1>2. PICK v : IsWalk(g, path, v)
  BY WalkExists
<1> DEFINE T == {n \in 0 .. Len(path) : v[n] # w[n] /\ v[n] # INUM_NOT_FOUND}
<1>0. Len(path) \in Nat
  OBVIOUS
<1>3. ASSUME T # {} PROVE FALSE
  <2>0. T \subseteq Nat
    BY <1>0
  <2>1. PICK n \in T : \A j \in T : n <= j
    <3> HIDE DEF T
    <3> QED BY <1>3, <2>0, LeastOf
  <2>2. n \in 1 .. Len(path) /\ n - 1 \in 0 .. Len(path) /\ n - 1 \notin T
    <3>1. n # 0
      BY <1>1, <1>2 DEF IsWalk, Partial
    <3> QED BY <1>0, <2>1, <3>1
  <2>3. v[n - 1] = w[n - 1] \/ v[n - 1] = INUM_NOT_FOUND
    BY <2>2
  <2>4. /\ v[n] = Lookup(g, v[n - 1], path[n]) /\ w[n] = Lookup(f, w[n - 1], path[n])
        /\ path[n] \in PathNames
    BY <1>1, <1>2, <2>2 DEF IsWalk, Partial
  <2>5. v[n] # w[n] /\ v[n] # INUM_NOT_FOUND
    BY <2>1
  <2>6. v[n - 1] # INUM_NOT_FOUND
    BY <2>4, <2>5, LookupNowhere
  <2>7. v[n] = INUM_NOT_FOUND \/ v[n] = Lookup(f, v[n - 1], path[n])
    BY <2>4, RemovesLookup
  <2> QED BY <2>3, <2>4, <2>5, <2>6, <2>7
<1>4. v[Len(path)] = w[Len(path)] \/ v[Len(path)] = INUM_NOT_FOUND
  BY <1>0, <1>3
<1> QED BY <1>1, <1>2, <1>4, WalkIsGetINum

\* A path that never looks the name up leads where it led.
LEMMA RemovesKeepsWalk ==
    ASSUME NEW f \in IFile, NEW g \in IFile, NEW dir, NEW name, Removes(f, g, dir, name),
           NEW path \in Seq(PathNames), NEW w, IsWalk(f, path, w),
           \A n \in 1 .. Len(path) : ~(w[n - 1] = dir /\ path[n] = name)
    PROVE  GetINum(g, path) = GetINum(f, path)
<1>1. ASSUME NEW n \in 1 .. Len(path) PROVE w[n] = Lookup(g, w[n - 1], path[n])
  <2>1. w[n] = Lookup(f, w[n - 1], path[n]) /\ path[n] \in PathNames
    BY DEF IsWalk, Partial
  <2> QED BY <2>1, RemovesLookup
<1>2. IsWalk(g, path, w)
  BY <1>1 DEF IsWalk, Partial
<1> QED BY <1>2, WalkIsGetINum

----------------------------------------------------------------------------

(* The names of an inode.                                                  *)

LEMMA NamesOfIs ==
    ASSUME NEW f \in IFile, Tree(f), NEW i
    PROVE  /\ NamesOf(f, i) \subseteq INums \X (3 .. MaxEntries)
           /\ \A d \in INums, j \in Nat :
                <<d, j>> \in NamesOf(f, i) <=>
                  j \in 3 .. Len(ReadDirectory(f, d)) /\ ReadDirectory(f, d)[j].inum = i
<1>1. NamesOf(f, i) \subseteq INums \X (3 .. MaxEntries)
  BY DEF NamesOf
<1>2. ASSUME NEW d \in INums, NEW j \in Nat
      PROVE  <<d, j>> \in NamesOf(f, i) <=>
               j \in 3 .. Len(ReadDirectory(f, d)) /\ ReadDirectory(f, d)[j].inum = i
  <2> DEFINE list == ReadDirectory(f, d)
  <2>1. <<d, j>> \in NamesOf(f, i) <=>
          j \in 3 .. MaxEntries /\ j <= Len(list) /\ f[d].entries[j].inum = i
    BY DEF NamesOf
  <2>2. list \in Seq(Entry) /\ Len(list) \in Nat
    BY ReadDirectoryType
  <2>3. CASE list = <<>>
    <3>1. Len(list) = 0
      BY <2>3
    <3>2. j \notin 3 .. Len(list) /\ ~(j \in 3 .. MaxEntries /\ j <= Len(list))
      <4> HIDE DEF list
      <4> QED BY <3>1
    <3> QED BY <2>1, <3>2
  <2>4. CASE list # <<>>
    <3>1. list = f[d].entries /\ Len(list) <= MaxEntries
      BY <2>4, TreeLists, NumberFacts DEF ListOK
    <3>2. (j \in 3 .. MaxEntries /\ j <= Len(list)) <=> j \in 3 .. Len(list)
      <4> HIDE DEF list
      <4> QED BY <2>2, <3>1, NumberFacts
    <3> HIDE DEF list
    <3>3. <<d, j>> \in NamesOf(f, i) <=> j \in 3 .. Len(list) /\ list[j].inum = i
      BY <2>1, <3>1, <3>2
    <3> QED BY <3>3 DEF list
  <2> QED BY <2>3, <2>4
<1> QED BY <1>1, <1>2

LEMMA NamesOfFinite ==
    ASSUME NEW f, NEW i
    PROVE  /\ IsFiniteSet(NamesOf(f, i)) /\ Cardinality(NamesOf(f, i)) \in Nat
           /\ Cardinality(NamesOf(f, i)) = 0 <=> NamesOf(f, i) = {}
<1>1. IsFiniteSet(INums) /\ IsFiniteSet(3 .. MaxEntries)
  BY NumberFacts, FS_Interval
<1>2. IsFiniteSet(INums \X (3 .. MaxEntries))
  BY <1>1, FS_Product
<1>3. NamesOf(f, i) \in SUBSET (INums \X (3 .. MaxEntries))
  BY DEF NamesOf
<1>4. IsFiniteSet(NamesOf(f, i))
  BY <1>2, <1>3, FS_Subset
<1> QED BY <1>4, FS_CardinalityType, FS_EmptySet

\* Lists that go, or hold no more than their dots, name nothing.
LEMMA NamesShrink ==
    ASSUME NEW f \in IFile, NEW g \in IFile, Tree(f), Tree(g), NEW i,
           \A d \in INums : \/ ReadDirectory(g, d) = ReadDirectory(f, d)
                            \/ Len(ReadDirectory(g, d)) <= 2
    PROVE  NamesOf(g, i) \subseteq NamesOf(f, i)
<1> SUFFICES ASSUME NEW p \in NamesOf(g, i) PROVE p \in NamesOf(f, i)
  OBVIOUS
<1>1. PICK d \in INums, j \in 3 .. MaxEntries : p = <<d, j>>
  BY NamesOfIs
<1>2. j \in Nat
  BY NumberFacts
<1>3. j \in 3 .. Len(ReadDirectory(g, d)) /\ ReadDirectory(g, d)[j].inum = i
  BY <1>1, <1>2, NamesOfIs
<1>4. ~(Len(ReadDirectory(g, d)) <= 2)
  <2>1. Len(ReadDirectory(g, d)) \in Nat
    BY ReadDirectoryType
  <2> QED BY <1>2, <1>3, <2>1
<1>5. ReadDirectory(g, d) = ReadDirectory(f, d)
  BY <1>4
<1> QED BY <1>1, <1>2, <1>3, <1>5, NamesOfIs

\* A new entry is one name more for the inode it holds.
LEMMA NamesGrow ==
    ASSUME NEW f \in IFile, NEW g \in IFile, Tree(f), Tree(g),
           NEW dir \in INums, NEW name, NEW inum, NEW i,
           Len(ReadDirectory(f, dir)) >= 2,
           ReadDirectory(g, dir) = AddFile(ReadDirectory(f, dir), name, inum),
           \A d : d # dir => ReadDirectory(g, d) = ReadDirectory(f, d)
    PROVE  /\ <<dir, Len(ReadDirectory(f, dir)) + 1>> \notin NamesOf(f, i)
           /\ NamesOf(g, i) = IF i = inum
                                THEN NamesOf(f, i) \cup {<<dir, Len(ReadDirectory(f, dir)) + 1>>}
                                ELSE NamesOf(f, i)
<1> DEFINE list == ReadDirectory(f, dir)
           new == ReadDirectory(g, dir)
           len == Len(list)
           top == <<dir, len + 1>>
<1>0. list \in Seq(Entry) /\ len \in Nat /\ len >= 2 /\ len + 1 \in Nat
  BY ReadDirectoryType
<1>1. Len(new) = len + 1 /\ new[len + 1].inum = inum /\ \A j \in 1 .. len : new[j] = list[j]
  <2> HIDE DEF list
  <2>1. new = Append(list, [name |-> name, inum |-> inum])
    BY DEF AddFile, list
  <2> HIDE DEF new
  <2> QED BY <1>0, <2>1
<1>2. top \notin NamesOf(f, i)
  BY <1>0, NamesOfIs
<1>3. ASSUME NEW d \in INums, NEW j \in 3 .. MaxEntries
      PROVE  <<d, j>> \in NamesOf(g, i) <=>
               <<d, j>> \in NamesOf(f, i) \/ (i = inum /\ d = dir /\ j = len + 1)
  <2>0. j \in Nat /\ j >= 3
    BY NumberFacts
  <2>1. CASE d # dir
    <3>1. ReadDirectory(g, d) = ReadDirectory(f, d)
      BY <2>1
    <3> QED BY <2>0, <2>1, <3>1, NamesOfIs
  <2>2. CASE d = dir
    <3>1. /\ <<d, j>> \in NamesOf(g, i) <=> j \in 3 .. Len(new) /\ new[j].inum = i
          /\ <<d, j>> \in NamesOf(f, i) <=> j \in 3 .. len /\ list[j].inum = i
      BY <2>0, <2>2, NamesOfIs
    <3> HIDE DEF list, new, len
    <3>2. j \in 3 .. Len(new) <=> j \in 3 .. len \/ j = len + 1
      BY <1>0, <1>1, <2>0
    <3>3. j \in 3 .. len => j \in 1 .. len /\ j # len + 1
      BY <1>0, <2>0
    <3> QED BY <1>1, <2>2, <3>1, <3>2, <3>3
  <2> QED BY <2>1, <2>2
<1>4. top \in INums \X (3 .. MaxEntries)
  <2>1. Len(new) <= MaxEntries
    <3>1. new # <<>>
      BY <1>0, <1>1
    <3>2. ListOK(new)
      BY <3>1, TreeLists
    <3> QED BY <3>2, NumberFacts DEF ListOK
  <2> HIDE DEF len, new
  <2> QED BY <1>0, <1>1, <2>1, NumberFacts
<1>5. /\ NamesOf(g, i) \subseteq INums \X (3 .. MaxEntries)
      /\ NamesOf(f, i) \subseteq INums \X (3 .. MaxEntries)
  BY NamesOfIs
<1>6. CASE i = inum
  <2>1. NamesOf(g, i) = NamesOf(f, i) \cup {top}
    <3> HIDE DEF len
    <3>1. ASSUME NEW p \in INums \X (3 .. MaxEntries)
          PROVE  p \in NamesOf(g, i) <=> p \in NamesOf(f, i) \/ p = top
      <4>1. PICK d \in INums, j \in 3 .. MaxEntries : p = <<d, j>>
        OBVIOUS
      <4> QED BY <1>3, <1>6, <4>1
    <3> HIDE DEF top
    <3> QED BY <1>4, <1>5, <3>1
  <2> QED BY <1>2, <1>6, <2>1
<1>7. CASE i # inum
  <2>1. NamesOf(g, i) = NamesOf(f, i)
    <3> HIDE DEF len
    <3>1. ASSUME NEW p \in INums \X (3 .. MaxEntries)
          PROVE  p \in NamesOf(g, i) <=> p \in NamesOf(f, i)
      <4>1. PICK d \in INums, j \in 3 .. MaxEntries : p = <<d, j>>
        OBVIOUS
      <4> QED BY <1>3, <1>7, <4>1
    <3> QED BY <1>5, <3>1
  <2> QED BY <1>2, <1>7, <2>1
<1> QED BY <1>6, <1>7

\* The names of an inode but for those that go with a name of dir.
KeptNames(f, dir, name, i) ==
  {p \in NamesOf(f, i) : p[1] = dir => p[2] \in Kept(ReadDirectory(f, dir), name)}

\* Moving the kept entries down loses none of them and makes up none, unless
\* a zeroed entry is left and passes for a name of the ifile.
LEMMA NamesAfterRemoval ==
    ASSUME NEW f \in IFile, NEW g \in IFile, Tree(f), Tree(g), NEW dir \in INums, NEW name,
           \A d : d # dir => ReadDirectory(g, d) = ReadDirectory(f, d),
           NEW c, Compacts(ReadDirectory(f, dir), name, ReadDirectory(g, dir), c),
           {1, 2} \subseteq Kept(ReadDirectory(f, dir), name),
           NEW i,
           i # IFILE_INUM \/ \A j \in 1 .. Len(ReadDirectory(g, dir)) :
                               \E k \in Kept(ReadDirectory(f, dir), name) : c[k] = j
    PROVE  Cardinality(NamesOf(g, i)) = Cardinality(KeptNames(f, dir, name, i))
<1> DEFINE list == ReadDirectory(f, dir)
           new == ReadDirectory(g, dir)
           kept == Kept(list, name)
           KN == KeptNames(f, dir, name, i)
           move(p) == <<p[1], IF p[1] = dir THEN c[p[2]] ELSE p[2]>>
           m == [p \in KN |-> move(p)]
<1>0. /\ list \in Seq(Entry) /\ new \in Seq(Entry)
      /\ Len(list) \in Nat /\ Len(new) \in Nat
      /\ kept \subseteq 1 .. Len(list)
  BY ReadDirectoryType DEF Kept
<1>1. /\ c \in [kept -> 1 .. Len(new)]
      /\ \A k \in kept : c[k] <= k /\ new[c[k]] = list[k]
      /\ \A k, l \in kept : k < l => c[k] < c[l]
      /\ \A j \in 1 .. Len(new) : (\E k \in kept : c[k] = j) \/ new[j] = ZeroEntry
  BY DEF Compacts
<1>2. 1 \in kept /\ 2 \in kept
  OBVIOUS
<1> HIDE DEF list, new, kept
<1>3. \A k \in kept : k \in Nat /\ c[k] \in Nat
  BY <1>0, <1>1
<1>4. \A k \in kept : k >= 3 <=> c[k] >= 3
  <2> SUFFICES ASSUME NEW k \in kept PROVE k >= 3 <=> c[k] >= 3
    OBVIOUS
  <2>1. c[1] >= 1 /\ c[1] < c[2] /\ (2 < k => c[2] < c[k]) /\ c[k] <= k
    BY <1>1, <1>2
  <2> QED BY <1>2, <1>3, <2>1
<1>5. \A k, l \in kept : c[k] = c[l] => k = l
  BY <1>1, <1>3
<1>6. ASSUME NEW p \in KN
      PROVE  /\ move(p) \in NamesOf(g, i)
             /\ p[1] \in INums /\ p[2] \in Nat /\ p = <<p[1], p[2]>>
             /\ p[1] = dir => p[2] \in kept
  <2>1. PICK d \in INums, j \in 3 .. MaxEntries : p = <<d, j>>
    BY NamesOfIs DEF KeptNames
  <2>2. j \in Nat /\ j >= 3
    BY NumberFacts
  <2>3. <<d, j>> \in NamesOf(f, i) /\ (d = dir => j \in kept)
    BY <2>1 DEF KeptNames, kept, list
  <2>4. CASE d # dir
    <3>1. ReadDirectory(g, d) = ReadDirectory(f, d) /\ move(p) = <<d, j>>
      BY <2>1, <2>4
    <3>2. <<d, j>> \in NamesOf(g, i)
      BY <2>2, <2>3, <3>1, NamesOfIs
    <3> QED BY <2>1, <2>2, <2>4, <3>1, <3>2
  <2>5. CASE d = dir
    <3>1. j \in kept /\ move(p) = <<dir, c[j]>>
      BY <2>1, <2>3, <2>5
    <3>2. list[j].inum = i
      BY <2>2, <2>3, <2>5, NamesOfIs DEF list
    <3>3. c[j] \in 3 .. Len(new) /\ new[c[j]].inum = i /\ c[j] \in Nat
      BY <1>0, <1>1, <1>3, <1>4, <2>2, <3>1, <3>2
    <3>4. <<dir, c[j]>> \in NamesOf(g, i)
      BY <3>3, NamesOfIs DEF new
    <3> QED BY <2>1, <2>2, <2>5, <3>1, <3>4
  <2> QED BY <2>4, <2>5
<1>7. m \in [KN -> NamesOf(g, i)] /\ \A p \in KN : m[p] = move(p)
  <2> HIDE DEF KN, move
  <2> QED BY <1>6
<1>8. ASSUME NEW p \in KN, NEW q \in KN, m[p] = m[q] PROVE p = q
  <2>1. move(p) = move(q)
    BY <1>7, <1>8
  <2>2. p[1] = q[1]
    BY <2>1
  <2>3. p[2] = q[2]
    <3>1. CASE p[1] = dir
      <4>1. c[p[2]] = c[q[2]]
        BY <2>1, <2>2, <3>1
      <4> QED BY <1>5, <1>6, <2>2, <3>1, <4>1
    <3>2. CASE p[1] # dir
      BY <2>1, <2>2, <3>2
    <3> QED BY <3>1, <3>2
  <2> QED BY <1>6, <2>2, <2>3
<1>9. ASSUME NEW q \in NamesOf(g, i) PROVE \E p \in KN : m[p] = q
  <2>1. PICK d \in INums, j \in 3 .. MaxEntries : q = <<d, j>>
    BY NamesOfIs
  <2>2. j \in Nat /\ j >= 3
    BY NumberFacts
  <2>3. CASE d # dir
    <3>1. ReadDirectory(g, d) = ReadDirectory(f, d)
      BY <2>3
    <3>2. <<d, j>> \in NamesOf(f, i)
      BY <2>1, <2>2, <3>1, NamesOfIs
    <3>3. <<d, j>> \in KN /\ move(<<d, j>>) = <<d, j>>
      BY <2>3, <3>2 DEF KeptNames
    <3> QED BY <1>7, <2>1, <3>3
  <2>4. CASE d = dir
    <3>1. j \in 1 .. Len(new) /\ new[j].inum = i
      <4>1. j \in 3 .. Len(new) /\ new[j].inum = i
        BY <2>1, <2>2, <2>4, NamesOfIs DEF new
      <4> QED BY <1>0, <2>2, <4>1
    <3>2. PICK k \in kept : c[k] = j
      <4>1. new[j] = ZeroEntry => i = IFILE_INUM
        <5>1. ZeroEntry.inum = IFILE_INUM
          BY DEF ZeroEntry, IFILE_INUM
        <5> QED BY <3>1, <5>1
      <4> QED BY <1>1, <3>1, <4>1 DEF kept, list, new
    <3>3. k \in 3 .. Len(list) /\ list[k].inum = i /\ k \in Nat
      BY <1>0, <1>1, <1>3, <1>4, <2>2, <3>1, <3>2
    <3>4. <<dir, k>> \in NamesOf(f, i)
      BY <3>3, NamesOfIs DEF list
    <3>5. <<dir, k>> \in KN
      BY <3>4 DEF KeptNames, kept, list
    <3>6. move(<<dir, k>>) = q
      BY <2>1, <2>4, <3>2
    <3> QED BY <1>7, <3>5, <3>6
  <2> QED BY <2>3, <2>4
<1> HIDE DEF m, KN
<1>10. m \in Bijection(KN, NamesOf(g, i))
  BY <1>7, <1>8, <1>9 DEF Bijection, Injection, Surjection, IsInjective
<1>11. IsFiniteSet(KN)
  <2>1. KN \in SUBSET NamesOf(f, i)
    BY DEF KN, KeptNames
  <2> QED BY <2>1, NamesOfFinite, FS_Subset
<1>12. ExistsBijection(KN, NamesOf(g, i))
  BY <1>10 DEF ExistsBijection
<1> QED BY <1>11, <1>12, FS_Bijection DEF KN

----------------------------------------------------------------------------

(* Writing a directory.                                                    *)

Written(f, dir, list) == [f EXCEPT ![dir].entries = list]

LEMMA IsWritten == \A f, dir, list : WriteDirectory(f, dir, list, TRUE) = Written(f, dir, list)
BY DEF WriteDirectory, Written

LEMMA WrittenType ==
    ASSUME NEW f \in IFile, NEW d, NEW list \in Seq(Entry)
    PROVE  Written(f, d, list) \in IFile
BY DEF Written, IFile, Inode

LEMMA WrittenKeeps ==
    ASSUME NEW f \in IFile, NEW d, NEW list, NEW i \in INums
    PROVE  /\ Written(f, d, list)[i].inUse = f[i].inUse
           /\ Written(f, d, list)[i].fileType = f[i].fileType
           /\ Written(f, d, list)[i].nlinks = f[i].nlinks
           /\ i # d => Written(f, d, list)[i] = f[i]
           /\ i = d => Written(f, d, list)[i].entries = list
BY DEF Written, IFile, Inode

LEMMA WrittenLists ==
    ASSUME NEW f \in IFile, NEW dir \in INums,
           f[dir].inUse, f[dir].fileType = "Directory", NEW list
    PROVE  /\ ReadDirectory(Written(f, dir, list), dir) = list
           /\ \A d : d # dir =>
                ReadDirectory(Written(f, dir, list), d) = ReadDirectory(f, d)
BY DEF Written, ReadDirectory, IFile, Inode

LEMMA WrittenTree ==
    ASSUME NEW f \in IFile, Tree(f), NEW dir \in INums, NEW list, ListOK(list)
    PROVE  Tree(Written(f, dir, list))
<1> DEFINE g == Written(f, dir, list)
<1>1. \A d \in INums : g[d].entries = IF d = dir THEN list ELSE f[d].entries
  BY WrittenKeeps
<1>2. g[IFILE_INUM].inUse /\ g[IFILE_INUM].fileType = "File"
  <2>1. f[IFILE_INUM].inUse /\ f[IFILE_INUM].fileType = "File"
    BY DEF Tree
  <2>2. IFILE_INUM \in INums
    BY NumberFacts
  <2>3. g[IFILE_INUM].inUse <=> f[IFILE_INUM].inUse
    BY <2>2, WrittenKeeps
  <2>4. g[IFILE_INUM].fileType = f[IFILE_INUM].fileType
    BY <2>2, WrittenKeeps
  <2> QED BY <2>1, <2>3, <2>4
<1> HIDE DEF g
<1>3. Tree(g)
  BY <1>1, <1>2 DEF Tree
<1> QED BY <1>3 DEF g

Removed(f, dir, name) == Written(f, dir, RemoveFile(ReadDirectory(f, dir), name))

LEMMA RemovedTree ==
    ASSUME NEW f \in IFile, Tree(f), NEW dir, ReadDirectory(f, dir) # <<>>,
           NEW name, name \notin Dots
    PROVE  /\ Removed(f, dir, name) \in IFile
           /\ Tree(Removed(f, dir, name))
           /\ Removes(f, Removed(f, dir, name), dir, name)
           /\ ReadDirectory(Removed(f, dir, name), dir) = RemoveFile(ReadDirectory(f, dir), name)
           /\ \A d : d # dir => ReadDirectory(Removed(f, dir, name), d) = ReadDirectory(f, d)
           /\ {1, 2} \subseteq Kept(ReadDirectory(f, dir), name)
<1> DEFINE list == ReadDirectory(f, dir)
           new == RemoveFile(list, name)
           g == Removed(f, dir, name)
<1>1. /\ dir \in INums /\ f[dir].inUse /\ f[dir].fileType = "Directory"
      /\ ListOK(list) /\ list \in Seq(Entry)
  BY TreeLists, ReadDirectoryType
<1>2. new \in Seq(Entry)
  BY <1>1, RemoveFileType
<1>3. PICK c : Compacts(list, name, new, c)
  BY <1>1, RemoveFileCompacts
<1>4. {1, 2} \subseteq Kept(list, name)
  BY <1>1 DEF ListOK, Kept, Dots
<1>5. g = Written(f, dir, new)
  BY DEF Removed
<1> HIDE DEF g, new, list
<1>6. ListOK(new)
  BY <1>1, <1>2, <1>3, CompactsListOK
<1>7. g \in IFile
  BY <1>2, <1>5, WrittenType
<1>8. Tree(g)
  BY <1>1, <1>5, <1>6, WrittenTree
<1>9. ReadDirectory(g, dir) = new /\ \A d : d # dir => ReadDirectory(g, d) = ReadDirectory(f, d)
  BY <1>1, <1>5, WrittenLists
<1>10. Removes(f, g, dir, name)
  BY <1>3, <1>9 DEF Removes, list
<1> QED BY <1>4, <1>7, <1>8, <1>9, <1>10 DEF g, new, list

\* A name that goes is a name less.
LEMMA KeptNamesFewer ==
    ASSUME NEW f \in IFile, Tree(f), NEW dir \in INums, NEW name, NEW i
    PROVE  /\ Cardinality(KeptNames(f, dir, name, i)) \in Nat
           /\ Cardinality(KeptNames(f, dir, name, i)) <= Cardinality(NamesOf(f, i))
           /\ \A j \in 3 .. Len(ReadDirectory(f, dir)) :
                ReadDirectory(f, dir)[j].name = name /\ ReadDirectory(f, dir)[j].inum = i
                  => Cardinality(KeptNames(f, dir, name, i)) < Cardinality(NamesOf(f, i))
<1> DEFINE KN == KeptNames(f, dir, name, i)
           N == NamesOf(f, i)
           list == ReadDirectory(f, dir)
<1>1. KN \in SUBSET N
  BY DEF KeptNames
<1>2. IsFiniteSet(N) /\ Cardinality(N) \in Nat
  BY NamesOfFinite
<1>3. ASSUME NEW j \in 3 .. Len(list), list[j].name = name, list[j].inum = i
      PROVE  KN # N
  <2>1. j \in Nat
    <3>1. Len(list) \in Nat
      BY ReadDirectoryType
    <3> QED BY <3>1
  <2>2. <<dir, j>> \in N
    BY <1>3, <2>1, NamesOfIs
  <2>3. <<dir, j>> \notin KN
    BY <1>3 DEF KeptNames, Kept
  <2> QED BY <2>2, <2>3
<1> HIDE DEF KN, N
<1>4. Cardinality(KN) \in Nat /\ Cardinality(KN) <= Cardinality(N)
      /\ (Cardinality(KN) = Cardinality(N) => KN = N)
  BY <1>1, <1>2, FS_Subset, FS_CardinalityType
<1> QED BY <1>2, <1>3, <1>4 DEF KN, N

\* The same for a whole removal.
LEMMA RemovedNames ==
    ASSUME NEW f \in IFile, Tree(f), NEW dir, ReadDirectory(f, dir) # <<>>,
           NEW name, name \notin Dots, NEW i \in INums, i # IFILE_INUM
    PROVE  Cardinality(NamesOf(Removed(f, dir, name), i)) = Cardinality(KeptNames(f, dir, name, i))
<1> DEFINE g == Removed(f, dir, name)
<1>1. /\ g \in IFile /\ Tree(g) /\ Removes(f, g, dir, name) /\ dir \in INums
      /\ {1, 2} \subseteq Kept(ReadDirectory(f, dir), name)
  BY RemovedTree, TreeLists
<1> HIDE DEF g
<1>2. PICK c : Compacts(ReadDirectory(f, dir), name, ReadDirectory(g, dir), c)
  BY <1>1 DEF Removes
<1>3. \A d : d # dir => ReadDirectory(g, d) = ReadDirectory(f, d)
  BY <1>1 DEF Removes
<1>4. Cardinality(NamesOf(g, i)) = Cardinality(KeptNames(f, dir, name, i))
  BY <1>1, <1>2, <1>3, NamesAfterRemoval
<1> QED BY <1>4 DEF g

----------------------------------------------------------------------------
(* No directory names an inode that is not in use.                         *)

\* How many names an inode may have without one being left when it is freed.
NameLimit(f, i) == IF f[i].fileType = "Symlink" THEN 1 ELSE f[i].nlinks

Covers(f, i, n) ==
  /\ f[i].inUse => Cardinality(NamesOf(f, i)) <= n
  /\ ~f[i].inUse => NamesOf(f, i) = {}

\* The ifile is always in use.
Covered(f) == \A i \in INums \ {IFILE_INUM} : Covers(f, i, NameLimit(f, i))

LEMMA NameLimitNat == \A f \in IFile, i \in INums : NameLimit(f, i) \in Nat
BY LinksRange, NumberFacts DEF NameLimit

LEMMA RemovedCovered ==
    ASSUME NEW f \in IFile, Tree(f), Covered(f), NEW dir, ReadDirectory(f, dir) # <<>>,
           NEW name, name \notin Dots
    PROVE  Covered(Removed(f, dir, name))
<1> DEFINE g == Removed(f, dir, name)
<1> SUFFICES ASSUME NEW i \in INums, i # IFILE_INUM
             PROVE  Covers(g, i, NameLimit(g, i))
  BY DEF Covered
<1>0. dir \in INums /\ g \in IFile
  BY TreeLists, RemovedTree
<1>1. Covers(f, i, NameLimit(f, i)) /\ NameLimit(f, i) \in Nat
  BY NameLimitNat DEF Covered
<1>2. /\ Cardinality(NamesOf(g, i)) \in Nat /\ Cardinality(NamesOf(f, i)) \in Nat
      /\ Cardinality(NamesOf(g, i)) <= Cardinality(NamesOf(f, i))
  BY <1>0, RemovedNames, KeptNamesFewer, NamesOfFinite
<1>3. g[i].inUse <=> f[i].inUse
  BY WrittenKeeps DEF Removed
<1>4. NameLimit(g, i) = NameLimit(f, i)
  <2>1. g[i].fileType = f[i].fileType /\ g[i].nlinks = f[i].nlinks
    BY WrittenKeeps DEF Removed
  <2> HIDE DEF g
  <2> QED BY <2>1 DEF NameLimit
<1> HIDE DEF g
<1>5. NamesOf(f, i) = {} => NamesOf(g, i) = {}
  <2>1. /\ Cardinality(NamesOf(f, i)) = 0 <=> NamesOf(f, i) = {}
        /\ Cardinality(NamesOf(g, i)) = 0 <=> NamesOf(g, i) = {}
    BY NamesOfFinite
  <2> QED BY <1>2, <2>1
<1> QED BY <1>1, <1>2, <1>3, <1>4, <1>5 DEF Covers

LEMMA WrittenLimit ==
    ASSUME NEW f \in IFile, NEW d, NEW list, NEW i \in INums
    PROVE  NameLimit(Written(f, d, list), i) = NameLimit(f, i)
<1>1. /\ Written(f, d, list)[i].fileType = f[i].fileType
      /\ Written(f, d, list)[i].nlinks = f[i].nlinks
  BY WrittenKeeps
<1> QED BY <1>1 DEF NameLimit

\* A new entry in a directory with room.
LEMMA AddFileListOK ==
    ASSUME NEW list \in Seq(Entry), ListOK(list), Len(list) < MaxEntries,
           NEW name, name \notin Dots, NEW i
    PROVE  ListOK(AddFile(list, name, i))
<1>1. /\ Len(AddFile(list, name, i)) = Len(list) + 1
      /\ \A j \in 1 .. Len(list) : AddFile(list, name, i)[j] = list[j]
      /\ AddFile(list, name, i)[Len(list) + 1].name = name
  BY DEF AddFile
<1>2. Len(list) \in Nat /\ Len(list) >= 2 /\ Len(list) + 1 \in 2 .. MaxEntries
  BY NumberFacts DEF ListOK
<1> HIDE DEF AddFile
<1>3. ASSUME NEW j \in 3 .. Len(list) + 1 PROVE AddFile(list, name, i)[j].name \notin Dots
  <2>1. CASE j = Len(list) + 1
    BY <1>1, <2>1
  <2>2. CASE j # Len(list) + 1
    <3>1. j \in 3 .. Len(list) /\ j \in 1 .. Len(list)
      BY <1>2, <2>2
    <3> QED BY <1>1, <3>1 DEF ListOK
  <2> QED BY <2>1, <2>2
<1>4. 1 \in 1 .. Len(list) /\ 2 \in 1 .. Len(list)
  BY <1>2
<1> QED BY <1>1, <1>2, <1>3, <1>4 DEF ListOK

Added(f, dir, name, i) == Written(f, dir, AddFile(ReadDirectory(f, dir), name, i))

LEMMA AddedTree ==
    ASSUME NEW f \in IFile, Tree(f), NEW dir, ReadDirectory(f, dir) # <<>>,
           Len(ReadDirectory(f, dir)) < MaxEntries,
           NEW name \in PathNames, NEW inum \in INums
    PROVE  /\ Added(f, dir, name, inum) \in IFile
           /\ Tree(Added(f, dir, name, inum))
           /\ ReadDirectory(Added(f, dir, name, inum), dir)
                = AddFile(ReadDirectory(f, dir), name, inum)
           /\ \A d : d # dir => ReadDirectory(Added(f, dir, name, inum), d) = ReadDirectory(f, d)
<1> DEFINE list == ReadDirectory(f, dir)
           new == AddFile(list, name, inum)
           g == Added(f, dir, name, inum)
<1>1. /\ dir \in INums /\ f[dir].inUse /\ f[dir].fileType = "Directory"
      /\ ListOK(list) /\ list \in Seq(Entry)
  BY TreeLists, ReadDirectoryType
<1>2. new \in Seq(Entry) /\ ListOK(new)
  <2>1. name \in EntryNames /\ name \notin Dots
    BY NameFacts
  <2> HIDE DEF list
  <2>2. Len(list) < MaxEntries
    BY DEF list
  <2> QED BY <1>1, <2>1, <2>2, AddFileType, AddFileListOK
<1>3. g = Written(f, dir, new)
  BY DEF Added
<1> HIDE DEF g, new, list
<1>4. g \in IFile
  BY <1>2, <1>3, WrittenType
<1>5. Tree(g)
  BY <1>1, <1>2, <1>3, WrittenTree
<1>6. ReadDirectory(g, dir) = new /\ \A d : d # dir => ReadDirectory(g, d) = ReadDirectory(f, d)
  BY <1>1, <1>3, WrittenLists
<1> QED BY <1>4, <1>5, <1>6 DEF g, new, list

LEMMA AddedNames ==
    ASSUME NEW f \in IFile, Tree(f), NEW dir, ReadDirectory(f, dir) # <<>>,
           Len(ReadDirectory(f, dir)) < MaxEntries,
           NEW name \in PathNames, NEW inum \in INums, NEW i
    PROVE  /\ i # inum => NamesOf(Added(f, dir, name, inum), i) = NamesOf(f, i)
           /\ i = inum => NamesOf(Added(f, dir, name, inum), i)
                            = NamesOf(f, i) \cup {<<dir, Len(ReadDirectory(f, dir)) + 1>>}
           /\ i = inum => Cardinality(NamesOf(Added(f, dir, name, inum), i))
                            = Cardinality(NamesOf(f, i)) + 1
<1> DEFINE g == Added(f, dir, name, inum)
           top == <<dir, Len(ReadDirectory(f, dir)) + 1>>
<1>1. /\ g \in IFile /\ Tree(g)
      /\ ReadDirectory(g, dir) = AddFile(ReadDirectory(f, dir), name, inum)
      /\ \A d : d # dir => ReadDirectory(g, d) = ReadDirectory(f, d)
  BY AddedTree
<1>2. dir \in INums /\ Len(ReadDirectory(f, dir)) >= 2
  BY TreeLists, NumberFacts DEF ListOK
<1> HIDE DEF g
<1>3. /\ top \notin NamesOf(f, i)
      /\ NamesOf(g, i) = IF i = inum THEN NamesOf(f, i) \cup {top} ELSE NamesOf(f, i)
  BY <1>1, <1>2, NamesGrow
<1> HIDE DEF top
<1>4. Cardinality(NamesOf(f, i) \cup {top}) = Cardinality(NamesOf(f, i)) + 1
  BY <1>3, NamesOfFinite, FS_AddElement
<1> QED BY <1>3, <1>4 DEF g, top

LEMMA AddedCovered ==
    ASSUME NEW f \in IFile, Tree(f), Covered(f), NEW dir, ReadDirectory(f, dir) # <<>>,
           Len(ReadDirectory(f, dir)) < MaxEntries,
           NEW name \in PathNames, NEW inum \in INums,
           inum # IFILE_INUM => /\ f[inum].inUse
                                /\ Cardinality(NamesOf(f, inum)) < NameLimit(f, inum)
    PROVE  Covered(Added(f, dir, name, inum))
<1> DEFINE g == Added(f, dir, name, inum)
<1> SUFFICES ASSUME NEW i \in INums, i # IFILE_INUM
             PROVE  Covers(g, i, NameLimit(g, i))
  BY DEF Covered
<1>1. Covers(f, i, NameLimit(f, i)) /\ NameLimit(f, i) \in Nat
  BY NameLimitNat DEF Covered
<1>2. g[i].inUse <=> f[i].inUse
  BY WrittenKeeps DEF Added
<1>3. NameLimit(g, i) = NameLimit(f, i)
  BY WrittenLimit DEF Added
<1>4. /\ i # inum => NamesOf(g, i) = NamesOf(f, i)
      /\ i = inum => Cardinality(NamesOf(g, i)) = Cardinality(NamesOf(f, i)) + 1
  BY AddedNames
<1>5. Cardinality(NamesOf(f, i)) \in Nat
  BY NamesOfFinite
<1> HIDE DEF g
<1> QED BY <1>1, <1>2, <1>3, <1>4, <1>5 DEF Covers

----------------------------------------------------------------------------

(* Inodes made, freed and counted.                                         *)

Updated(f, i, inode) == [f EXCEPT ![i] = inode]

LEMMA UpdatedType ==
    ASSUME NEW f \in IFile, NEW i \in INums, NEW inode \in Inode
    PROVE  Updated(f, i, inode) \in IFile
BY DEF Updated, IFile

LEMMA UpdatedIs ==
    ASSUME NEW f \in IFile, NEW i \in INums, NEW inode, NEW j \in INums
    PROVE  Updated(f, i, inode)[j] = IF j = i THEN inode ELSE f[j]
BY DEF Updated, IFile

LEMMA UpdateIFileIs ==
    ASSUME NEW f \in IFile, NEW i \in INums, NEW inode, NEW ok
    PROVE  /\ UpdateIFile(f, i, inode, ok) \in {f, Updated(f, i, inode)}
           /\ ok \/ i = IFILE_INUM => UpdateIFile(f, i, inode, ok) = Updated(f, i, inode)
BY DEF UpdateIFile, Updated

LEMMA UpdatedLists ==
    ASSUME NEW f \in IFile, NEW i \in INums, NEW inode \in Inode
    PROVE  /\ \A d : d # i => ReadDirectory(Updated(f, i, inode), d) = ReadDirectory(f, d)
           /\ ReadDirectory(Updated(f, i, inode), i)
                = IF inode.fileType = "Directory" /\ inode.inUse THEN inode.entries ELSE <<>>
<1>1. ASSUME NEW d, d # i
      PROVE  ReadDirectory(Updated(f, i, inode), d) = ReadDirectory(f, d)
  <2>1. d \in INums => Updated(f, i, inode)[d] = f[d]
    BY <1>1, UpdatedIs
  <2> QED BY <2>1 DEF ReadDirectory
<1>2. Updated(f, i, inode)[i] = inode
  BY UpdatedIs
<1>3. ReadDirectory(Updated(f, i, inode), i)
        = IF inode.fileType = "Directory" /\ inode.inUse THEN inode.entries ELSE <<>>
  BY <1>2 DEF ReadDirectory
<1> QED BY <1>1, <1>3

LEMMA UpdatedTree ==
    ASSUME NEW f \in IFile, Tree(f), NEW i \in INums, NEW inode \in Inode,
           i = IFILE_INUM => inode.inUse /\ inode.fileType = "File",
           inode.entries = <<>> \/ ListOK(inode.entries)
    PROVE  Tree(Updated(f, i, inode))
<1> DEFINE g == Updated(f, i, inode)
<1>1. \A j \in INums : g[j] = IF j = i THEN inode ELSE f[j]
  BY UpdatedIs
<1> HIDE DEF g
<1>2. IFILE_INUM \in INums
  BY NumberFacts
<1>3. Tree(g)
  BY <1>1, <1>2 DEF Tree
<1> QED BY <1>3 DEF g

LEMMA CoversShrink ==
    ASSUME NEW f, NEW g, NEW i, NEW n \in Nat, Covers(f, i, n),
           NamesOf(g, i) \subseteq NamesOf(f, i), g[i].inUse <=> f[i].inUse
    PROVE  Covers(g, i, n)
<1>1. /\ Cardinality(NamesOf(g, i)) \in Nat /\ Cardinality(NamesOf(f, i)) \in Nat
      /\ Cardinality(NamesOf(g, i)) <= Cardinality(NamesOf(f, i))
  BY NamesOfFinite, FS_Subset
<1> QED BY <1>1 DEF Covers

\* Everything but one inode has no more names than before.
LEMMA CoveredButOne ==
    ASSUME NEW f \in IFile, NEW g \in IFile, Covered(f), NEW u \in INums,
           \A i \in INums \ {u} : g[i] = f[i],
           \A i \in INums \ {u} : NamesOf(g, i) \subseteq NamesOf(f, i),
           u # IFILE_INUM => Covers(g, u, NameLimit(g, u))
    PROVE  Covered(g)
<1> SUFFICES ASSUME NEW i \in INums, i # IFILE_INUM PROVE Covers(g, i, NameLimit(g, i))
  BY DEF Covered
<1>1. CASE i = u
  BY <1>1
<1>2. CASE i # u
  <2>1. g[i] = f[i] /\ NamesOf(g, i) \subseteq NamesOf(f, i)
    BY <1>2
  <2>2. Covers(f, i, NameLimit(f, i)) /\ NameLimit(f, i) \in Nat
    BY NameLimitNat DEF Covered
  <2>3. NameLimit(g, i) = NameLimit(f, i)
    BY <2>1 DEF NameLimit
  <2>4. g[i].inUse <=> f[i].inUse
    BY <2>1
  <2> QED BY <2>1, <2>2, <2>3, <2>4, CoversShrink
<1> QED BY <1>1, <1>2

LEMMA SameNames ==
    ASSUME NEW f \in IFile, NEW g \in IFile, Tree(f), Tree(g),
           \A d \in INums : ReadDirectory(g, d) = ReadDirectory(f, d),
           NEW i
    PROVE  NamesOf(g, i) = NamesOf(f, i)
<1>1. NamesOf(g, i) \subseteq NamesOf(f, i)
  BY NamesShrink
<1>2. NamesOf(f, i) \subseteq NamesOf(g, i)
  BY NamesShrink
<1> QED BY <1>1, <1>2

\* Making an inode.
FreshInode(fileType) ==
  [inUse |-> TRUE, fileType |-> fileType, nlinks |-> 1, entries |-> <<>>]

Made(f, fileType) == Updated(f, GetUnusedINum(f), FreshInode(fileType))

LEMMA FreshInodeType == \A t \in FileTypes : FreshInode(t) \in Inode
BY NumberFacts DEF FreshInode, Inode

LEMMA File_CreateIs ==
    ASSUME NEW f \in IFile, Unused(f) # {}, NEW fileType \in FileTypes, NEW ok
    PROVE  /\ File_Create(f, fileType, ok) \in {f, Made(f, fileType)}
           /\ ok => File_Create(f, fileType, ok) = Made(f, fileType)
<1>1. GetUnusedINum(f) \in INums
  BY UnusedFacts
<1> QED BY <1>1, UpdateIFileIs DEF File_Create, Made, FreshInode

LEMMA MadeFacts ==
    ASSUME NEW f \in IFile, Unused(f) # {}, NEW fileType \in FileTypes, Tree(f)
    PROVE  /\ Made(f, fileType) \in IFile
           /\ Tree(Made(f, fileType))
           /\ \A d : ReadDirectory(Made(f, fileType), d) = ReadDirectory(f, d)
           /\ \A i : NamesOf(Made(f, fileType), i) = NamesOf(f, i)
           /\ Made(f, fileType)[GetUnusedINum(f)] = FreshInode(fileType)
           /\ \A i \in INums \ {GetUnusedINum(f)} : Made(f, fileType)[i] = f[i]
<1> DEFINE u == GetUnusedINum(f)
           inode == FreshInode(fileType)
           g == Made(f, fileType)
<1>1. u \in INums /\ u # IFILE_INUM /\ ~f[u].inUse
  BY UnusedFacts
<1>2. inode \in Inode /\ inode.entries = <<>>
  BY FreshInodeType DEF FreshInode
<1>3. g = Updated(f, u, inode)
  BY DEF Made
<1> HIDE DEF u, inode, g
<1>4. g \in IFile
  BY <1>1, <1>2, <1>3, UpdatedType
<1>5. Tree(g)
  BY <1>1, <1>2, <1>3, UpdatedTree
<1>6. ASSUME NEW d PROVE ReadDirectory(g, d) = ReadDirectory(f, d)
  <2>1. ReadDirectory(f, u) = <<>>
    BY <1>1 DEF ReadDirectory
  <2>2. CASE d = u
    BY <1>1, <1>2, <1>3, <2>1, <2>2, UpdatedLists
  <2>3. CASE d # u
    BY <1>1, <1>2, <1>3, <2>3, UpdatedLists
  <2> QED BY <2>2, <2>3
<1>7. ASSUME NEW i PROVE NamesOf(g, i) = NamesOf(f, i)
  BY <1>4, <1>5, <1>6, SameNames
<1>8. g[u] = inode /\ \A i \in INums \ {u} : g[i] = f[i]
  BY <1>1, <1>3, UpdatedIs
<1> QED BY <1>4, <1>5, <1>6, <1>7, <1>8 DEF u, inode, g

LEMMA MadeCovered ==
    ASSUME NEW f \in IFile, Unused(f) # {}, NEW fileType \in FileTypes, Tree(f), Covered(f)
    PROVE  /\ Covered(Made(f, fileType))
           /\ NamesOf(Made(f, fileType), GetUnusedINum(f)) = {}
           /\ NameLimit(Made(f, fileType), GetUnusedINum(f)) = 1
<1> DEFINE u == GetUnusedINum(f)
           g == Made(f, fileType)
<1>1. u \in INums /\ u # IFILE_INUM /\ ~f[u].inUse
  BY UnusedFacts
<1>2. /\ g \in IFile /\ \A i : NamesOf(g, i) = NamesOf(f, i)
      /\ g[u] = FreshInode(fileType) /\ \A i \in INums \ {u} : g[i] = f[i]
  BY MadeFacts
<1>3. NamesOf(f, u) = {}
  BY <1>1 DEF Covered, Covers
<1> HIDE DEF u, g
<1>4. NameLimit(g, u) = 1
  BY <1>2 DEF NameLimit, FreshInode
<1>5. Covers(g, u, 1)
  BY <1>2, <1>3, FS_EmptySet DEF Covers
<1>6. Covered(g)
  BY <1>1, <1>2, <1>4, <1>5, CoveredButOne
<1> QED BY <1>2, <1>3, <1>4, <1>6 DEF u, g

\* Freeing an inode without names.
LEMMA FreedCovered ==
    ASSUME NEW f \in IFile, Tree(f), Covered(f), NEW i \in INums, i # IFILE_INUM,
           NamesOf(f, i) = {}, NEW ok
    PROVE  Tree(File_Free(f, i, ok)) /\ Covered(File_Free(f, i, ok))
<1> DEFINE inode == [f[i] EXCEPT !.inUse = FALSE, !.entries = <<>>]
           g == Updated(f, i, inode)
<1>1. f[i] \in Inode /\ <<>> \in Seq(Entry)
  BY DEF IFile
<1>2. inode \in Inode /\ inode.entries = <<>> /\ ~inode.inUse
  BY <1>1 DEF Inode
<1>3. File_Free(f, i, ok) \in {f, g}
  <2>1. File_Free(f, i, ok) = UpdateIFile(f, i, inode, ok)
    BY DEF File_Free
  <2> HIDE DEF inode
  <2> QED BY <2>1, UpdateIFileIs
<1> HIDE DEF inode
<1>4. g \in IFile /\ Tree(g)
  BY <1>2, UpdatedType, UpdatedTree
<1>5. g[i] = inode /\ \A j \in INums \ {i} : g[j] = f[j]
  BY UpdatedIs
<1>6. \A d \in INums : ReadDirectory(g, d) = ReadDirectory(f, d) \/ Len(ReadDirectory(g, d)) <= 2
  <2> SUFFICES ASSUME NEW d \in INums
               PROVE  ReadDirectory(g, d) = ReadDirectory(f, d) \/ Len(ReadDirectory(g, d)) <= 2
    OBVIOUS
  <2>1. CASE d = i
    <3>1. ReadDirectory(g, i) = <<>>
      BY <1>2, UpdatedLists
    <3>2. Len(ReadDirectory(g, i)) = 0
      BY <3>1
    <3> HIDE DEF g
    <3> QED BY <2>1, <3>2
  <2>2. CASE d # i
    BY <1>2, <2>2, UpdatedLists
  <2> QED BY <2>1, <2>2
<1> HIDE DEF g
<1>7. \A j : NamesOf(g, j) \subseteq NamesOf(f, j)
  BY <1>4, <1>6, NamesShrink
<1>8. Covers(g, i, NameLimit(g, i))
  <2>1. NamesOf(g, i) = {}
    BY <1>7
  <2>2. ~g[i].inUse
    BY <1>2, <1>5
  <2> QED BY <2>1, <2>2 DEF Covers
<1>9. Covered(g)
  BY <1>4, <1>5, <1>7, <1>8, CoveredButOne
<1> QED BY <1>3, <1>4, <1>9

\* Changing a link count.
Counted(f, i, n) == Updated(f, i, [f[i] EXCEPT !.nlinks = n])

LEMMA CountedFacts ==
    ASSUME NEW f \in IFile, Tree(f), NEW i \in INums, NEW n \in 0 .. LinkModulus - 1
    PROVE  /\ Counted(f, i, n) \in IFile
           /\ Tree(Counted(f, i, n))
           /\ \A d : ReadDirectory(Counted(f, i, n), d) = ReadDirectory(f, d)
           /\ \A j : NamesOf(Counted(f, i, n), j) = NamesOf(f, j)
           /\ Counted(f, i, n)[i].nlinks = n
           /\ Counted(f, i, n)[i].fileType = f[i].fileType
           /\ Counted(f, i, n)[i].inUse = f[i].inUse
           /\ Counted(f, i, n)[i].entries = f[i].entries
           /\ \A j \in INums \ {i} : Counted(f, i, n)[j] = f[j]
<1> DEFINE inode == [f[i] EXCEPT !.nlinks = n]
           g == Counted(f, i, n)
<1>1. /\ inode \in Inode /\ inode.nlinks = n /\ inode.fileType = f[i].fileType
      /\ inode.inUse = f[i].inUse /\ inode.entries = f[i].entries
  BY SetLinksType DEF IFile, Inode
<1>2. g = Updated(f, i, inode)
  BY DEF Counted
<1> HIDE DEF inode, g
<1>3. g \in IFile
  BY <1>1, <1>2, UpdatedType
<1>4. Tree(g)
  <2>1. /\ i = IFILE_INUM => inode.inUse /\ inode.fileType = "File"
        /\ inode.entries = <<>> \/ ListOK(inode.entries)
    BY <1>1 DEF Tree
  <2> QED BY <1>1, <1>2, <2>1, UpdatedTree
<1>5. ASSUME NEW d PROVE ReadDirectory(g, d) = ReadDirectory(f, d)
  <2>1. CASE d = i
    BY <1>1, <1>2, <2>1, UpdatedLists DEF ReadDirectory
  <2>2. CASE d # i
    BY <1>1, <1>2, <2>2, UpdatedLists
  <2> QED BY <2>1, <2>2
<1>6. ASSUME NEW j PROVE NamesOf(g, j) = NamesOf(f, j)
  BY <1>3, <1>4, <1>5, SameNames
<1>7. g[i] = inode /\ \A j \in INums \ {i} : g[j] = f[j]
  BY <1>2, UpdatedIs
<1> QED BY <1>1, <1>3, <1>4, <1>5, <1>6, <1>7 DEF g

LEMMA ModSmall == \A x \in 0 .. LinkModulus - 1 : x % LinkModulus = x
BY NumberFacts

LEMMA LeftIs ==
    ASSUME NEW n \in 0 .. LinkModulus - 1
    PROVE  (n - 1) % LinkModulus = IF n = 0 THEN LinkModulus - 1 ELSE n - 1
BY NumberFacts

----------------------------------------------------------------------------

(* Requests and the names of inodes.                                       *)

\* A name that is found has an entry, beyond the dots, in a directory's list.
LEMMA LookupEntry ==
    ASSUME NEW f \in IFile, Tree(f), NEW dir, NEW name \in PathNames,
           NEW inum, inum = Lookup(f, dir, name), inum # INUM_NOT_FOUND
    PROVE  /\ inum \in INums /\ dir \in INums /\ ReadDirectory(f, dir) # <<>>
           /\ \E j \in 3 .. Len(ReadDirectory(f, dir)) :
                /\ ReadDirectory(f, dir)[j].name = name
                /\ ReadDirectory(f, dir)[j].inum = inum
                /\ <<dir, j>> \in NamesOf(f, inum)
<1> DEFINE list == ReadDirectory(f, dir)
<1>1. list \in Seq(Entry) /\ Len(list) \in Nat
  BY ReadDirectoryType
<1>2. PICK j \in 1 .. Len(list) : list[j].name = name /\ list[j].inum = inum /\ inum \in INums
  BY LookupCases
<1>3. list # <<>>
  BY <1>2
<1>4. dir \in INums /\ ListOK(list)
  BY <1>3, TreeLists
<1>5. j # 1 /\ j # 2
  BY <1>2, <1>4, NameFacts DEF ListOK, Dots
<1> HIDE DEF list
<1>6. j \in 3 .. Len(list) /\ j \in Nat
  BY <1>1, <1>2, <1>5
<1>7. <<dir, j>> \in NamesOf(f, inum)
  BY <1>2, <1>4, <1>6, NamesOfIs DEF list
<1> QED BY <1>2, <1>3, <1>4, <1>6, <1>7 DEF list

\* A path that leads somewhere does so by an entry of its directory.
LEMMA FoundEntry ==
    ASSUME NEW f \in IFile, Tree(f), NEW path \in Paths, GetINum(f, path) # INUM_NOT_FOUND
    PROVE  /\ GetINum(f, path) \in INums
           /\ GetINum(f, Front(path)) \in INums
           /\ ReadDirectory(f, GetINum(f, Front(path))) # <<>>
           /\ \E j \in 3 .. Len(ReadDirectory(f, GetINum(f, Front(path)))) :
                /\ ReadDirectory(f, GetINum(f, Front(path)))[j].name = Last(path)
                /\ ReadDirectory(f, GetINum(f, Front(path)))[j].inum = GetINum(f, path)
                /\ <<GetINum(f, Front(path)), j>> \in NamesOf(f, GetINum(f, path))
<1> DEFINE dir == GetINum(f, Front(path))
           inum == GetINum(f, path)
           name == Last(path)
<1>1. inum = Lookup(f, dir, name) /\ name \in PathNames
  BY GetINumStep, PathFacts
<1>2. inum # INUM_NOT_FOUND
  OBVIOUS
<1> HIDE DEF dir, inum, name
<1>3. /\ inum \in INums /\ dir \in INums /\ ReadDirectory(f, dir) # <<>>
      /\ \E j \in 3 .. Len(ReadDirectory(f, dir)) :
           /\ ReadDirectory(f, dir)[j].name = name
           /\ ReadDirectory(f, dir)[j].inum = inum
           /\ <<dir, j>> \in NamesOf(f, inum)
  BY <1>1, <1>2, LookupEntry
<1> QED BY <1>3 DEF dir, inum, name

\* Nothing that a path leads to dangles.
LEMMA FoundCovered ==
    ASSUME NEW f \in IFile, Tree(f), Covered(f), NEW path \in Paths,
           GetINum(f, path) # INUM_NOT_FOUND
    PROVE  /\ f[GetINum(f, path)].inUse
           /\ GetINum(f, path) # IFILE_INUM =>
                Cardinality(NamesOf(f, GetINum(f, path))) <= NameLimit(f, GetINum(f, path))
<1> DEFINE inum == GetINum(f, path)
<1>1. inum \in INums /\ NamesOf(f, inum) # {}
  BY FoundEntry
<1>2. inum = IFILE_INUM => f[inum].inUse
  BY DEF Tree
<1> HIDE DEF inum
<1>3. inum # IFILE_INUM => Covers(f, inum, NameLimit(f, inum))
  BY <1>1 DEF Covered
<1>4. f[inum].inUse /\ (inum # IFILE_INUM => Cardinality(NamesOf(f, inum)) <= NameLimit(f, inum))
  BY <1>1, <1>2, <1>3 DEF Covers
<1> QED BY <1>4 DEF inum

LEMMA ForgetCovered ==
    ASSUME NEW f \in IFile, Tree(f), Covered(f), NEW i \in INums,
           i # IFILE_INUM => Cardinality(NamesOf(f, i)) < NameLimit(f, i),
           i = IFILE_INUM => f[i].nlinks # 1,
           NEW ok
    PROVE  Tree(Forget(f, i, ok)) /\ Covered(Forget(f, i, ok))
<1> DEFINE card == Cardinality(NamesOf(f, i))
           left == (f[i].nlinks - 1) % LinkModulus
           g == UpdateIFile(f, i, [f[i] EXCEPT !.nlinks = left], ok[2])
<1>0. card \in Nat /\ (card = 0 <=> NamesOf(f, i) = {})
  BY NamesOfFinite
<1>1. CASE f[i].fileType = "Symlink"
  <2>1. i # IFILE_INUM
    BY <1>1 DEF Tree
  <2>2. NameLimit(f, i) = 1
    BY <1>1 DEF NameLimit
  <2>3. NamesOf(f, i) = {}
    <3> HIDE DEF card
    <3>1. card < 1
      BY <2>1, <2>2 DEF card
    <3> QED BY <1>0, <3>1
  <2> QED BY <1>1, <2>1, <2>3, FreedCovered DEF Forget
<1>2. CASE f[i].fileType # "Symlink"
  <2>1. NameLimit(f, i) = f[i].nlinks /\ f[i].nlinks \in 0 .. LinkModulus - 1
    BY <1>2, LinksRange DEF NameLimit
  <2>2. left = IF f[i].nlinks = 0 THEN LinkModulus - 1 ELSE f[i].nlinks - 1
    BY <2>1, LeftIs
  <2>3. Forget(f, i, ok) = IF left = 0 THEN File_Free(g, i, ok[3]) ELSE g
    BY <1>2 DEF Forget, File_RemoveLink
  <2>4. g \in {f, Counted(f, i, left)}
    BY UpdateIFileIs DEF Counted
  <2>5. left \in 0 .. LinkModulus - 1
    BY <2>1, LinksRange, ModRange
  <2> HIDE DEF left, g
  <2>6. i # IFILE_INUM => card <= left
    <3> HIDE DEF card
    <3>1. i # IFILE_INUM => card < f[i].nlinks
      BY <2>1 DEF card
    <3> QED BY <1>0, <2>1, <2>2, <3>1
  <2>7. g \in IFile /\ Tree(g) /\ Covered(g) /\ NamesOf(g, i) = NamesOf(f, i)
    <3>1. CASE g = f
      BY <3>1
    <3>2. CASE g = Counted(f, i, left)
      <4>1. /\ g \in IFile /\ Tree(g) /\ \A j : NamesOf(g, j) = NamesOf(f, j)
            /\ g[i].nlinks = left /\ g[i].fileType = f[i].fileType
            /\ g[i].inUse = f[i].inUse
            /\ \A j \in INums \ {i} : g[j] = f[j]
        BY <2>5, <3>2, CountedFacts
      <4>2. NameLimit(g, i) = left
        BY <1>2, <4>1 DEF NameLimit
      <4>3. i # IFILE_INUM => Covers(g, i, left)
        <5>1. i # IFILE_INUM => Covers(f, i, NameLimit(f, i))
          BY DEF Covered
        <5>2. NamesOf(g, i) = NamesOf(f, i)
          BY <4>1
        <5>3. g[i].inUse <=> f[i].inUse
          BY <4>1
        <5> QED BY <2>6, <5>1, <5>2, <5>3 DEF Covers
      <4>4. Covered(g)
        BY <4>1, <4>2, <4>3, CoveredButOne
      <4> QED BY <4>1, <4>4
    <3> QED BY <2>4, <3>1, <3>2
  <2>8. left = 0 => i # IFILE_INUM /\ NamesOf(g, i) = {}
    <3>1. left = 0 => f[i].nlinks = 1
      BY <2>1, <2>2, NumberFacts
    <3>2. left = 0 => i # IFILE_INUM
      BY <3>1
    <3> HIDE DEF card
    <3>3. left = 0 => card = 0
      BY <1>0, <2>6, <3>2
    <3> QED BY <1>0, <2>7, <3>2, <3>3
  <2>9. left = 0 => Tree(File_Free(g, i, ok[3])) /\ Covered(File_Free(g, i, ok[3]))
    BY <2>7, <2>8, FreedCovered
  <2> QED BY <2>3, <2>7, <2>9
<1> QED BY <1>1, <1>2

LEMMA RoomIs ==
    ASSUME NEW path, HasRoom(path)
    PROVE  Len(ReadDirectory(iFile, GetINum(iFile, Front(path)))) < MaxEntries
BY DEF HasRoom, GetDirectoryPath

\* dir was left with a list of the right shape.
Torn(f, dir) == \E list \in Seq(Entry) : ListOK(list) /\ iFile' = Written(f, dir, list)

\* A mixture of two lists has the shape of a list.
LEMMA LeavingsListOK ==
    ASSUME NEW old \in Seq(Entry), NEW new \in Seq(Entry), ListOK(old), ListOK(new),
           NEW left \in Leavings(old, new)
    PROVE  ListOK(left)
<1>1. /\ Len(left) \in {Len(old), Len(new)}
      /\ \A j \in 1 .. Len(left) :
           \/ j <= Len(new) /\ j > 2 /\ left[j] = new[j]
           \/ j <= Len(old) /\ left[j] = old[j]
           \/ j > Len(old) /\ left[j] \in Leftovers
  BY LeavingsAre
<1>2. /\ Len(left) \in 2 .. MaxEntries /\ Len(left) \in Nat
      /\ Len(old) \in Nat /\ Len(old) >= 2 /\ Len(new) \in Nat
  BY <1>1, NumberFacts DEF ListOK
<1>3. \A e \in Leftovers : e.name \notin Dots
  <2>1. \A n \in Names : n \notin Dots
    BY NameFacts DEF PathNames
  <2>2. "" \notin Dots
    BY DEF Dots
  <2> SUFFICES ASSUME NEW e \in Leftovers PROVE e.name \notin Dots
    OBVIOUS
  <2>3. CASE e = ZeroEntry
    BY <2>2, <2>3 DEF ZeroEntry
  <2>4. CASE e \in [name : Names, inum : INums]
    BY <2>1, <2>4
  <2> QED BY <2>3, <2>4 DEF Leftovers
<1>4. ASSUME NEW j \in 3 .. Len(left) PROVE left[j].name \notin Dots
  <2>1. j \in 1 .. Len(left) /\ j \in Nat /\ j > 2
    BY <1>2
  <2>2. CASE j <= Len(new) /\ left[j] = new[j]
    <3>1. j \in 3 .. Len(new)
      BY <1>2, <2>1, <2>2
    <3> QED BY <2>2, <3>1 DEF ListOK
  <2>3. CASE j <= Len(old) /\ left[j] = old[j]
    <3>1. j \in 3 .. Len(old)
      BY <1>2, <2>1, <2>3
    <3> QED BY <2>3, <3>1 DEF ListOK
  <2>4. CASE left[j] \in Leftovers
    BY <1>3, <2>4
  <2> QED BY <1>1, <2>1, <2>2, <2>3, <2>4
<1>5. left[1] = old[1] /\ left[2] = old[2]
  <2>1. 1 \in 1 .. Len(left) /\ 2 \in 1 .. Len(left)
    BY <1>2
  <2> QED BY <1>1, <1>2, <2>1
<1> QED BY <1>2, <1>4, <1>5 DEF ListOK

\* A list that was refused: the old one, the new one, or one of the right shape.
LEMMA RefusedIs ==
    ASSUME NEW f \in IFile, Tree(f), NEW dir, ReadDirectory(f, dir) # <<>>,
           NEW list \in Seq(Entry), ListOK(list), NEW ok, NEW seen,
           ListRefused(f, dir, list, ok, seen)
    PROVE  \/ iFile' = f /\ Record(ok, {})
           \/ iFile' = Written(f, dir, list) /\ Record(ok, seen)
           \/ Torn(f, dir) /\ Record(ok, {"torn"})
<1>1. PICK left, others : Leaves(f, dir, list, ok, seen, left, others)
  BY ListRefusedIs
<1>2. /\ dir \in INums /\ ReadDirectory(f, dir) = f[dir].entries
      /\ ReadDirectory(f, dir) \in Seq(Entry) /\ ListOK(ReadDirectory(f, dir))
  BY TreeLists, ReadDirectoryType
<1>3. iFile' = Written(f, dir, left)
  BY <1>1, IsWritten DEF Leaves
<1>4. CASE left = ReadDirectory(f, dir) /\ others = {}
  <2>1. Written(f, dir, f[dir].entries) = f
    BY <1>2 DEF Written, IFile, Inode
  <2> QED BY <1>1, <1>2, <1>3, <1>4, <2>1 DEF Leaves
<1>5. CASE left = list /\ others = seen
  BY <1>1, <1>3, <1>5 DEF Leaves
<1>6. CASE others = {"torn"}
  <2>1. left \in Leavings(ReadDirectory(f, dir), list) /\ Record(ok, {"torn"})
    BY <1>1, <1>6 DEF Leaves
  <2>2. left \in Seq(Entry) /\ ListOK(left)
    BY <1>2, <2>1, LeavingsAre, LeavingsListOK
  <2> QED BY <1>3, <2>1, <2>2 DEF Torn
<1> QED BY <1>1, <1>4, <1>5, <1>6 DEF Leaves

LEMMA TornTree ==
    ASSUME NEW f \in IFile, Tree(f), NEW dir, ReadDirectory(f, dir) # <<>>, Torn(f, dir)
    PROVE  Tree(iFile')
<1>1. dir \in INums
  BY TreeLists
<1> QED BY <1>1, WrittenTree DEF Torn

\* The list with a new name in it, and the one without a name.
LEMMA AddedListOK ==
    ASSUME NEW f \in IFile, Tree(f), NEW dir, ReadDirectory(f, dir) # <<>>,
           Len(ReadDirectory(f, dir)) < MaxEntries,
           NEW name \in PathNames, NEW inum \in INums
    PROVE  /\ AddFile(ReadDirectory(f, dir), name, inum) \in Seq(Entry)
           /\ ListOK(AddFile(ReadDirectory(f, dir), name, inum))
<1>1. ListOK(ReadDirectory(f, dir)) /\ ReadDirectory(f, dir) \in Seq(Entry)
  BY TreeLists, ReadDirectoryType
<1>2. name \in EntryNames /\ name \notin Dots
  BY NameFacts
<1> QED BY <1>1, <1>2, AddFileType, AddFileListOK

LEMMA RemovedListOK ==
    ASSUME NEW f \in IFile, Tree(f), NEW dir, ReadDirectory(f, dir) # <<>>,
           NEW name, name \notin Dots
    PROVE  /\ RemoveFile(ReadDirectory(f, dir), name) \in Seq(Entry)
           /\ ListOK(RemoveFile(ReadDirectory(f, dir), name))
<1> DEFINE list == ReadDirectory(f, dir)
           new == RemoveFile(list, name)
<1>1. ListOK(list) /\ list \in Seq(Entry)
  BY TreeLists, ReadDirectoryType
<1>2. new \in Seq(Entry)
  BY <1>1, RemoveFileType
<1>3. PICK c : Compacts(list, name, new, c)
  BY <1>1, RemoveFileCompacts
<1> HIDE DEF new, list
<1>4. ListOK(new)
  BY <1>1, <1>2, <1>3, CompactsListOK
<1> QED BY <1>2, <1>4 DEF new, list

\* What making a file leaves: nothing, an inode without a name, or one with.
LEMMA CreateFileIs ==
    ASSUME TypeOK, Tree(iFile), NEW path \in NewPaths, CanCreate(path),
           NEW fileType \in FileTypes, NEW ok
    PROVE  LET u == GetUnusedINum(iFile)
               made == Made(iFile, fileType)
               dir == GetINum(iFile, Front(path))
               created == CreateFile(path, fileType, ok)
           IN /\ created.inum = u
              /\ \/ ~created.created /\ created.iFile \in {iFile, made}
                 \/ /\ created.created
                    /\ created.iFile = Added(made, dir, Last(path), u)
                    /\ ReadDirectory(made, dir) # <<>>
                    /\ Len(ReadDirectory(made, dir)) < MaxEntries
              /\ (ok[1] /\ ok[2] /\ Readable(iFile, dir)) => created.created
              /\ created.listRefused =>
                   /\ ~ok[2] /\ created.iFile = made /\ created.dir = dir
                   /\ created.list = AddFile(ReadDirectory(made, dir), Last(path), u)
                   /\ ReadDirectory(made, dir) # <<>>
                   /\ Len(ReadDirectory(made, dir)) < MaxEntries
<1> DEFINE u == GetUnusedINum(iFile)
           made == Made(iFile, fileType)
           got == File_Create(iFile, fileType, ok[1])
           dir == GetINum(iFile, Front(path))
           dirOf(f) == GetINum(f, GetDirectoryPath(path))
           listed == Readable(got, dirOf(got)) /\ ok[2]
           created == CreateFile(path, fileType, ok)
<1>1. iFile \in IFile /\ Unused(iFile) # {} /\ HasRoom(path)
  BY TypeOKFacts DEF CanCreate
<1>2. got \in {iFile, made} /\ (ok[1] => got = made)
  BY <1>1, File_CreateIs
<1>3. made \in IFile /\ \A d : ReadDirectory(made, d) = ReadDirectory(iFile, d)
  BY <1>1, MadeFacts
<1>4. dirOf(made) = dir
  <2>1. Front(path) \in Seq(PathNames)
    BY PathFacts, NewPathFacts
  <2> HIDE DEF made
  <2> QED BY <1>1, <1>3, <2>1, GetINumSame DEF GetDirectoryPath
<1>5. /\ created.inum = u
      /\ created.created = (ok[1] /\ listed)
      /\ created.iFile = IF ok[1] /\ listed
                           THEN WriteDirectory(got, dirOf(got),
                                  AddFile(ReadDirectory(got, dirOf(got)), Last(path), u), TRUE)
                           ELSE got
      /\ created.listRefused = (ok[1] /\ Readable(got, dirOf(got)) /\ ~ok[2])
      /\ created.dir = dirOf(got)
      /\ created.list = AddFile(ReadDirectory(got, dirOf(got)), Last(path), u)
  BY DEF CreateFile, GetLastPathElement
<1>6. Len(ReadDirectory(iFile, dir)) < MaxEntries
  BY <1>1, RoomIs
<1> HIDE DEF got, made, u, dir, created
<1>9. ASSUME created.listRefused
      PROVE  /\ ~ok[2] /\ created.iFile = made /\ created.dir = dir
             /\ created.list = AddFile(ReadDirectory(made, dir), Last(path), u)
             /\ ReadDirectory(made, dir) # <<>>
             /\ Len(ReadDirectory(made, dir)) < MaxEntries
  <2>1. ok[1] /\ Readable(got, dirOf(got)) /\ ~ok[2]
    BY <1>5, <1>9
  <2>2. got = made /\ dirOf(got) = dir
    BY <1>2, <1>4, <2>1
  <2>3. created.iFile = got
    BY <1>5, <2>1
  <2> QED BY <1>3, <1>5, <1>6, <2>1, <2>2, <2>3 DEF Readable
<1>7. CASE ok[1] /\ listed
  <2>1. got = made /\ dirOf(got) = dir
    BY <1>2, <1>4, <1>7
  <2>2. created.iFile = Added(made, dir, Last(path), u)
    <3>1. created.iFile = WriteDirectory(got, dirOf(got),
                            AddFile(ReadDirectory(got, dirOf(got)), Last(path), u), TRUE)
      BY <1>5, <1>7
    <3> HIDE DEF dirOf
    <3> QED BY <2>1, <3>1, IsWritten DEF Added
  <2>3. ReadDirectory(made, dir) # <<>>
    BY <1>7, <2>1 DEF Readable
  <2>4. Len(ReadDirectory(made, dir)) < MaxEntries
    BY <1>3, <1>6
  <2> HIDE DEF listed
  <2>5. created.created
    BY <1>5, <1>7
  <2> QED BY <1>5, <1>9, <2>2, <2>3, <2>4, <2>5 DEF u, made, dir, created
<1>8. CASE ~(ok[1] /\ listed)
  <2>1. created.iFile = got /\ created.inum = u
    BY <1>5, <1>8
  <2>2. ~created.created
    <3> HIDE DEF listed
    <3> QED BY <1>5, <1>8
  <2>3. ~(ok[1] /\ ok[2] /\ Readable(iFile, dir))
    <3> SUFFICES ASSUME ok[1], ok[2], Readable(iFile, dir) PROVE FALSE
      OBVIOUS
    <3>1. got = made /\ dirOf(got) = dir
      BY <1>2, <1>4
    <3>2. Readable(made, dir)
      BY <1>3 DEF Readable
    <3> QED BY <1>8, <3>1, <3>2
  <2> QED BY <1>2, <1>9, <2>1, <2>2, <2>3 DEF u, made, dir, created
<1> QED BY <1>7, <1>8

\* With its parent's list refused, a file is there or not, or the list is torn.
LEMMA CreateRefusedIs ==
    ASSUME TypeOK, Tree(iFile), NEW path \in NewPaths, CanCreate(path),
           NEW fileType \in FileTypes, NEW ok,
           CreateRefused(CreateFile(path, fileType, ok), ok)
    PROVE  LET u == GetUnusedINum(iFile)
               made == Made(iFile, fileType)
               dir == GetINum(iFile, Front(path))
           IN /\ ~ok[2] /\ ReadDirectory(made, dir) # <<>>
              /\ Len(ReadDirectory(made, dir)) < MaxEntries
              /\ \/ iFile' = made
                 \/ iFile' = Added(made, dir, Last(path), u)
                 \/ Torn(made, dir) /\ Record(ok, {"torn"})
<1> DEFINE u == GetUnusedINum(iFile)
           made == Made(iFile, fileType)
           dir == GetINum(iFile, Front(path))
           created == CreateFile(path, fileType, ok)
           list == AddFile(ReadDirectory(made, dir), Last(path), u)
<1>1. /\ created.listRefused /\ ListRefused(created.iFile, created.dir, created.list, ok, {})
  BY DEF CreateRefused
<1>2. /\ ~ok[2] /\ created.iFile = made /\ created.dir = dir /\ created.list = list
      /\ ReadDirectory(made, dir) # <<>>
      /\ Len(ReadDirectory(made, dir)) < MaxEntries
  BY <1>1, CreateFileIs
<1>3. made \in IFile /\ Tree(made) /\ u \in INums /\ Last(path) \in PathNames
  BY TypeOKFacts, MadeFacts, UnusedFacts, NewPathFacts, PathFacts DEF CanCreate
<1>4. ListRefused(made, dir, list, ok, {})
  BY <1>1, <1>2
<1> HIDE DEF created, made, u, dir
<1>5. list \in Seq(Entry) /\ ListOK(list)
  BY <1>2, <1>3, AddedListOK
<1>6. Written(made, dir, list) = Added(made, dir, Last(path), u)
  BY DEF Added
<1> HIDE DEF list
<1>7. \/ iFile' = made
      \/ iFile' = Written(made, dir, list)
      \/ Torn(made, dir) /\ Record(ok, {"torn"})
  BY <1>2, <1>3, <1>4, <1>5, RefusedIs
<1> QED BY <1>2, <1>6, <1>7 DEF u, made, dir

----------------------------------------------------------------------------

(* The outcomes of the other requests.                                     *)

LEMMA LinkIs ==
    ASSUME TypeOK, Tree(iFile),
           NEW from \in Paths, NEW to \in NewPaths, KernelFinds(from),
           KernelFindsDirectory(GetDirectoryPath(to)), Fuse_Link(from, to)
    PROVE  LET inum == GetINum(iFile, from)
               dir == GetINum(iFile, Front(to))
               named == Added(iFile, dir, Last(to), inum)
           IN /\ inum \in INums /\ iFile[inum].fileType # "Directory"
              /\ Lookup(iFile, dir, Last(to)) = INUM_NOT_FOUND
              /\ \E ok, others :
                   /\ Record(ok, others)
                   /\ \/ iFile' = iFile /\ ~(ok[1] /\ Readable(iFile, dir))
                      \/ /\ iFile' = File_AddLink(named, inum, ok[2])
                         /\ ReadDirectory(iFile, dir) # <<>>
                         /\ Len(ReadDirectory(iFile, dir)) < MaxEntries
                         /\ ~ok[2] => "uncounted" \in others
                         /\ iFile[inum].fileType = "Symlink" => "symlink linked" \in others
                      \/ /\ iFile' = named /\ "uncounted" \in others
                         /\ ReadDirectory(iFile, dir) # <<>>
                         /\ Len(ReadDirectory(iFile, dir)) < MaxEntries
                      \/ /\ Torn(iFile, dir) /\ "torn" \in others
                         /\ ReadDirectory(iFile, dir) # <<>>
<1>1. PICK ok : Directory_Link(from, to, ok)
  BY DEF Fuse_Link
<1> DEFINE inum == GetINum(iFile, from)
           dir == GetINum(iFile, Front(to))
           list == ReadDirectory(iFile, dir)
           named == Added(iFile, dir, Last(to), inum)
           added == AddFile(list, Last(to), inum)
           others == (IF ~ok[2] THEN {"uncounted"} ELSE {}) \cup
                     (IF iFile[inum].fileType = "Symlink" THEN {"symlink linked"} ELSE {})
<1>2. inum # INUM_NOT_FOUND /\ inum \in INums
  BY FoundRange DEF Fuse_Link, KernelFinds
<1>3. iFile[inum].fileType # "Directory" /\ HasRoom(to) /\ ~KernelFinds(to)
  BY DEF Fuse_Link, KernelType
<1>4. Lookup(iFile, dir, Last(to)) = INUM_NOT_FOUND
  <2>1. GetINum(iFile, to) = INUM_NOT_FOUND
    BY <1>3 DEF KernelFinds
  <2> QED BY <2>1, GetINumStep, NewPathFacts, TypeOKFacts
<1>5. Len(list) < MaxEntries
  BY <1>3, RoomIs
<1>6. \/ /\ list # <<>> /\ ok[1] /\ Record(ok, others)
         /\ iFile' = File_AddLink(named, inum, ok[2])
      \/ list # <<>> /\ ~ok[1] /\ ListRefused(iFile, dir, added, ok, {"uncounted"})
      \/ list = <<>> /\ iFile' = iFile /\ Record(ok, {})
  BY <1>1, <1>2, IsWritten DEF Directory_Link, Added, GetDirectoryPath, GetLastPathElement
<1>7. /\ ~ok[2] => "uncounted" \in others
      /\ iFile[inum].fileType = "Symlink" => "symlink linked" \in others
  OBVIOUS
<1>8. Last(to) \in PathNames /\ iFile \in IFile
  BY TypeOKFacts, NewPathFacts, PathFacts
<1>9. named = Written(iFile, dir, added)
  BY DEF Added
<1> HIDE DEF others, inum, dir, named
<1>10. ASSUME list # <<>>, ~ok[1], ListRefused(iFile, dir, added, ok, {"uncounted"})
       PROVE  \/ iFile' = iFile /\ Record(ok, {})
              \/ iFile' = named /\ Record(ok, {"uncounted"})
              \/ Torn(iFile, dir) /\ Record(ok, {"torn"})
  <2>1. added \in Seq(Entry) /\ ListOK(added)
    BY <1>2, <1>5, <1>8, <1>10, AddedListOK
  <2> HIDE DEF added
  <2>2. \/ iFile' = iFile /\ Record(ok, {})
        \/ iFile' = Written(iFile, dir, added) /\ Record(ok, {"uncounted"})
        \/ Torn(iFile, dir) /\ Record(ok, {"torn"})
    BY <1>8, <1>10, <2>1, RefusedIs
  <2> QED BY <1>9, <2>2
<1> HIDE DEF added
<1>11. CASE /\ list # <<>> /\ ok[1] /\ Record(ok, others)
            /\ iFile' = File_AddLink(named, inum, ok[2])
  BY <1>2, <1>3, <1>4, <1>5, <1>7, <1>11 DEF inum, dir, named
<1>12. CASE list = <<>> /\ iFile' = iFile /\ Record(ok, {})
  BY <1>2, <1>3, <1>4, <1>12 DEF inum, dir, named, Readable
<1>13. CASE iFile' = iFile /\ Record(ok, {}) /\ ~ok[1]
  BY <1>2, <1>3, <1>4, <1>13 DEF inum, dir, named
<1>14. CASE iFile' = named /\ Record(ok, {"uncounted"}) /\ list # <<>>
  BY <1>2, <1>3, <1>4, <1>5, <1>14 DEF inum, dir, named
<1>15. CASE Torn(iFile, dir) /\ Record(ok, {"torn"}) /\ list # <<>>
  BY <1>2, <1>3, <1>4, <1>15 DEF inum, dir, named
<1> QED BY <1>6, <1>10, <1>11, <1>12, <1>13, <1>14, <1>15

LEMMA UnlinkIs ==
    ASSUME TypeOK, Tree(iFile), NEW path \in Paths, NEW ok, Directory_Unlink(path, ok)
    PROVE  LET inum == GetINum(iFile, path)
               dir == GetINum(iFile, Front(path))
               removed == Removed(iFile, dir, Last(path))
               found == inum # INUM_NOT_FOUND /\ ReadDirectory(iFile, dir) # <<>>
           IN \/ iFile' = iFile /\ Record(ok, {}) /\ ~(found /\ ok[1])
              \/ /\ found /\ FreesIFile(iFile, inum)
                 /\ iFile' = removed /\ Record(ok, {"terminated"})
              \/ /\ found /\ ~FreesIFile(iFile, inum)
                 /\ iFile' = Forget(removed, inum, ok) /\ Record(ok, {})
              \/ found /\ ~ok[1] /\ iFile' = removed /\ Record(ok, {})
              \/ found /\ Torn(iFile, dir) /\ Record(ok, {"torn"})
<1> DEFINE inum == GetINum(iFile, path)
           dir == GetINum(iFile, Front(path))
           list == ReadDirectory(iFile, dir)
           name == Last(path)
           rest == RemoveFile(list, name)
           removed == Removed(iFile, dir, name)
           found == inum # INUM_NOT_FOUND /\ list # <<>>
<1>1. name \notin Dots /\ iFile \in IFile
  BY TypeOKFacts, PathFacts, NameFacts
<1>2. WriteDirectory(iFile, dir, rest, TRUE) = removed /\ removed = Written(iFile, dir, rest)
  BY IsWritten DEF Removed
<1>3. \/ /\ found /\ FreesIFile(iFile, inum)
         /\ iFile' = removed /\ Record(ok, {"terminated"})
      \/ /\ found /\ ~FreesIFile(iFile, inum)
         /\ iFile' = Forget(removed, inum, ok) /\ Record(ok, {})
      \/ found /\ ~ok[1] /\ ListRefused(iFile, dir, rest, ok, {})
      \/ ~found /\ iFile' = iFile /\ Record(ok, {})
  BY <1>1, <1>2 DEF Directory_Unlink, GetDirectoryPath, GetLastPathElement
<1> HIDE DEF removed, inum, dir, name
<1>4. ASSUME found, ~ok[1], ListRefused(iFile, dir, rest, ok, {})
      PROVE  \/ iFile' = iFile /\ Record(ok, {})
             \/ iFile' = removed /\ Record(ok, {})
             \/ Torn(iFile, dir) /\ Record(ok, {"torn"})
  <2>1. rest \in Seq(Entry) /\ ListOK(rest)
    BY <1>1, <1>4, RemovedListOK
  <2>2. list # <<>>
    BY <1>4
  <2> HIDE DEF rest
  <2>3. \/ iFile' = iFile /\ Record(ok, {})
        \/ iFile' = Written(iFile, dir, rest) /\ Record(ok, {})
        \/ Torn(iFile, dir) /\ Record(ok, {"torn"})
    BY <1>1, <1>4, <2>1, <2>2, RefusedIs
  <2> QED BY <1>2, <2>3
<1> HIDE DEF rest, list
<1> QED BY <1>3, <1>4 DEF removed, inum, dir, name, list

LEMMA RemovedRoom ==
    ASSUME NEW f \in IFile, Tree(f), NEW dir, ReadDirectory(f, dir) # <<>>,
           NEW name, name \notin Dots, NEW path \in Seq(PathNames),
           Len(ReadDirectory(f, GetINum(f, path))) < MaxEntries,
           ReadDirectory(Removed(f, dir, name), GetINum(Removed(f, dir, name), path)) # <<>>
    PROVE  /\ GetINum(Removed(f, dir, name), path) = GetINum(f, path)
           /\ Len(ReadDirectory(Removed(f, dir, name), GetINum(f, path))) < MaxEntries
<1> DEFINE g == Removed(f, dir, name)
           toDir == GetINum(f, path)
<1>1. /\ g \in IFile /\ Tree(g) /\ Removes(f, g, dir, name)
      /\ \A d : d # dir => ReadDirectory(g, d) = ReadDirectory(f, d)
  BY RemovedTree
<1>2. GetINum(g, path) \in {toDir, INUM_NOT_FOUND}
  BY <1>1, RemovesGetINum
<1>3. GetINum(g, path) \in INums
  BY <1>1, TreeLists
<1>4. GetINum(g, path) = toDir
  BY <1>2, <1>3, NumberFacts
<1>5. Len(ReadDirectory(g, toDir)) <= Len(ReadDirectory(f, toDir))
  <2>1. CASE toDir # dir
    <3>1. ReadDirectory(g, toDir) = ReadDirectory(f, toDir)
      BY <1>1, <2>1
    <3>2. Len(ReadDirectory(f, toDir)) \in Nat
      BY ReadDirectoryType
    <3> QED BY <3>1, <3>2
  <2>2. CASE toDir = dir
    BY <1>1, <2>2 DEF Removes, Compacts
  <2> QED BY <2>1, <2>2
<1>6. Len(ReadDirectory(g, toDir)) \in Nat /\ Len(ReadDirectory(f, toDir)) \in Nat
  BY <1>1, ReadDirectoryType
<1> HIDE DEF g, toDir
<1>7. Len(ReadDirectory(f, toDir)) < MaxEntries
  BY DEF toDir
<1>8. Len(ReadDirectory(g, toDir)) < MaxEntries
  BY <1>5, <1>6, <1>7, NumberFacts
<1> QED BY <1>4, <1>8 DEF g, toDir

LEMMA RenameIs ==
    ASSUME TypeOK, Tree(iFile),
           NEW from \in Paths, NEW to \in NewPaths, KernelFinds(from),
           KernelFindsDirectory(GetDirectoryPath(to)), Fuse_Rename(from, to)
    PROVE  LET inum == GetINum(iFile, from)
               fromDir == GetINum(iFile, Front(from))
               removed == Removed(iFile, fromDir, Last(from))
               toDir == GetINum(iFile, Front(to))
               toList == ReadDirectory(removed, toDir)
           IN /\ inum \in INums /\ ReadDirectory(iFile, fromDir) # <<>>
              /\ \E ok, others :
                   /\ Record(ok, others)
                   /\ \/ iFile' = iFile /\ ~ok[1]
                      \/ /\ iFile' = removed
                         /\ ~(/\ ok[1] /\ ok[2]
                              /\ Readable(removed, GetINum(removed, Front(to))))
                      \/ /\ iFile' = Added(removed, toDir, Last(to), inum)
                         /\ toList # <<>> /\ Len(toList) < MaxEntries
                         /\ ContainsFile(toList, Last(to)) => "renamed over" \in others
                      \/ Torn(iFile, fromDir) /\ "torn" \in others
                      \/ Torn(removed, toDir) /\ "torn" \in others /\ toList # <<>>
<1>1. PICK ok : Directory_Rename(from, to, ok)
  BY DEF Fuse_Rename
<1> DEFINE inum == GetINum(iFile, from)
           fromDir == GetINum(iFile, Front(from))
           removed == Removed(iFile, fromDir, Last(from))
           newDir == GetINum(removed, Front(to))
           toDir == GetINum(iFile, Front(to))
           newList == ReadDirectory(removed, newDir)
           rest == RemoveFile(ReadDirectory(iFile, fromDir), Last(from))
           added == AddFile(newList, Last(to), inum)
           over == IF ContainsFile(newList, Last(to)) THEN {"renamed over"} ELSE {}
<1>2. iFile \in IFile /\ inum # INUM_NOT_FOUND /\ HasRoom(to)
  BY TypeOKFacts DEF Fuse_Rename, KernelRenames, KernelFinds
<1>3. inum \in INums /\ ReadDirectory(iFile, fromDir) # <<>>
  BY <1>2, FoundEntry
<1>4. /\ Last(from) \notin Dots /\ Last(to) \notin Dots
      /\ Front(to) \in Seq(PathNames) /\ Last(to) \in PathNames
  BY PathFacts, NewPathFacts, NameFacts
<1>5. WriteDirectory(iFile, fromDir, rest, TRUE) = removed /\ removed = Written(iFile, fromDir, rest)
  BY IsWritten DEF Removed
<1>6. WriteDirectory(removed, newDir, added, TRUE) = Added(removed, newDir, Last(to), inum)
      /\ Added(removed, newDir, Last(to), inum) = Written(removed, newDir, added)
  BY IsWritten DEF Added
<1>7. \/ /\ newList # <<>> /\ Record(ok, over)
         /\ iFile' = Added(removed, newDir, Last(to), inum)
      \/ newList # <<>> /\ ~ok[2] /\ ListRefused(removed, newDir, added, ok, over)
      \/ newList = <<>> /\ iFile' = removed /\ Record(ok, {})
      \/ ~ok[1] /\ ListRefused(iFile, fromDir, rest, ok, {})
  BY <1>1, <1>3, <1>4, <1>5, <1>6
     DEF Directory_Rename, GetDirectoryPath, GetLastPathElement, Readable
<1>8. Len(ReadDirectory(iFile, toDir)) < MaxEntries
  BY <1>2, RoomIs
<1>9. newList # <<>> => newDir = toDir /\ Len(ReadDirectory(removed, toDir)) < MaxEntries
  BY <1>2, <1>3, <1>4, <1>8, RemovedRoom
<1>10. removed \in IFile /\ Tree(removed)
  BY <1>2, <1>3, <1>4, RemovedTree
<1>11. over # {} => over = {"renamed over"}
  OBVIOUS
<1>12. ContainsFile(newList, Last(to)) => "renamed over" \in over
  OBVIOUS
<1> HIDE DEF over, removed, inum, fromDir, toDir, newDir
<1>13. ASSUME ~ok[1], ListRefused(iFile, fromDir, rest, ok, {})
       PROVE  \/ iFile' = iFile /\ Record(ok, {})
              \/ iFile' = removed /\ Record(ok, {})
              \/ Torn(iFile, fromDir) /\ Record(ok, {"torn"})
  <2>1. rest \in Seq(Entry) /\ ListOK(rest)
    BY <1>2, <1>3, <1>4, RemovedListOK
  <2> HIDE DEF rest
  <2>2. \/ iFile' = iFile /\ Record(ok, {})
        \/ iFile' = Written(iFile, fromDir, rest) /\ Record(ok, {})
        \/ Torn(iFile, fromDir) /\ Record(ok, {"torn"})
    BY <1>2, <1>3, <1>13, <2>1, RefusedIs
  <2> QED BY <1>5, <2>2
<1>14. ASSUME newList # <<>>, ListRefused(removed, newDir, added, ok, over)
       PROVE  \/ iFile' = removed /\ Record(ok, {})
              \/ iFile' = Added(removed, newDir, Last(to), inum) /\ Record(ok, over)
              \/ Torn(removed, newDir) /\ Record(ok, {"torn"})
  <2>1. added \in Seq(Entry) /\ ListOK(added)
    BY <1>3, <1>4, <1>9, <1>10, <1>14, AddedListOK
  <2> HIDE DEF added
  <2>2. \/ iFile' = removed /\ Record(ok, {})
        \/ iFile' = Written(removed, newDir, added) /\ Record(ok, over)
        \/ Torn(removed, newDir) /\ Record(ok, {"torn"})
    BY <1>10, <1>14, <2>1, RefusedIs
  <2> QED BY <1>6, <2>2
<1> HIDE DEF added, rest
<1>15. CASE /\ newList # <<>> /\ Record(ok, over)
            /\ iFile' = Added(removed, newDir, Last(to), inum)
  BY <1>3, <1>9, <1>12, <1>15 DEF removed, inum, fromDir, toDir
<1>16. CASE newList # <<>> /\ ~ok[2] /\ iFile' = removed /\ Record(ok, {})
  BY <1>3, <1>16 DEF removed, inum, fromDir, toDir
<1>17. CASE newList # <<>> /\ Torn(removed, newDir) /\ Record(ok, {"torn"})
  BY <1>3, <1>9, <1>17 DEF removed, inum, fromDir, toDir
<1>18. CASE newList = <<>> /\ iFile' = removed /\ Record(ok, {})
  <2>1. ~Readable(removed, newDir)
    BY <1>18 DEF Readable
  <2> QED BY <1>3, <1>18, <2>1 DEF removed, inum, fromDir, toDir, newDir
<1>19. CASE ~ok[1] /\ (iFile' = iFile \/ iFile' = removed) /\ Record(ok, {})
  BY <1>3, <1>19 DEF removed, inum, fromDir, toDir
<1>20. CASE Torn(iFile, fromDir) /\ Record(ok, {"torn"})
  BY <1>3, <1>20 DEF removed, inum, fromDir, toDir
<1> QED BY <1>7, <1>13, <1>14, <1>15, <1>16, <1>17, <1>18, <1>19, <1>20

----------------------------------------------------------------------------

(* The tree keeps its shape.                                               *)

LEMMA FreedTree ==
    ASSUME NEW f \in IFile, Tree(f), NEW i \in INums, i # IFILE_INUM, NEW ok
    PROVE  Tree(File_Free(f, i, ok))
<1> DEFINE inode == [f[i] EXCEPT !.inUse = FALSE, !.entries = <<>>]
<1>1. f[i] \in Inode /\ <<>> \in Seq(Entry)
  BY DEF IFile
<1>2. inode \in Inode /\ inode.entries = <<>>
  BY <1>1 DEF Inode
<1>3. File_Free(f, i, ok) \in {f, Updated(f, i, inode)}
  <2>1. File_Free(f, i, ok) = UpdateIFile(f, i, inode, ok)
    BY DEF File_Free
  <2> HIDE DEF inode
  <2> QED BY <2>1, UpdateIFileIs
<1> HIDE DEF inode
<1>4. Tree(Updated(f, i, inode))
  BY <1>2, UpdatedTree
<1> QED BY <1>3, <1>4

LEMMA ForgetTree ==
    ASSUME NEW f \in IFile, Tree(f), NEW i \in INums, i = IFILE_INUM => f[i].nlinks # 1, NEW ok
    PROVE  Tree(Forget(f, i, ok))
<1> DEFINE left == (f[i].nlinks - 1) % LinkModulus
           g == UpdateIFile(f, i, [f[i] EXCEPT !.nlinks = left], ok[2])
<1>1. f[i].nlinks \in 0 .. LinkModulus - 1
  BY LinksRange
<1>2. left = IF f[i].nlinks = 0 THEN LinkModulus - 1 ELSE f[i].nlinks - 1
  BY <1>1, LeftIs
<1>3. left \in 0 .. LinkModulus - 1
  BY <1>1, LinksRange, ModRange
<1>4. g \in {f, Counted(f, i, left)}
  BY UpdateIFileIs DEF Counted
<1>5. /\ f[i].fileType = "Symlink" => Forget(f, i, ok) = File_Free(f, i, ok[2])
      /\ f[i].fileType # "Symlink" =>
           Forget(f, i, ok) = IF left = 0 THEN File_Free(g, i, ok[3]) ELSE g
  BY DEF Forget, File_RemoveLink
<1> HIDE DEF left, g
<1>6. g \in IFile /\ Tree(g)
  BY <1>3, <1>4, CountedFacts
<1>7. f[i].fileType = "Symlink" => i # IFILE_INUM
  BY DEF Tree
<1>8. left = 0 => i # IFILE_INUM
  <2>1. left = 0 => f[i].nlinks = 1
    BY <1>1, <1>2, NumberFacts
  <2> QED BY <2>1
<1>9. f[i].fileType = "Symlink" => Tree(Forget(f, i, ok))
  BY <1>5, <1>7, FreedTree
<1>10. left = 0 => Tree(File_Free(g, i, ok[3]))
  BY <1>6, <1>8, FreedTree
<1> QED BY <1>5, <1>6, <1>9, <1>10

LEMMA AddLinkIs ==
    ASSUME NEW f \in IFile, NEW i \in INums, NEW ok
    PROVE  LET more == (f[i].nlinks + 1) % LinkModulus
           IN /\ more \in 0 .. LinkModulus - 1
              /\ File_AddLink(f, i, ok) \in {f, Counted(f, i, more)}
              /\ ok \/ i = IFILE_INUM => File_AddLink(f, i, ok) = Counted(f, i, more)
              /\ f[i].nlinks < LinkModulus - 1 => more = f[i].nlinks + 1
<1> DEFINE more == (f[i].nlinks + 1) % LinkModulus
           inode == [f[i] EXCEPT !.nlinks = more]
<1>1. f[i].nlinks \in 0 .. LinkModulus - 1
  BY LinksRange
<1>2. more \in 0 .. LinkModulus - 1
  BY LinksRange, ModRange
<1>3. f[i].nlinks < LinkModulus - 1 => more = f[i].nlinks + 1
  BY <1>1, ModSmall, NumberFacts
<1>4. [f[i] EXCEPT !.nlinks = (@ + 1) % LinkModulus] = inode
  BY DEF IFile, Inode
<1>5. File_AddLink(f, i, ok) = UpdateIFile(f, i, inode, ok)
  BY <1>4 DEF File_AddLink
<1> HIDE DEF more
<1>6. /\ UpdateIFile(f, i, inode, ok) \in {f, Counted(f, i, more)}
      /\ ok \/ i = IFILE_INUM => UpdateIFile(f, i, inode, ok) = Counted(f, i, more)
  BY UpdateIFileIs DEF Counted
<1> QED BY <1>2, <1>3, <1>5, <1>6 DEF more

LEMMA DotListOK == \A i : ListOK(DirectoryList(i)) /\ Len(DirectoryList(i)) = 2
BY NumberFacts DEF ListOK, DirectoryList

LEMMA CreateFileTree ==
    ASSUME TypeOK, Tree(iFile), NEW path \in NewPaths, CanCreate(path),
           NEW fileType \in FileTypes, NEW ok
    PROVE  Tree(CreateFile(path, fileType, ok).iFile)
<1> DEFINE u == GetUnusedINum(iFile)
           made == Made(iFile, fileType)
           dir == GetINum(iFile, Front(path))
           created == CreateFile(path, fileType, ok)
<1>1. \/ created.iFile \in {iFile, made}
      \/ /\ created.iFile = Added(made, dir, Last(path), u)
         /\ ReadDirectory(made, dir) # <<>>
         /\ Len(ReadDirectory(made, dir)) < MaxEntries
  BY CreateFileIs
<1>2. made \in IFile /\ Tree(made) /\ u \in INums /\ Last(path) \in PathNames
  BY TypeOKFacts, MadeFacts, UnusedFacts, NewPathFacts, PathFacts DEF CanCreate
<1> HIDE DEF created, made, u, dir
<1> QED BY <1>1, <1>2, AddedTree DEF created

LEMMA CreateRefusedTree ==
    ASSUME TypeOK, Tree(iFile), NEW path \in NewPaths, CanCreate(path),
           NEW fileType \in FileTypes, NEW ok,
           CreateRefused(CreateFile(path, fileType, ok), ok)
    PROVE  Tree(iFile')
<1> DEFINE u == GetUnusedINum(iFile)
           made == Made(iFile, fileType)
           dir == GetINum(iFile, Front(path))
<1>1. /\ ReadDirectory(made, dir) # <<>>
      /\ Len(ReadDirectory(made, dir)) < MaxEntries
      /\ \/ iFile' = made
         \/ iFile' = Added(made, dir, Last(path), u)
         \/ Torn(made, dir)
  BY CreateRefusedIs
<1>2. made \in IFile /\ Tree(made) /\ u \in INums /\ Last(path) \in PathNames
  BY TypeOKFacts, MadeFacts, UnusedFacts, NewPathFacts, PathFacts DEF CanCreate
<1> HIDE DEF made, u, dir
<1> QED BY <1>1, <1>2, AddedTree, TornTree

LEMMA TreeStep == TypeOK /\ Tree(iFile) /\ [Next]_vars => Tree(iFile)'
<1> SUFFICES ASSUME TypeOK, Tree(iFile), [Next]_vars PROVE Tree(iFile')
  OBVIOUS
<1>0. iFile \in IFile
  BY TypeOKFacts
<1>1. ASSUME NEW path \in NewPaths, CanCreate(path), NEW ok,
             Directory_Create(path, ok) \/ Directory_Symlink(path, ok)
      PROVE  Tree(iFile')
  BY <1>1, CreateFileTree, CreateRefusedTree DEF Directory_Create, Directory_Symlink, FileTypes
<1>2. ASSUME NEW path \in NewPaths, CanCreate(path), NEW ok, Directory_Mkdir(path, ok)
      PROVE  Tree(iFile')
  <2> DEFINE made == CreateFile(path, "Directory", ok)
  <2>1. made.iFile \in IFile /\ made.inum \in INums /\ Tree(made.iFile)
    BY <1>2, CreateFileType, CreateFileTree DEF FileTypes
  <2>2. CASE CreateRefused(made, ok)
    BY <1>2, <2>2, CreateRefusedTree DEF FileTypes
  <2>3. CASE iFile' = IF made.created
                        THEN WriteDirectory(made.iFile, made.inum, DirectoryList(made.inum), ok[3])
                        ELSE made.iFile
    <3> HIDE DEF made
    <3>1. iFile' \in {made.iFile, Written(made.iFile, made.inum, DirectoryList(made.inum))}
      BY <2>3 DEF WriteDirectory, Written
    <3> QED BY <2>1, <3>1, WrittenTree, DotListOK
  <2> QED BY <1>2, <2>2, <2>3 DEF Directory_Mkdir
<1>3. ASSUME NEW from \in Paths, NEW to \in NewPaths, KernelFinds(from),
             KernelFindsDirectory(GetDirectoryPath(to)), Fuse_Link(from, to) PROVE Tree(iFile')
  <2> DEFINE inum == GetINum(iFile, from)
             dir == GetINum(iFile, Front(to))
             named == Added(iFile, dir, Last(to), inum)
  <2>1. inum \in INums /\ \E ok : \/ iFile' = iFile
                                  \/ /\ \/ iFile' = File_AddLink(named, inum, ok[2])
                                        \/ iFile' = named
                                     /\ ReadDirectory(iFile, dir) # <<>>
                                     /\ Len(ReadDirectory(iFile, dir)) < MaxEntries
                                  \/ Torn(iFile, dir) /\ ReadDirectory(iFile, dir) # <<>>
    BY <1>3, LinkIs
  <2>2. Last(to) \in PathNames
    BY NewPathFacts, PathFacts
  <2> HIDE DEF inum, dir
  <2>3. ASSUME NEW ok, iFile' = File_AddLink(named, inum, ok[2]) \/ iFile' = named,
               ReadDirectory(iFile, dir) # <<>>,
               Len(ReadDirectory(iFile, dir)) < MaxEntries
        PROVE  Tree(iFile')
    <3>1. named \in IFile /\ Tree(named)
      BY <1>0, <2>1, <2>2, <2>3, AddedTree
    <3> HIDE DEF named
    <3>2. /\ (named[inum].nlinks + 1) % LinkModulus \in 0 .. LinkModulus - 1
          /\ File_AddLink(named, inum, ok[2]) \in {named, Counted(named, inum, (named[inum].nlinks + 1) % LinkModulus)}
      BY <2>1, <2>3, <3>1, AddLinkIs
    <3> QED BY <2>1, <2>3, <3>1, <3>2, CountedFacts
  <2> QED BY <1>0, <2>1, <2>3, TornTree
<1>4. ASSUME NEW path \in Paths, NEW ok, Directory_Unlink(path, ok) PROVE Tree(iFile')
  <2> DEFINE inum == GetINum(iFile, path)
             dir == GetINum(iFile, Front(path))
             removed == Removed(iFile, dir, Last(path))
             found == inum # INUM_NOT_FOUND /\ ReadDirectory(iFile, dir) # <<>>
  <2>1. \/ iFile' = iFile
        \/ found /\ iFile' = removed
        \/ found /\ ~FreesIFile(iFile, inum) /\ iFile' = Forget(removed, inum, ok)
        \/ found /\ Torn(iFile, dir)
    BY <1>4, UnlinkIs
  <2>2. inum # INUM_NOT_FOUND => inum \in INums
    BY FoundRange
  <2>3. found => removed \in IFile /\ Tree(removed)
    BY <1>0, RemovedTree, PathFacts, NameFacts
  <2>4. inum \in INums => removed[inum].nlinks = iFile[inum].nlinks
    BY <1>0, WrittenKeeps DEF Removed
  <2> HIDE DEF inum, dir, removed
  <2>5. found /\ ~FreesIFile(iFile, inum) => Tree(Forget(removed, inum, ok))
    BY <2>2, <2>3, <2>4, ForgetTree DEF FreesIFile
  <2>6. found /\ Torn(iFile, dir) => Tree(iFile')
    BY <1>0, TornTree
  <2> HIDE DEF found
  <2> QED BY <2>1, <2>3, <2>5, <2>6
<1>5. ASSUME NEW from \in Paths, NEW to \in NewPaths, KernelFinds(from),
             KernelFindsDirectory(GetDirectoryPath(to)), Fuse_Rename(from, to)
      PROVE Tree(iFile')
  <2> DEFINE inum == GetINum(iFile, from)
             fromDir == GetINum(iFile, Front(from))
             removed == Removed(iFile, fromDir, Last(from))
             toDir == GetINum(iFile, Front(to))
             toList == ReadDirectory(removed, toDir)
  <2>1. /\ inum \in INums /\ ReadDirectory(iFile, fromDir) # <<>>
        /\ \/ iFile' = iFile
           \/ iFile' = removed
           \/ /\ iFile' = Added(removed, toDir, Last(to), inum)
              /\ toList # <<>> /\ Len(toList) < MaxEntries
           \/ Torn(iFile, fromDir)
           \/ Torn(removed, toDir) /\ toList # <<>>
    BY <1>5, RenameIs
  <2>2. removed \in IFile /\ Tree(removed)
    BY <1>0, <2>1, RemovedTree, PathFacts, NameFacts
  <2>3. Last(to) \in PathNames
    BY NewPathFacts, PathFacts
  <2> HIDE DEF inum, fromDir, toDir, removed
  <2> QED BY <1>0, <2>1, <2>2, <2>3, AddedTree, TornTree
<1>6. CASE UNCHANGED vars
  BY <1>6 DEF vars
<1> QED BY <1>1, <1>2, <1>3, <1>4, <1>5, <1>6
     DEF Next, Known, Places, Fuse_Create, Fuse_Symlink, Fuse_Mkdir, Fuse_Unlink, Fuse_Rmdir, Directory_Rmdir, vars

LEMMA InitTree == Init => Tree(iFile)
<1> SUFFICES ASSUME Init PROVE Tree(iFile)
  OBVIOUS
<1> DEFINE rootList == AddFile(DirectoryList(ROOT_DIRECTORY_INUM), ".ifile", IFILE_INUM)
<1>1. ListOK(rootList)
  <2>1. ".ifile" \in PathNames
    BY DEF PathNames
  <2>2. DirectoryList(ROOT_DIRECTORY_INUM) \in Seq(Entry)
    BY NumberFacts, DirectoryListType
  <2>3. ListOK(DirectoryList(ROOT_DIRECTORY_INUM)) /\ Len(DirectoryList(ROOT_DIRECTORY_INUM)) < MaxEntries
    BY DotListOK, NumberFacts
  <2>4. ".ifile" \notin Dots
    BY <2>1, NameFacts
  <2> QED BY <2>2, <2>3, <2>4, AddFileListOK
<1>2. \A i \in INums : iFile[i].entries \in {<<>>, rootList}
  BY NumberFacts DEF Init
<1>3. iFile[IFILE_INUM].inUse /\ iFile[IFILE_INUM].fileType = "File"
  BY NumberFacts DEF Init
<1> HIDE DEF rootList
<1> QED BY <1>1, <1>2, <1>3 DEF Tree

----------------------------------------------------------------------------

(* No directory names an inode that is not in use.                         *)

\* No link count is about to wrap.
LinkRoom == \A i \in INums : iFile[i].nlinks < LinkModulus - 1

Counts == ~Had("torn") /\ ~Had("uncounted") /\ ~Had("symlink linked")

CoverInv == TypeOK /\ Tree(iFile) /\ (Counts => Covered(iFile))

LEMMA RecordHad ==
    ASSUME history \in Seq(SUBSET LapseKinds), NEW ok, NEW others, Record(ok, others),
           NEW kind, Had(kind) \/ kind \in others
    PROVE  Had(kind)'
<1> DEFINE lapses == others \cup (IF \A w \in 1 .. 3 : ok[w] THEN {} ELSE {"refused"})
<1>1. history' = IF lapses = {} THEN history ELSE Append(history, lapses)
  BY DEF Record
<1>2. others \subseteq lapses
  OBVIOUS
<1> HIDE DEF lapses
<1>3. CASE Had(kind)
  <2>1. PICK r \in 1 .. Len(history) : kind \in history[r]
    BY <1>3 DEF Had
  <2>2. r \in 1 .. Len(history') /\ history'[r] = history[r]
    BY <1>1, <2>1
  <2> QED BY <2>1, <2>2 DEF Had
<1>4. CASE kind \in others
  <2>1. lapses # {} /\ kind \in lapses
    BY <1>2, <1>4
  <2>2. Len(history') = Len(history) + 1 /\ history'[Len(history) + 1] = lapses
    BY <1>1, <2>1
  <2>3. Len(history) + 1 \in 1 .. Len(history')
    BY <2>2
  <2> QED BY <2>1, <2>2, <2>3 DEF Had
<1> QED BY <1>3, <1>4

LEMMA CreateFileCovered ==
    ASSUME TypeOK, Tree(iFile), Covered(iFile), NEW path \in NewPaths, CanCreate(path),
           NEW fileType \in FileTypes, NEW ok
    PROVE  LET created == CreateFile(path, fileType, ok)
           IN /\ Covered(created.iFile)
              /\ created.created =>
                   /\ created.iFile[created.inum].inUse
                   /\ created.iFile[created.inum].fileType = fileType
                   /\ ReadDirectory(created.iFile, created.inum) = <<>>
<1> DEFINE u == GetUnusedINum(iFile)
           made == Made(iFile, fileType)
           dir == GetINum(iFile, Front(path))
           g == Added(made, dir, Last(path), u)
           created == CreateFile(path, fileType, ok)
<1>0. iFile \in IFile /\ Unused(iFile) # {} /\ u \in INums /\ u # IFILE_INUM /\ ~iFile[u].inUse
  BY TypeOKFacts, UnusedFacts DEF CanCreate
<1>1. created.inum = u
      /\ \/ ~created.created /\ created.iFile \in {iFile, made}
         \/ /\ created.iFile = g
            /\ ReadDirectory(made, dir) # <<>>
            /\ Len(ReadDirectory(made, dir)) < MaxEntries
  BY CreateFileIs
<1>2. /\ made \in IFile /\ Tree(made) /\ Last(path) \in PathNames
      /\ made[u] = FreshInode(fileType)
      /\ ReadDirectory(made, u) = ReadDirectory(iFile, u)
  BY <1>0, MadeFacts, NewPathFacts, PathFacts
<1>3. ReadDirectory(made, u) = <<>>
  BY <1>0, <1>2 DEF ReadDirectory
<1>4. Covered(made) /\ NamesOf(made, u) = {} /\ NameLimit(made, u) = 1 /\ made[u].inUse
  BY <1>0, <1>2, MadeCovered DEF FreshInode
<1>5. Cardinality(NamesOf(made, u)) < NameLimit(made, u)
  BY <1>4, FS_EmptySet
<1> HIDE DEF created, made, u, dir, g
<1>6. CASE ~created.created /\ created.iFile \in {iFile, made}
  BY <1>4, <1>6 DEF created
<1>7. CASE /\ created.iFile = g
           /\ ReadDirectory(made, dir) # <<>>
           /\ Len(ReadDirectory(made, dir)) < MaxEntries
  <2>1. Covered(g)
    BY <1>0, <1>2, <1>4, <1>5, <1>7, AddedCovered DEF g
  <2>2. g[u].inUse = made[u].inUse /\ g[u].fileType = made[u].fileType
    BY <1>0, <1>2, WrittenKeeps DEF g, Added
  <2>3. g[u].inUse /\ g[u].fileType = fileType
    BY <1>2, <1>4, <2>2 DEF FreshInode
  <2>4. ReadDirectory(g, u) = <<>>
    <3>1. u # dir
      BY <1>3, <1>7
    <3>2. ReadDirectory(g, u) = ReadDirectory(made, u)
      BY <1>0, <1>2, <1>7, <3>1, AddedTree DEF g
    <3> QED BY <1>3, <3>2
  <2> QED BY <1>1, <1>7, <2>1, <2>3, <2>4 DEF created
<1> QED BY <1>1, <1>6, <1>7

LEMMA CreateRefusedCovered ==
    ASSUME TypeOK, Tree(iFile), Covered(iFile), Counts', NEW path \in NewPaths, CanCreate(path),
           NEW fileType \in FileTypes, NEW ok,
           CreateRefused(CreateFile(path, fileType, ok), ok)
    PROVE  Covered(iFile')
<1> DEFINE u == GetUnusedINum(iFile)
           made == Made(iFile, fileType)
           dir == GetINum(iFile, Front(path))
<1>0. iFile \in IFile /\ Unused(iFile) # {} /\ u \in INums /\ u # IFILE_INUM /\ ~iFile[u].inUse
  BY TypeOKFacts, UnusedFacts DEF CanCreate
<1>1. /\ ReadDirectory(made, dir) # <<>>
      /\ Len(ReadDirectory(made, dir)) < MaxEntries
      /\ \/ iFile' = made
         \/ iFile' = Added(made, dir, Last(path), u)
         \/ Record(ok, {"torn"})
  BY CreateRefusedIs
<1>2. ~Record(ok, {"torn"})
  <2> SUFFICES ASSUME Record(ok, {"torn"}) PROVE FALSE
    OBVIOUS
  <2>1. Had("torn")'
    BY TypeOKFacts, RecordHad
  <2> QED BY <2>1 DEF Counts
<1>3. /\ made \in IFile /\ Tree(made) /\ Last(path) \in PathNames
      /\ made[u] = FreshInode(fileType)
  BY <1>0, MadeFacts, NewPathFacts, PathFacts
<1>4. Covered(made) /\ NamesOf(made, u) = {} /\ NameLimit(made, u) = 1 /\ made[u].inUse
  BY <1>0, <1>3, MadeCovered DEF FreshInode
<1>5. Cardinality(NamesOf(made, u)) < NameLimit(made, u)
  BY <1>4, FS_EmptySet
<1> HIDE DEF made, u, dir
<1>6. CASE iFile' = made
  BY <1>4, <1>6
<1>7. CASE iFile' = Added(made, dir, Last(path), u)
  BY <1>0, <1>1, <1>3, <1>4, <1>5, <1>7, AddedCovered
<1> QED BY <1>1, <1>2, <1>6, <1>7

LEMMA MkdirCovered ==
    ASSUME TypeOK, Tree(iFile), Covered(iFile), Counts', NEW path \in NewPaths, CanCreate(path),
           NEW ok, Directory_Mkdir(path, ok)
    PROVE  Covered(iFile')
<1> DEFINE made == CreateFile(path, "Directory", ok)
           f == made.iFile
           u == made.inum
           g == Written(f, u, DirectoryList(u))
<1>1. f \in IFile /\ Tree(f) /\ Covered(f) /\ u \in INums
  BY CreateFileType, CreateFileTree, CreateFileCovered DEF FileTypes
<1>2. made.created => f[u].inUse /\ f[u].fileType = "Directory" /\ ReadDirectory(f, u) = <<>>
  BY CreateFileCovered DEF FileTypes
<1>3. \/ iFile' = f
      \/ made.created /\ iFile' = g
      \/ CreateRefused(made, ok)
  BY DEF Directory_Mkdir, WriteDirectory, Written
<1>5. CreateRefused(made, ok) => Covered(iFile')
  BY CreateRefusedCovered DEF FileTypes
<1> HIDE DEF made, f, u
<1>4. ASSUME made.created PROVE Covered(g)
  <2>1. g \in IFile /\ Tree(g)
    BY <1>1, DirectoryListType, DotListOK, WrittenType, WrittenTree
  <2>2. /\ ReadDirectory(g, u) = DirectoryList(u)
        /\ \A d : d # u => ReadDirectory(g, d) = ReadDirectory(f, d)
    BY <1>1, <1>2, <1>4, WrittenLists
  <2>3. \A d \in INums : \/ ReadDirectory(g, d) = ReadDirectory(f, d)
                         \/ Len(ReadDirectory(g, d)) <= 2
    <3> HIDE DEF g
    <3>1. Len(DirectoryList(u)) = 2
      BY DotListOK
    <3>2. ASSUME NEW d \in INums, d = u PROVE Len(ReadDirectory(g, d)) <= 2
      <4>1. ReadDirectory(g, d) = DirectoryList(u)
        BY <2>2, <3>2
      <4> HIDE DEF g
      <4> QED BY <3>1, <4>1
    <3>3. \A d \in INums : d # u => ReadDirectory(g, d) = ReadDirectory(f, d)
      BY <2>2
    <3> QED BY <3>2, <3>3
  <2>4. \A i : NamesOf(g, i) \subseteq NamesOf(f, i)
    <3> HIDE DEF g
    <3> QED BY <1>1, <2>1, <2>3, NamesShrink
  <2>5. \A i \in INums : (g[i].inUse <=> f[i].inUse) /\ NameLimit(g, i) = NameLimit(f, i)
    <3>1. ASSUME NEW i \in INums
          PROVE  (g[i].inUse <=> f[i].inUse) /\ NameLimit(g, i) = NameLimit(f, i)
      BY <1>1, WrittenKeeps, WrittenLimit
    <3> QED BY <3>1
  <2> HIDE DEF g
  <2>6. ASSUME NEW i \in INums \ {IFILE_INUM} PROVE Covers(g, i, NameLimit(g, i))
    <3>1. Covers(f, i, NameLimit(f, i)) /\ NameLimit(f, i) \in Nat
      BY <1>1, NameLimitNat DEF Covered
    <3> QED BY <2>4, <2>5, <3>1, CoversShrink
  <2> QED BY <2>6 DEF Covered
<1> QED BY <1>1, <1>3, <1>4, <1>5

LEMMA LinkCovered ==
    ASSUME TypeOK, Tree(iFile), Covered(iFile), LinkRoom, Counts',
           NEW from \in Paths, NEW to \in NewPaths, KernelFinds(from),
           KernelFindsDirectory(GetDirectoryPath(to)), Fuse_Link(from, to)
    PROVE  Covered(iFile')
<1> DEFINE inum == GetINum(iFile, from)
           dir == GetINum(iFile, Front(to))
           named == Added(iFile, dir, Last(to), inum)
<1>1. inum \in INums
  BY LinkIs
<1>2. PICK ok, others :
        /\ Record(ok, others)
        /\ \/ iFile' = iFile
           \/ /\ iFile' = File_AddLink(named, inum, ok[2])
              /\ ReadDirectory(iFile, dir) # <<>>
              /\ Len(ReadDirectory(iFile, dir)) < MaxEntries
              /\ ~ok[2] => "uncounted" \in others
              /\ iFile[inum].fileType = "Symlink" => "symlink linked" \in others
           \/ "uncounted" \in others
           \/ "torn" \in others
  BY LinkIs
<1>3. "torn" \notin others /\ "uncounted" \notin others /\ "symlink linked" \notin others
  BY <1>2, TypeOKFacts, RecordHad DEF Counts
<1>4. iFile \in IFile /\ Last(to) \in PathNames
  BY TypeOKFacts, NewPathFacts, PathFacts
<1>5. /\ iFile[inum].inUse
      /\ inum # IFILE_INUM => Cardinality(NamesOf(iFile, inum)) <= NameLimit(iFile, inum)
  BY <1>1, <1>4, FoundCovered, NumberFacts
<1> HIDE DEF inum, dir
<1>6. ASSUME iFile' = File_AddLink(named, inum, ok[2]),
             ReadDirectory(iFile, dir) # <<>>, Len(ReadDirectory(iFile, dir)) < MaxEntries, ok[2],
             iFile[inum].fileType # "Symlink"
      PROVE  Covered(iFile')
  <2> DEFINE more == (named[inum].nlinks + 1) % LinkModulus
             g == Counted(named, inum, more)
  <2>1. /\ named \in IFile /\ Tree(named)
        /\ \A i : i # inum => NamesOf(named, i) = NamesOf(iFile, i)
        /\ Cardinality(NamesOf(named, inum)) = Cardinality(NamesOf(iFile, inum)) + 1
    BY <1>1, <1>4, <1>6, AddedTree, AddedNames
  <2>2. \A i \in INums : /\ named[i].inUse = iFile[i].inUse
                         /\ named[i].nlinks = iFile[i].nlinks
                         /\ named[i].fileType = iFile[i].fileType
    BY <1>4, WrittenKeeps DEF Added
  <2> HIDE DEF named
  <2>3. named[inum].nlinks < LinkModulus - 1
    BY <1>1, <2>2 DEF LinkRoom
  <2>4. iFile' = g /\ more = named[inum].nlinks + 1 /\ more \in 0 .. LinkModulus - 1
    BY <1>1, <1>6, <2>1, <2>3, AddLinkIs
  <2> HIDE DEF more
  <2>5. /\ g \in IFile /\ \A j : NamesOf(g, j) = NamesOf(named, j)
        /\ g[inum].nlinks = more /\ g[inum].fileType = named[inum].fileType
        /\ g[inum].inUse = named[inum].inUse
        /\ \A j \in INums \ {inum} : g[j] = named[j]
    BY <1>1, <2>1, <2>4, CountedFacts
  <2> HIDE DEF g
  <2>6. ASSUME NEW i \in INums \ {IFILE_INUM} PROVE Covers(g, i, NameLimit(g, i))
    <3>1. Covers(iFile, i, NameLimit(iFile, i)) /\ NameLimit(iFile, i) \in Nat
      BY <1>4, NameLimitNat DEF Covered
    <3>2. CASE i # inum
      <4>1. g[i] = named[i] /\ NamesOf(g, i) = NamesOf(iFile, i)
        BY <2>1, <2>5, <3>2
      <4>2. g[i].inUse <=> iFile[i].inUse
        BY <2>2, <4>1
      <4>3. NameLimit(g, i) = NameLimit(iFile, i)
        BY <2>2, <4>1 DEF NameLimit
      <4> QED BY <3>1, <4>1, <4>2, <4>3, CoversShrink
    <3>3. CASE i = inum
      <4>1. g[i].inUse
        BY <1>1, <1>5, <2>2, <2>5, <3>3
      <4>2. NameLimit(g, i) = more /\ NameLimit(iFile, i) = iFile[i].nlinks
        BY <1>1, <1>6, <2>2, <2>5, <3>3 DEF NameLimit
      <4>3. Cardinality(NamesOf(g, i)) = Cardinality(NamesOf(iFile, i)) + 1
        BY <2>1, <2>5, <3>3
      <4>4. more = iFile[i].nlinks + 1
        BY <1>1, <2>2, <2>4, <3>3
      <4>5. Cardinality(NamesOf(iFile, i)) <= iFile[i].nlinks
            /\ Cardinality(NamesOf(iFile, i)) \in Nat /\ iFile[i].nlinks \in Nat
        BY <1>5, <3>1, <3>3, <4>2, NamesOfFinite
      <4> QED BY <4>1, <4>2, <4>3, <4>4, <4>5 DEF Covers
    <3> QED BY <3>2, <3>3
  <2> QED BY <2>4, <2>6 DEF Covered
<1> QED BY <1>2, <1>3, <1>6

LEMMA UnlinkCovered ==
    ASSUME TypeOK, Tree(iFile), Covered(iFile), Counts', NEW path \in Paths, NEW ok,
           Directory_Unlink(path, ok)
    PROVE  Covered(iFile')
<1> DEFINE inum == GetINum(iFile, path)
           dir == GetINum(iFile, Front(path))
           removed == Removed(iFile, dir, Last(path))
           found == inum # INUM_NOT_FOUND /\ ReadDirectory(iFile, dir) # <<>>
<1>0. iFile \in IFile /\ Last(path) \notin Dots
  BY TypeOKFacts, PathFacts, NameFacts
<1>1. \/ iFile' = iFile
      \/ found /\ iFile' = removed
      \/ found /\ ~FreesIFile(iFile, inum) /\ iFile' = Forget(removed, inum, ok)
      \/ Record(ok, {"torn"})
  BY UnlinkIs
<1>5. ~Record(ok, {"torn"})
  <2> SUFFICES ASSUME Record(ok, {"torn"}) PROVE FALSE
    OBVIOUS
  <2>1. Had("torn")'
    BY TypeOKFacts, RecordHad
  <2> QED BY <2>1 DEF Counts
<1>2. ASSUME found
      PROVE  /\ removed \in IFile /\ Tree(removed) /\ Covered(removed)
             /\ inum \in INums
             /\ inum # IFILE_INUM =>
                  Cardinality(NamesOf(removed, inum)) < NameLimit(removed, inum)
  <2>1. removed \in IFile /\ Tree(removed) /\ Covered(removed)
    BY <1>0, <1>2, RemovedTree, RemovedCovered
  <2>2. /\ inum \in INums /\ dir \in INums
        /\ \E j \in 3 .. Len(ReadDirectory(iFile, dir)) :
             /\ ReadDirectory(iFile, dir)[j].name = Last(path)
             /\ ReadDirectory(iFile, dir)[j].inum = inum
    BY <1>0, <1>2, FoundEntry
  <2>3. inum # IFILE_INUM => Cardinality(NamesOf(iFile, inum)) <= NameLimit(iFile, inum)
    BY <1>0, <1>2, FoundCovered
  <2>4. NameLimit(removed, inum) = NameLimit(iFile, inum) /\ NameLimit(iFile, inum) \in Nat
    BY <1>0, <2>2, WrittenLimit, NameLimitNat DEF Removed
  <2> HIDE DEF inum, dir
  <2>5. inum # IFILE_INUM =>
          Cardinality(NamesOf(removed, inum)) = Cardinality(KeptNames(iFile, dir, Last(path), inum))
    BY <1>0, <1>2, <2>2, RemovedNames
  <2>6. /\ Cardinality(KeptNames(iFile, dir, Last(path), inum)) \in Nat
        /\ Cardinality(KeptNames(iFile, dir, Last(path), inum)) < Cardinality(NamesOf(iFile, inum))
        /\ Cardinality(NamesOf(iFile, inum)) \in Nat
    BY <1>0, <2>2, KeptNamesFewer, NamesOfFinite
  <2> HIDE DEF removed
  <2> QED BY <2>1, <2>2, <2>3, <2>4, <2>5, <2>6
<1>3. inum \in INums => removed[inum].nlinks = iFile[inum].nlinks
  BY <1>0, WrittenKeeps DEF Removed
<1> HIDE DEF inum, dir, removed
<1>4. found /\ ~FreesIFile(iFile, inum) => Covered(Forget(removed, inum, ok))
  BY <1>2, <1>3, ForgetCovered DEF FreesIFile
<1> HIDE DEF found
<1> QED BY <1>1, <1>2, <1>4, <1>5

LEMMA RenameCovered ==
    ASSUME TypeOK, Tree(iFile), Covered(iFile), Counts',
           NEW from \in Paths, NEW to \in NewPaths, KernelFinds(from),
           KernelFindsDirectory(GetDirectoryPath(to)),
           Fuse_Rename(from, to)
    PROVE  Covered(iFile')
<1> DEFINE inum == GetINum(iFile, from)
           fromDir == GetINum(iFile, Front(from))
           removed == Removed(iFile, fromDir, Last(from))
           toDir == GetINum(iFile, Front(to))
           toList == ReadDirectory(removed, toDir)
<1>0. iFile \in IFile /\ Last(from) \notin Dots /\ Last(to) \in PathNames
  BY TypeOKFacts, PathFacts, NewPathFacts, NameFacts
<1>1. /\ inum \in INums /\ ReadDirectory(iFile, fromDir) # <<>>
      /\ \/ iFile' = iFile
         \/ iFile' = removed
         \/ /\ iFile' = Added(removed, toDir, Last(to), inum)
            /\ toList # <<>> /\ Len(toList) < MaxEntries
         \/ \E ok, others : Record(ok, others) /\ "torn" \in others
  BY RenameIs
<1>4. ASSUME NEW ok, NEW others, Record(ok, others), "torn" \in others PROVE FALSE
  <2>1. Had("torn")'
    BY <1>4, TypeOKFacts, RecordHad
  <2> QED BY <2>1 DEF Counts
<1>2. removed \in IFile /\ Tree(removed) /\ Covered(removed)
  BY <1>0, <1>1, RemovedTree, RemovedCovered
<1>3. inum # IFILE_INUM => /\ removed[inum].inUse
                           /\ Cardinality(NamesOf(removed, inum)) < NameLimit(removed, inum)
  <2>1. inum # INUM_NOT_FOUND
    BY <1>1, NumberFacts
  <2>2. /\ fromDir \in INums
        /\ \E j \in 3 .. Len(ReadDirectory(iFile, fromDir)) :
             /\ ReadDirectory(iFile, fromDir)[j].name = Last(from)
             /\ ReadDirectory(iFile, fromDir)[j].inum = inum
    BY <1>0, <2>1, FoundEntry
  <2>3. /\ iFile[inum].inUse
        /\ inum # IFILE_INUM => Cardinality(NamesOf(iFile, inum)) <= NameLimit(iFile, inum)
    BY <1>0, <2>1, FoundCovered
  <2>4. NameLimit(removed, inum) = NameLimit(iFile, inum) /\ NameLimit(iFile, inum) \in Nat
        /\ removed[inum].inUse = iFile[inum].inUse
    BY <1>0, <1>1, WrittenKeeps, WrittenLimit, NameLimitNat DEF Removed
  <2> HIDE DEF inum, fromDir
  <2>5. inum # IFILE_INUM =>
          Cardinality(NamesOf(removed, inum))
            = Cardinality(KeptNames(iFile, fromDir, Last(from), inum))
    BY <1>0, <1>1, <2>2, RemovedNames
  <2>6. /\ Cardinality(KeptNames(iFile, fromDir, Last(from), inum)) \in Nat
        /\ Cardinality(KeptNames(iFile, fromDir, Last(from), inum)) < Cardinality(NamesOf(iFile, inum))
        /\ Cardinality(NamesOf(iFile, inum)) \in Nat
    BY <1>0, <2>2, KeptNamesFewer, NamesOfFinite
  <2> HIDE DEF removed
  <2> QED BY <2>3, <2>4, <2>5, <2>6
<1> HIDE DEF inum, toDir, removed
<1> QED BY <1>0, <1>1, <1>2, <1>3, <1>4, AddedCovered

LEMMA ListRefusedRecords ==
    ASSUME NEW f, NEW dir, NEW list, NEW ok, NEW seen, ListRefused(f, dir, list, ok, seen)
    PROVE  \E others : Record(ok, others)
BY ListRefusedIs DEF Leaves

LEMMA NextRecords == Next => (\E ok, others : Record(ok, others)) \/ history' = history
<1> SUFFICES ASSUME Next PROVE (\E ok, others : Record(ok, others)) \/ history' = history
  OBVIOUS
<1>1. ASSUME NEW path, Fuse_Create(path) \/ Fuse_Symlink(path) \/ Fuse_Mkdir(path)
      PROVE  \E ok, others : Record(ok, others)
  <2>1. ASSUME NEW created, NEW ok, CreateRefused(created, ok) PROVE \E others : Record(ok, others)
    BY <2>1, ListRefusedRecords DEF CreateRefused
  <2> QED BY <1>1, <2>1 DEF Fuse_Create, Fuse_Symlink, Fuse_Mkdir, Directory_Create,
                            Directory_Symlink, Directory_Mkdir
<1>2. ASSUME NEW path, NEW ok, Directory_Unlink(path, ok) PROVE \E o, others : Record(o, others)
  BY <1>2, ListRefusedRecords DEF Directory_Unlink
<1>3. ASSUME NEW path, Fuse_Unlink(path) \/ Fuse_Rmdir(path)
      PROVE  (\E ok, others : Record(ok, others)) \/ history' = history
  <2>1. (\E ok : Directory_Unlink(path, ok)) \/ history' = history
    BY <1>3 DEF Fuse_Unlink, Fuse_Rmdir, Directory_Rmdir, vars
  <2> QED BY <1>2, <2>1
<1>4. ASSUME NEW from, NEW to, NEW ok, Directory_Link(from, to, ok)
      PROVE  \E o, others : Record(o, others)
  BY <1>4, ListRefusedRecords DEF Directory_Link
<1>5. ASSUME NEW from, NEW to, NEW ok, Directory_Rename(from, to, ok)
      PROVE  \E o, others : Record(o, others)
  BY <1>5, ListRefusedRecords DEF Directory_Rename
<1>6. ASSUME NEW from, NEW to, Fuse_Link(from, to) \/ Fuse_Rename(from, to)
      PROVE  \E ok, others : Record(ok, others)
  BY <1>4, <1>5, <1>6 DEF Fuse_Link, Fuse_Rename
<1> QED BY <1>1, <1>3, <1>6 DEF Next

LEMMA CoverStep == CoverInv /\ LinkRoom /\ [Next]_vars => CoverInv'
<1> SUFFICES ASSUME CoverInv, LinkRoom, [Next]_vars PROVE CoverInv'
  OBVIOUS
<1>0. TypeOK /\ Tree(iFile) /\ TypeOK' /\ Tree(iFile')
  BY NextType, TreeStep DEF CoverInv
<1> SUFFICES ASSUME Counts' PROVE Covered(iFile')
  BY <1>0 DEF CoverInv
<1>1. CASE UNCHANGED vars
  <2>1. Counts
    BY <1>1 DEF Counts, Had, vars
  <2> QED BY <1>1, <2>1 DEF CoverInv, vars
<1>2. CASE Next
  <2>1. Counts
    <3>1. \A kind : Had(kind) => Had(kind)'
      <4>1. (\E ok, others : Record(ok, others)) \/ history' = history
        BY <1>2, NextRecords
      <4>2. ASSUME NEW kind, Had(kind) PROVE Had(kind)'
        <5>1. CASE history' = history
          BY <4>2, <5>1 DEF Had
        <5>2. ASSUME NEW ok, NEW others, Record(ok, others) PROVE Had(kind)'
          BY <1>0, <4>2, <5>2, TypeOKFacts, RecordHad
        <5> QED BY <4>1, <5>1, <5>2
      <4> QED BY <4>2
    <3> QED BY <3>1 DEF Counts
  <2>2. Covered(iFile)
    BY <2>1 DEF CoverInv
  <2>3. ASSUME NEW path \in NewPaths, Fuse_Create(path) \/ Fuse_Symlink(path) PROVE Covered(iFile')
    BY <1>0, <2>2, <2>3, CreateFileCovered, CreateRefusedCovered
       DEF Fuse_Create, Fuse_Symlink, Directory_Create, Directory_Symlink, FileTypes
  <2>4. ASSUME NEW path \in NewPaths, Fuse_Mkdir(path) PROVE Covered(iFile')
    BY <1>0, <2>2, <2>4, MkdirCovered DEF Fuse_Mkdir
  <2>5. ASSUME NEW path \in Paths, Fuse_Unlink(path) \/ Fuse_Rmdir(path) PROVE Covered(iFile')
    <3>1. (\E ok : Directory_Unlink(path, ok)) \/ iFile' = iFile
      BY <2>5 DEF Fuse_Unlink, Fuse_Rmdir, Directory_Rmdir, vars
    <3> QED BY <1>0, <2>2, <3>1, UnlinkCovered
  <2>6. ASSUME NEW from \in Paths, NEW to \in NewPaths, KernelFinds(from),
               KernelFindsDirectory(GetDirectoryPath(to)), Fuse_Link(from, to)
        PROVE Covered(iFile')
    BY <1>0, <2>2, <2>6, LinkCovered
  <2>7. ASSUME NEW from \in Paths, NEW to \in NewPaths, KernelFinds(from),
               KernelFindsDirectory(GetDirectoryPath(to)), Fuse_Rename(from, to)
        PROVE Covered(iFile')
    BY <1>0, <2>2, <2>7, RenameCovered
  <2> QED BY <1>2, <2>3, <2>4, <2>5, <2>6, <2>7 DEF Next, Known, Places
<1> QED BY <1>1, <1>2

----------------------------------------------------------------------------

(* The tree of mklfs, and the theorem.                                     *)

\* The only name in the tree mklfs writes is that of the ifile.
LEMMA InitNames ==
    ASSUME Init, NEW i \in INums
    PROVE  NamesOf(iFile, i) = IF i = IFILE_INUM THEN {<<ROOT_DIRECTORY_INUM, 3>>} ELSE {}
<1> DEFINE rootList == AddFile(DirectoryList(ROOT_DIRECTORY_INUM), ".ifile", IFILE_INUM)
<1>1. iFile \in IFile /\ Tree(iFile)
  BY InitType, InitTree, TypeOKFacts
<1>2. Len(rootList) = 3 /\ rootList[3].inum = IFILE_INUM
  BY DEF AddFile, DirectoryList
<1>3. \A d \in INums : ReadDirectory(iFile, d) = IF d = ROOT_DIRECTORY_INUM THEN rootList ELSE <<>>
  <2>1. /\ iFile[IFILE_INUM].entries = <<>>
        /\ iFile[ROOT_DIRECTORY_INUM].fileType = "Directory"
        /\ iFile[ROOT_DIRECTORY_INUM].inUse
        /\ iFile[ROOT_DIRECTORY_INUM].entries = rootList
        /\ \A d \in INums \ {IFILE_INUM, ROOT_DIRECTORY_INUM} : iFile[d].entries = <<>>
    BY NumberFacts DEF Init
  <2> HIDE DEF rootList
  <2> QED BY <2>1, NumberFacts DEF ReadDirectory
<1> HIDE DEF rootList
<1>4. \A d \in INums, j \in 3 .. MaxEntries :
        <<d, j>> \in NamesOf(iFile, i) <=>
          d = ROOT_DIRECTORY_INUM /\ j = 3 /\ i = IFILE_INUM
  <2> SUFFICES ASSUME NEW d \in INums, NEW j \in 3 .. MaxEntries
               PROVE  <<d, j>> \in NamesOf(iFile, i) <=>
                        d = ROOT_DIRECTORY_INUM /\ j = 3 /\ i = IFILE_INUM
    OBVIOUS
  <2>1. j \in Nat /\ j >= 3
    BY NumberFacts
  <2>2. <<d, j>> \in NamesOf(iFile, i) <=>
          j \in 3 .. Len(ReadDirectory(iFile, d)) /\ ReadDirectory(iFile, d)[j].inum = i
    BY <1>1, <2>1, NamesOfIs
  <2>3. CASE d = ROOT_DIRECTORY_INUM
    <3>1. ReadDirectory(iFile, d) = rootList
      BY <1>3, <2>3
    <3>2. j \in 3 .. 3 <=> j = 3
      BY <2>1
    <3>3. <<d, j>> \in NamesOf(iFile, i) <=> j = 3 /\ rootList[j].inum = i
      BY <1>2, <2>2, <3>1, <3>2
    <3> QED BY <1>2, <2>3, <3>3
  <2>4. CASE d # ROOT_DIRECTORY_INUM
    <3>1. Len(ReadDirectory(iFile, d)) = 0
      BY <1>3, <2>4
    <3> QED BY <2>1, <2>2, <2>4, <3>1
  <2> QED BY <2>3, <2>4
<1>5. NamesOf(iFile, i) \subseteq INums \X (3 .. MaxEntries)
  BY <1>1, NamesOfIs
<1>6. ROOT_DIRECTORY_INUM \in INums /\ 3 \in 3 .. MaxEntries
  BY NumberFacts
<1>7. \A p \in NamesOf(iFile, i) : p = <<ROOT_DIRECTORY_INUM, 3>> /\ i = IFILE_INUM
  <2> SUFFICES ASSUME NEW p \in NamesOf(iFile, i)
               PROVE  p = <<ROOT_DIRECTORY_INUM, 3>> /\ i = IFILE_INUM
    OBVIOUS
  <2>1. PICK d \in INums, j \in 3 .. MaxEntries : p = <<d, j>>
    BY <1>5
  <2> QED BY <1>4, <2>1
<1>8. CASE i = IFILE_INUM
  <2>1. <<ROOT_DIRECTORY_INUM, 3>> \in NamesOf(iFile, i)
    BY <1>4, <1>6, <1>8
  <2> QED BY <1>7, <1>8, <2>1
<1>9. CASE i # IFILE_INUM
  BY <1>7, <1>9
<1> QED BY <1>8, <1>9

LEMMA InitCover == Init => CoverInv
<1> SUFFICES ASSUME Init PROVE CoverInv
  OBVIOUS
<1>1. \A i \in INums \ {IFILE_INUM} : NamesOf(iFile, i) = {}
  BY InitNames
<1>2. Covered(iFile)
  <2> SUFFICES ASSUME NEW i \in INums \ {IFILE_INUM} PROVE Covers(iFile, i, NameLimit(iFile, i))
    BY DEF Covered
  <2>1. Cardinality(NamesOf(iFile, i)) = 0
    BY <1>1, FS_EmptySet
  <2>2. NameLimit(iFile, i) \in Nat
    BY InitType, TypeOKFacts, NameLimitNat
  <2> QED BY <1>1, <2>1, <2>2 DEF Covers
<1> QED BY <1>2, InitType, InitTree DEF CoverInv

LEMMA CoverKeepsNames == CoverInv => NoDanglingEntries
<1> SUFFICES ASSUME CoverInv, Counts, NEW i \in INums, ~iFile[i].inUse
             PROVE  NamesOf(iFile, i) = {}
  BY DEF NoDanglingEntries, Counts
<1>1. i # IFILE_INUM
  BY DEF CoverInv, Tree
<1> QED BY <1>1 DEF CoverInv, Covered, Covers

\* Whatever writes are refused, seen all the same or not, and whatever is
\* renamed over: while no list is left with entries of two, no link goes
\* uncounted and no symlink gets a second name, no directory names an inode
\* that is not in use, as long as no link count reaches the end of an
\* nlink_t, where File_AddLink would wrap it to zero.  The order in which
\* Directory_Unlink and Directory_Rename write is what keeps it so: first the
\* list without the name, then the inode.
THEOREM NamesNeverDangle == Spec /\ []LinkRoom => []NoDanglingEntries
<1>1. Init => CoverInv
  BY InitCover
<1>2. CoverInv /\ LinkRoom /\ [Next]_vars => CoverInv'
  BY CoverStep
<1>3. CoverInv => NoDanglingEntries
  BY CoverKeepsNames
<1> QED BY <1>1, <1>2, <1>3, PTL DEF Spec

----------------------------------------------------------------------------

(* Names and link counts agree as long as nothing lapsed.                  *)

UniqueNames(list) ==
  \A i, j \in 1 .. Len(list) : list[i].name = list[j].name => i = j

\* Only files have several names.
Linked(f, i) ==
  /\ f[i].inUse <=> NamesOf(f, i) # {}
  /\ f[i].inUse => /\ f[i].nlinks = Cardinality(NamesOf(f, i))
                   /\ f[i].fileType # "File" => f[i].nlinks = 1

Exact(f) ==
  /\ f[ROOT_DIRECTORY_INUM].inUse
  /\ f[ROOT_DIRECTORY_INUM].fileType = "Directory"
  /\ NamesOf(f, ROOT_DIRECTORY_INUM) = {}
  /\ \A i \in INums \ {ROOT_DIRECTORY_INUM} : Linked(f, i)
  /\ \A d \in INums : UniqueNames(ReadDirectory(f, d))
  /\ \A d \in INums :
       f[d].inUse /\ f[d].fileType = "Directory" => ReadDirectory(f, d) # <<>>

\* Only one inode, never the root, changes what it is or how often it is named.
LEMMA ExactButOne ==
    ASSUME NEW f \in IFile, NEW g \in IFile, Exact(f),
           NEW u \in INums, u # ROOT_DIRECTORY_INUM,
           \A i \in INums \ {u} : /\ g[i].inUse = f[i].inUse
                                  /\ g[i].fileType = f[i].fileType
                                  /\ g[i].nlinks = f[i].nlinks,
           \A i \in INums \ {u} : Cardinality(NamesOf(g, i)) = Cardinality(NamesOf(f, i)),
           Linked(g, u),
           \A d \in INums : UniqueNames(ReadDirectory(g, d)),
           \A d \in INums :
             g[d].inUse /\ g[d].fileType = "Directory" => ReadDirectory(g, d) # <<>>
    PROVE  Exact(g)
<1>1. ASSUME NEW i \in INums \ {u} PROVE NamesOf(g, i) = {} <=> NamesOf(f, i) = {}
  <2>1. /\ Cardinality(NamesOf(f, i)) = 0 <=> NamesOf(f, i) = {}
        /\ Cardinality(NamesOf(g, i)) = 0 <=> NamesOf(g, i) = {}
    BY NamesOfFinite
  <2> QED BY <2>1
<1>2. ROOT_DIRECTORY_INUM \in INums \ {u}
  BY NumberFacts
<1>3. /\ g[ROOT_DIRECTORY_INUM].inUse
      /\ g[ROOT_DIRECTORY_INUM].fileType = "Directory"
      /\ NamesOf(g, ROOT_DIRECTORY_INUM) = {}
  BY <1>1, <1>2 DEF Exact
<1>4. ASSUME NEW i \in INums \ {ROOT_DIRECTORY_INUM} PROVE Linked(g, i)
  <2>1. CASE i # u
    <3>1. Linked(f, i)
      BY DEF Exact
    <3>2. /\ g[i].inUse <=> f[i].inUse
          /\ NamesOf(g, i) = {} <=> NamesOf(f, i) = {}
      BY <1>1, <2>1
    <3>3. /\ g[i].fileType = f[i].fileType /\ g[i].nlinks = f[i].nlinks
          /\ Cardinality(NamesOf(g, i)) = Cardinality(NamesOf(f, i))
      BY <2>1
    <3> QED BY <3>1, <3>2, <3>3 DEF Linked
  <2>2. CASE i = u
    BY <2>2
  <2> QED BY <2>1, <2>2
<1> QED BY <1>3, <1>4 DEF Exact

LEMMA AddedUnique ==
    ASSUME NEW list \in Seq(Entry), UniqueNames(list), NEW name, ~ContainsFile(list, name), NEW i
    PROVE  UniqueNames(AddFile(list, name, i))
<1>1. /\ Len(AddFile(list, name, i)) = Len(list) + 1
      /\ \A j \in 1 .. Len(list) : AddFile(list, name, i)[j] = list[j]
      /\ AddFile(list, name, i)[Len(list) + 1].name = name
  BY DEF AddFile
<1>2. \A j \in 1 .. Len(list) + 1 : j \in 1 .. Len(list) \/ j = Len(list) + 1
  OBVIOUS
<1> HIDE DEF AddFile
<1> QED BY <1>1, <1>2 DEF UniqueNames, ContainsFile

LEMMA CountTo ==
    ASSUME NEW n \in Nat
    PROVE  IsFiniteSet(1 .. n) /\ Cardinality(1 .. n) = n
BY FS_Interval

LEMMA AddedNotEmpty ==
    ASSUME NEW list \in Seq(Entry), NEW name, NEW i
    PROVE  AddFile(list, name, i) # <<>>
<1>1. Len(AddFile(list, name, i)) = Len(list) + 1 /\ Len(list) \in Nat
  BY DEF AddFile
<1> QED BY <1>1

AllMoved(list, name, new, c) ==
  \A j \in 1 .. Len(new) : \E k \in Kept(list, name) : c[k] = j

\* Removing the only entry of its name leaves no zeroed entry.
LEMMA RemovedUnique ==
    ASSUME NEW list \in Seq(Entry), UniqueNames(list), NEW p \in 1 .. Len(list),
           NEW name, name = list[p].name, name \notin Dots,
           NEW new, new = RemoveFile(list, name), NEW c, Compacts(list, name, new, c)
    PROVE  /\ UniqueNames(new)
           /\ Kept(list, name) = (1 .. Len(list)) \ {p}
           /\ AllMoved(list, name, new, c)
<1> DEFINE kept == Kept(list, name)
<1>1. kept = (1 .. Len(list)) \ {p} /\ Len(list) \in Nat \ {0}
  BY DEF Kept, UniqueNames
<1>2. Len(new) = Len(list) - 1
  <2>1. kept # 1 .. Len(list)
    BY <1>1
  <2> QED BY <2>1, RemoveFileMoves
<1>3. /\ c \in [kept -> 1 .. Len(new)]
      /\ \A i \in kept : new[c[i]] = list[i]
      /\ \A i, k \in kept : i < k => c[i] < c[k]
  BY DEF Compacts
<1> HIDE DEF kept
<1>4. \A i, k \in kept : c[i] = c[k] => i = k
  <2> SUFFICES ASSUME NEW i \in kept, NEW k \in kept, c[i] = c[k] PROVE i = k
    OBVIOUS
  <2>1. i \in Nat /\ k \in Nat
    BY <1>1
  <2>2. c[i] \in Nat
    BY <1>1, <1>3
  <2>3. ~(i < k) /\ ~(k < i)
    BY <1>3, <2>2
  <2> QED BY <2>1, <2>3
<1>5. IsFiniteSet(kept) /\ Cardinality(kept) = Len(list) - 1
  <2>1. IsFiniteSet(1 .. Len(list)) /\ Cardinality(1 .. Len(list)) = Len(list)
    BY <1>1, CountTo
  <2>2. IsFiniteSet((1 .. Len(list)) \ {p}) /\ Cardinality((1 .. Len(list)) \ {p}) = Len(list) - 1
    BY <2>1, FS_RemoveElement
  <2> QED BY <1>1, <2>2
<1>6. IsFiniteSet(1 .. Len(new)) /\ Cardinality(1 .. Len(new)) = Len(list) - 1
  <2>1. Len(new) \in Nat
    BY <1>1, <1>2
  <2>2. IsFiniteSet(1 .. Len(new)) /\ Cardinality(1 .. Len(new)) = Len(new)
    BY <2>1, CountTo
  <2> QED BY <1>2, <2>2
<1>7. c \in Injection(kept, 1 .. Len(new))
  BY <1>3, <1>4 DEF Injection, IsInjective
<1>8. c \in Surjection(kept, 1 .. Len(new))
  BY <1>5, <1>6, <1>7, FS_Injection
<1>9. \A j \in 1 .. Len(new) : \E k \in kept : c[k] = j
  BY <1>8 DEF Surjection
<1>10. UniqueNames(new)
  <2> SUFFICES ASSUME NEW i \in 1 .. Len(new), NEW j \in 1 .. Len(new), new[i].name = new[j].name
               PROVE  i = j
    BY DEF UniqueNames
  <2>1. PICK k \in kept : c[k] = i
    BY <1>9
  <2>2. PICK l \in kept : c[l] = j
    BY <1>9
  <2>3. list[k].name = list[l].name
    BY <1>3, <2>1, <2>2
  <2>4. k = l
    BY <1>1, <2>3 DEF UniqueNames
  <2> QED BY <2>1, <2>2, <2>4
<1> QED BY <1>1, <1>9, <1>10 DEF kept, AllMoved

\* In a tree with unique names, removing one takes exactly that name.
LEMMA RemovedExact ==
    ASSUME NEW f \in IFile, Tree(f), \A d \in INums : UniqueNames(ReadDirectory(f, d)),
           NEW dir \in INums, NEW p \in 3 .. Len(ReadDirectory(f, dir)),
           NEW name \in PathNames, name = ReadDirectory(f, dir)[p].name,
           NEW inum \in INums, inum = ReadDirectory(f, dir)[p].inum
    PROVE  /\ \A d \in INums : UniqueNames(ReadDirectory(Removed(f, dir, name), d))
           /\ \A i \in INums \ {inum} :
                Cardinality(NamesOf(Removed(f, dir, name), i)) = Cardinality(NamesOf(f, i))
           /\ Cardinality(NamesOf(Removed(f, dir, name), inum)) = Cardinality(NamesOf(f, inum)) - 1
           /\ \A d \in INums :
                ReadDirectory(f, d) # <<>> => ReadDirectory(Removed(f, dir, name), d) # <<>>
<1> DEFINE g == Removed(f, dir, name)
           list == ReadDirectory(f, dir)
           new == ReadDirectory(g, dir)
<1>1. list \in Seq(Entry) /\ Len(list) \in Nat /\ p \in 1 .. Len(list) /\ p \in Nat
  <2>1. list \in Seq(Entry) /\ Len(list) \in Nat
    BY ReadDirectoryType
  <2> HIDE DEF list
  <2>2. p \in 3 .. Len(list)
    BY DEF list
  <2> QED BY <2>1, <2>2
<1>2. list # <<>> /\ name \notin Dots
  <2>1. name \notin Dots
    BY NameFacts
  <2> HIDE DEF list
  <2>2. list # <<>>
    BY <1>1
  <2> QED BY <2>1, <2>2
<1>3. /\ g \in IFile /\ Tree(g) /\ Removes(f, g, dir, name)
      /\ new = RemoveFile(list, name)
      /\ \A d : d # dir => ReadDirectory(g, d) = ReadDirectory(f, d)
      /\ {1, 2} \subseteq Kept(list, name)
  BY <1>2, RemovedTree
<1>4. PICK c : Compacts(list, name, new, c)
  BY <1>3 DEF Removes
<1> HIDE DEF g
<1>5. /\ UniqueNames(new) /\ Kept(list, name) = (1 .. Len(list)) \ {p}
      /\ \A j \in 1 .. Len(new) : \E k \in Kept(list, name) : c[k] = j
  <2>1. name = list[p].name /\ UniqueNames(list)
    OBVIOUS
  <2>2. new = RemoveFile(list, name) /\ Compacts(list, name, new, c)
    BY <1>3, <1>4
  <2> HIDE DEF list, new
  <2>3. list \in Seq(Entry) /\ p \in 1 .. Len(list) /\ name \notin Dots
    BY <1>1, <1>2
  <2>4. UniqueNames(new)
    BY <2>1, <2>2, <2>3, RemovedUnique, Zenon
  <2>5. Kept(list, name) = (1 .. Len(list)) \ {p}
    BY <2>1, <2>2, <2>3, RemovedUnique, Zenon
  <2>6. AllMoved(list, name, new, c)
    BY <2>1, <2>2, <2>3, RemovedUnique, Zenon
  <2> QED BY <2>4, <2>5, <2>6 DEF AllMoved
<1>6. ASSUME NEW i \in INums
      PROVE  /\ Cardinality(NamesOf(g, i)) = Cardinality(KeptNames(f, dir, name, i))
             /\ KeptNames(f, dir, name, i) = NamesOf(f, i) \ {<<dir, p>>}
  <2>1. Cardinality(NamesOf(g, i)) = Cardinality(KeptNames(f, dir, name, i))
    BY <1>3, <1>4, <1>5, NamesAfterRemoval
  <2>2. ASSUME NEW q \in NamesOf(f, i)
        PROVE  (q[1] = dir => q[2] \in Kept(list, name)) <=> q # <<dir, p>>
    <3>1. PICK d \in INums, j \in 3 .. MaxEntries : q = <<d, j>>
      BY NamesOfIs
    <3>2. j \in Nat
      BY NumberFacts
    <3>3. j \in 3 .. Len(ReadDirectory(f, d))
      BY <3>1, <3>2, NamesOfIs
    <3> HIDE DEF list
    <3>4. d = dir => j \in 1 .. Len(list)
      <4>1. d = dir => j \in 3 .. Len(list)
        BY <3>3 DEF list
      <4> QED BY <1>1, <4>1
    <3>5. (d = dir => j \in Kept(list, name)) <=> ~(d = dir /\ j = p)
      BY <1>5, <3>4
    <3> QED BY <3>1, <3>5
  <2>3. KeptNames(f, dir, name, i) = NamesOf(f, i) \ {<<dir, p>>}
    BY <2>2 DEF KeptNames
  <2> QED BY <2>1, <2>3
<1>7. ASSUME NEW i \in INums PROVE <<dir, p>> \in NamesOf(f, i) <=> i = inum
  BY <1>1, NamesOfIs
<1>8. ASSUME NEW i \in INums \ {inum} PROVE Cardinality(NamesOf(g, i)) = Cardinality(NamesOf(f, i))
  <2>1. NamesOf(f, i) \ {<<dir, p>>} = NamesOf(f, i)
    BY <1>7
  <2> QED BY <1>6, <2>1
<1>9. Cardinality(NamesOf(g, inum)) = Cardinality(NamesOf(f, inum)) - 1
  <2>1. <<dir, p>> \in NamesOf(f, inum) /\ IsFiniteSet(NamesOf(f, inum))
    BY <1>7, NamesOfFinite
  <2>2. Cardinality(NamesOf(f, inum) \ {<<dir, p>>}) = Cardinality(NamesOf(f, inum)) - 1
    BY <2>1, FS_RemoveElement
  <2> QED BY <1>6, <2>2
<1>10. ASSUME NEW d \in INums
       PROVE  /\ UniqueNames(ReadDirectory(g, d))
              /\ ReadDirectory(f, d) # <<>> => ReadDirectory(g, d) # <<>>
  <2>1. CASE d = dir
    <3>1. c[1] \in 1 .. Len(new)
      BY <1>3, <1>4 DEF Compacts
    <3>2. new # <<>>
      BY <3>1
    <3> QED BY <1>5, <2>1, <3>2
  <2>2. CASE d # dir
    <3>1. ReadDirectory(g, d) = ReadDirectory(f, d)
      BY <1>3, <2>2
    <3> QED BY <3>1
  <2> QED BY <2>1, <2>2
<1> QED BY <1>8, <1>9, <1>10 DEF g

\* Lists of dots name nothing.
LEMMA SmallListsNames ==
    ASSUME NEW f \in IFile, NEW g \in IFile, Tree(f), Tree(g), NEW i,
           \A d \in INums : \/ ReadDirectory(g, d) = ReadDirectory(f, d)
                            \/ /\ Len(ReadDirectory(g, d)) <= 2
                               /\ Len(ReadDirectory(f, d)) <= 2
    PROVE  NamesOf(g, i) = NamesOf(f, i)
<1>1. NamesOf(g, i) \subseteq NamesOf(f, i)
  BY NamesShrink
<1>2. NamesOf(f, i) \subseteq NamesOf(g, i)
  BY NamesShrink
<1> QED BY <1>1, <1>2

----------------------------------------------------------------------------

----------------------------------------------------------------------------

(* Each readable directory is reached by one path.                         *)

\* A step of a walk that leads somewhere does so by an entry.
LEMMA WalkEntry ==
    ASSUME NEW f \in IFile, Tree(f), NEW path \in Seq(PathNames), NEW w, IsWalk(f, path, w),
           NEW n \in 1 .. Len(path), w[n] # INUM_NOT_FOUND
    PROVE  /\ w[n] \in INums /\ w[n - 1] \in INums /\ ReadDirectory(f, w[n - 1]) # <<>>
           /\ \E j \in 3 .. Len(ReadDirectory(f, w[n - 1])) :
                /\ ReadDirectory(f, w[n - 1])[j].name = path[n]
                /\ <<w[n - 1], j>> \in NamesOf(f, w[n])
<1> DEFINE dir == w[n - 1]
           inum == w[n]
           name == path[n]
<1>1. inum = Lookup(f, dir, name) /\ name \in PathNames /\ inum # INUM_NOT_FOUND
  BY DEF IsWalk, Partial
<1> HIDE DEF dir, inum, name
<1>2. /\ inum \in INums /\ dir \in INums /\ ReadDirectory(f, dir) # <<>>
      /\ \E j \in 3 .. Len(ReadDirectory(f, dir)) :
           /\ ReadDirectory(f, dir)[j].name = name
           /\ ReadDirectory(f, dir)[j].inum = inum
           /\ <<dir, j>> \in NamesOf(f, inum)
  BY <1>1, LookupEntry
<1> QED BY <1>2 DEF dir, inum, name

\* An inode that is not a file has one name; the root has none.
LEMMA OneName ==
    ASSUME NEW f \in IFile, Exact(f), NEW i \in INums, f[i].inUse, f[i].fileType # "File",
           NEW a \in NamesOf(f, i), NEW b \in NamesOf(f, i)
    PROVE  a = b
<1>1. i # ROOT_DIRECTORY_INUM
  BY DEF Exact
<1>2. Cardinality(NamesOf(f, i)) = 1
  BY <1>1 DEF Exact, Linked
<1>3. IsFiniteSet(NamesOf(f, i))
  BY NamesOfFinite
<1>4. PICK x : NamesOf(f, i) = {x}
  BY <1>2, <1>3, FS_Singleton
<1> QED BY <1>4

SameUpTo(p, q, n) == \A k \in 1 .. n : p[k] = q[k]

LEMMA UniqueWalks ==
    ASSUME NEW f \in IFile, Tree(f), Exact(f),
           NEW p \in Seq(PathNames), NEW w, IsWalk(f, p, w),
           NEW q \in Seq(PathNames), NEW v, IsWalk(f, q, v),
           NEW n \in 0 .. Len(p), NEW m \in 0 .. Len(q),
           w[n] = v[m], ReadDirectory(f, w[n]) # <<>>
    PROVE  n = m /\ SameUpTo(p, q, n)
<1> DEFINE Other(a) == \E b \in 0 .. Len(q) : w[a] = v[b] /\ ~(a = b /\ SameUpTo(p, q, a))
           T == {a \in 0 .. Len(p) : ReadDirectory(f, w[a]) # <<>> /\ Other(a)}
<1>0. Len(p) \in Nat /\ Len(q) \in Nat /\ T \subseteq Nat
  OBVIOUS
<1>1. /\ w[0] = ROOT_DIRECTORY_INUM /\ v[0] = ROOT_DIRECTORY_INUM
      /\ NamesOf(f, ROOT_DIRECTORY_INUM) = {}
      /\ ROOT_DIRECTORY_INUM # INUM_NOT_FOUND
  BY NumberFacts DEF IsWalk, Partial, Exact
<1>2. ASSUME T # {} PROVE FALSE
  <2>1. PICK a \in T : \A c \in T : a <= c
    BY <1>0, <1>2, LeastOf
  <2>2. a \in 0 .. Len(p) /\ ReadDirectory(f, w[a]) # <<>>
    BY <2>1
  <2>3. PICK b \in 0 .. Len(q) : w[a] = v[b] /\ ~(a = b /\ SameUpTo(p, q, a))
    BY <2>1
  <2>4. /\ w[a] \in INums /\ f[w[a]].inUse /\ f[w[a]].fileType = "Directory"
        /\ w[a] # INUM_NOT_FOUND /\ v[b] # INUM_NOT_FOUND
    BY <2>2, <2>3, TreeLists, NumberFacts
  <2>5. a \in Nat /\ b \in Nat
    BY <1>0, <2>2, <2>3
  <2>6. a # 0 => b # 0
    <3>1. ASSUME a # 0, b = 0 PROVE FALSE
      <4>1. a \in 1 .. Len(p)
        BY <2>2, <2>5, <3>1
      <4>2. NamesOf(f, w[a]) # {}
        BY <2>4, <4>1, WalkEntry
      <4> QED BY <1>1, <2>3, <3>1, <4>2
    <3> QED BY <3>1
  <2>7. b # 0 => a # 0
    <3>1. ASSUME b # 0, a = 0 PROVE FALSE
      <4>1. b \in 1 .. Len(q)
        BY <2>3, <2>5, <3>1
      <4>2. NamesOf(f, v[b]) # {}
        BY <2>4, <4>1, WalkEntry
      <4> QED BY <1>1, <2>3, <3>1, <4>2
    <3> QED BY <3>1
  <2>8. a # 0 /\ b # 0
    <3>1. SameUpTo(p, q, 0)
      BY DEF SameUpTo
    <3> QED BY <2>3, <2>6, <2>7, <3>1
  <2>9. a \in 1 .. Len(p) /\ b \in 1 .. Len(q)
    BY <1>0, <2>2, <2>3, <2>5, <2>8
  <2>10. PICK j \in 3 .. Len(ReadDirectory(f, w[a - 1])) :
           /\ ReadDirectory(f, w[a - 1])[j].name = p[a]
           /\ <<w[a - 1], j>> \in NamesOf(f, w[a])
    BY <2>4, <2>9, WalkEntry
  <2>11. PICK k \in 3 .. Len(ReadDirectory(f, v[b - 1])) :
           /\ ReadDirectory(f, v[b - 1])[k].name = q[b]
           /\ <<v[b - 1], k>> \in NamesOf(f, v[b])
    BY <2>4, <2>9, WalkEntry
  <2>12. <<w[a - 1], j>> = <<v[b - 1], k>>
    <3>1. f[w[a]].fileType # "File"
      BY <2>4
    <3> QED BY <2>3, <2>4, <2>10, <2>11, <3>1, OneName
  <2>13. w[a - 1] = v[b - 1] /\ p[a] = q[b]
    BY <2>10, <2>11, <2>12
  <2>14. a - 1 \notin T /\ a - 1 \in 0 .. Len(p) /\ b - 1 \in 0 .. Len(q)
    BY <1>0, <2>1, <2>5, <2>9
  <2>15. ReadDirectory(f, w[a - 1]) # <<>>
    BY <2>4, <2>9, WalkEntry
  <2>16. a - 1 = b - 1 /\ SameUpTo(p, q, a - 1)
    BY <2>13, <2>14, <2>15
  <2>17. a = b /\ SameUpTo(p, q, a)
    BY <2>5, <2>8, <2>13, <2>16 DEF SameUpTo
  <2> QED BY <2>3, <2>17
<1> QED BY <1>2

\* A directory that is found can be read.
LEMMA DirectoryReadable ==
    ASSUME NEW f \in IFile, Tree(f), Exact(f), NEW path \in Seq(PathNames),
           GetINum(f, path) # INUM_NOT_FOUND, f[GetINum(f, path)].fileType = "Directory"
    PROVE  GetINum(f, path) \in INums /\ ReadDirectory(f, GetINum(f, path)) # <<>>
<1>1. PICK w : IsWalk(f, path, w)
  BY WalkExists
<1>2. GetINum(f, path) = w[Len(path)] /\ Len(path) \in Nat
  BY <1>1, WalkIsGetINum
<1>3. CASE Len(path) = 0
  <2>1. w[Len(path)] = ROOT_DIRECTORY_INUM
    BY <1>1, <1>3 DEF IsWalk, Partial
  <2> QED BY <1>2, <2>1, NumberFacts DEF Exact
<1>4. CASE Len(path) # 0
  <2>1. Len(path) \in 1 .. Len(path)
    BY <1>2, <1>4
  <2>2. w[Len(path)] \in INums /\ NamesOf(f, w[Len(path)]) # {}
    BY <1>1, <1>2, <2>1, WalkEntry
  <2>3. w[Len(path)] # ROOT_DIRECTORY_INUM
    BY <2>2 DEF Exact
  <2>4. f[w[Len(path)]].inUse
    BY <2>2, <2>3 DEF Exact, Linked
  <2> QED BY <1>2, <2>2, <2>4 DEF Exact
<1> QED BY <1>3, <1>4

\* With no lapse at the end, there was none and the request had none.
LEMMA RecordClean ==
    ASSUME history \in Seq(SUBSET LapseKinds), NEW ok, NEW others, Record(ok, others),
           history' = <<>>
    PROVE  history = <<>> /\ others = {} /\ ok[1] /\ ok[2] /\ ok[3]
<1> DEFINE refused == IF \A k \in 1 .. 3 : ok[k] THEN {} ELSE {"refused"}
           lapses == others \cup refused
<1>1. history' = IF lapses = {} THEN history ELSE Append(history, lapses)
  BY DEF Record
<1> HIDE DEF lapses
<1>2. lapses = {} /\ history = <<>>
  BY <1>1
<1>3. others = {} /\ refused = {}
  BY <1>2 DEF lapses
<1>4. \A k \in 1 .. 3 : ok[k]
  BY <1>3
<1> QED BY <1>2, <1>3, <1>4

----------------------------------------------------------------------------

(* Taking a name away, and the inode with its last one.                    *)

SameInode(f, g, i) ==
  g[i].inUse = f[i].inUse /\ g[i].fileType = f[i].fileType /\ g[i].nlinks = f[i].nlinks

\* g is f without one of the names of inum.
TakenFrom(f, g, inum) ==
  /\ g \in IFile /\ Tree(g)
  /\ \A d \in INums : UniqueNames(ReadDirectory(g, d))
  /\ \A i \in INums \ {inum} : Cardinality(NamesOf(g, i)) = Cardinality(NamesOf(f, i))
  /\ Cardinality(NamesOf(g, inum)) = Cardinality(NamesOf(f, inum)) - 1
  /\ \A d \in INums : ReadDirectory(f, d) # <<>> => ReadDirectory(g, d) # <<>>
  /\ \A d \in INums : Len(ReadDirectory(g, d)) <= Len(ReadDirectory(f, d))
  /\ \A i \in INums : SameInode(f, g, i)

LEMMA TakenName ==
    ASSUME NEW f \in IFile, Tree(f), Exact(f), NEW path \in Paths,
           GetINum(f, path) # INUM_NOT_FOUND
    PROVE  /\ GetINum(f, path) \in INums /\ GetINum(f, path) # ROOT_DIRECTORY_INUM
           /\ f[GetINum(f, path)].inUse
           /\ ReadDirectory(f, GetINum(f, Front(path))) # <<>>
           /\ TakenFrom(f, Removed(f, GetINum(f, Front(path)), Last(path)), GetINum(f, path))
<1> DEFINE inum == GetINum(f, path)
           dir == GetINum(f, Front(path))
           name == Last(path)
           list == ReadDirectory(f, dir)
           g == Removed(f, dir, name)
<1>1. name \in PathNames /\ name \notin Dots
  BY PathFacts, NameFacts
<1>2. /\ inum \in INums /\ dir \in INums /\ list # <<>>
      /\ \E j \in 3 .. Len(list) :
           list[j].name = name /\ list[j].inum = inum /\ <<dir, j>> \in NamesOf(f, inum)
  BY FoundEntry
<1> HIDE DEF inum, dir, name
<1>3. PICK p \in 3 .. Len(list) :
        list[p].name = name /\ list[p].inum = inum /\ <<dir, p>> \in NamesOf(f, inum)
  BY <1>2
<1>4. inum # ROOT_DIRECTORY_INUM
  BY <1>3 DEF Exact
<1>5. f[inum].inUse
  BY <1>2, <1>3, <1>4 DEF Exact, Linked
<1>6. \A d \in INums : UniqueNames(ReadDirectory(f, d))
  BY DEF Exact
<1>7. /\ g \in IFile /\ Tree(g) /\ Removes(f, g, dir, name)
      /\ \A d : d # dir => ReadDirectory(g, d) = ReadDirectory(f, d)
  BY <1>1, <1>2, RemovedTree
<1>8. /\ \A d \in INums : UniqueNames(ReadDirectory(g, d))
      /\ \A i \in INums \ {inum} : Cardinality(NamesOf(g, i)) = Cardinality(NamesOf(f, i))
      /\ Cardinality(NamesOf(g, inum)) = Cardinality(NamesOf(f, inum)) - 1
      /\ \A d \in INums : ReadDirectory(f, d) # <<>> => ReadDirectory(g, d) # <<>>
  BY <1>1, <1>2, <1>3, <1>6, RemovedExact
<1>9. \A i \in INums : SameInode(f, g, i)
  BY WrittenKeeps DEF Removed, SameInode
<1>10. \A d \in INums : Len(ReadDirectory(g, d)) <= Len(ReadDirectory(f, d))
  <2> HIDE DEF g
  <2> TAKE d \in INums
  <2>1. CASE d = dir
    BY <1>7, <2>1 DEF Removes, Compacts
  <2>2. CASE d # dir
    <3>1. ReadDirectory(g, d) = ReadDirectory(f, d)
      BY <1>7, <2>2
    <3>2. Len(ReadDirectory(f, d)) \in Nat
      BY ReadDirectoryType
    <3> QED BY <3>1, <3>2
  <2> QED BY <2>1, <2>2
<1> HIDE DEF g
<1>11. TakenFrom(f, g, inum)
  BY <1>7, <1>8, <1>9, <1>10 DEF TakenFrom
<1> QED BY <1>2, <1>4, <1>5, <1>11 DEF inum, dir, name, g

LEMMA ForgetExact ==
    ASSUME NEW f \in IFile, Tree(f), Exact(f), NEW i \in INums, i # ROOT_DIRECTORY_INUM,
           f[i].inUse, NEW g, TakenFrom(f, g, i),
           f[i].fileType = "Directory" => Len(ReadDirectory(f, i)) <= 2,
           i = IFILE_INUM => f[i].nlinks # 1,
           NEW ok, ok[2], ok[3]
    PROVE  Exact(Forget(g, i, ok))
<1> DEFINE n == f[i].nlinks
           left == (g[i].nlinks - 1) % LinkModulus
           h == Forget(g, i, ok)
<1>1. /\ g \in IFile /\ Tree(g) /\ SameInode(f, g, i)
      /\ Cardinality(NamesOf(g, i)) = Cardinality(NamesOf(f, i)) - 1
  BY DEF TakenFrom
<1>2. Linked(f, i)
  BY DEF Exact
<1>3. /\ n = Cardinality(NamesOf(f, i)) /\ n \in Nat \ {0}
      /\ f[i].fileType # "File" => n = 1
  <2>1. n = Cardinality(NamesOf(f, i)) /\ NamesOf(f, i) # {} /\ (f[i].fileType # "File" => n = 1)
    BY <1>2 DEF Linked
  <2> QED BY <2>1, NamesOfFinite
<1>4. g[i].nlinks = n /\ g[i].fileType = f[i].fileType /\ g[i].inUse
  BY <1>1 DEF SameInode
<1>5. left = n - 1
  <2>1. n \in 0 .. LinkModulus - 1
    BY LinksRange
  <2> HIDE DEF n
  <2>2. (n - 1) % LinkModulus = n - 1
    BY <1>3, <2>1, LeftIs
  <2> QED BY <1>4, <2>2
<1>6. left \in 0 .. LinkModulus - 1
  <2>1. n \in 0 .. LinkModulus - 1
    BY LinksRange
  <2> HIDE DEF n, left
  <2> QED BY <1>3, <1>5, <2>1, NumberFacts
<1> HIDE DEF n, left, h
<1>7. h \in IFile
  BY <1>1, ForgetType DEF h
<1>8. \A j \in INums \ {i} : h[j] = g[j]
  BY <1>1, ForgetElsewhere DEF h
<1>9. \A j \in INums \ {i} : SameInode(f, h, j)
  BY <1>8 DEF TakenFrom, SameInode
<1>10. \A d \in INums \ {i} : ReadDirectory(h, d) = ReadDirectory(g, d)
  BY <1>8 DEF ReadDirectory
<1>11. CASE n = 1
  <2>1. /\ h = File_Free(g, i, TRUE) \/ h = File_Free(Counted(g, i, left), i, TRUE)
        /\ i # IFILE_INUM
    <3>1. CASE g[i].fileType = "Symlink"
      BY <1>1, <1>11, <3>1 DEF h, Forget, Tree, File_Free, UpdateIFile, n
    <3>2. CASE g[i].fileType # "Symlink"
      <4>1. left = 0
        BY <1>5, <1>11
      <4>2. h = File_Free(UpdateIFile(g, i, [g[i] EXCEPT !.nlinks = left], ok[2]), i, ok[3])
        BY <3>2, <4>1 DEF h, Forget, File_RemoveLink, left
      <4>3. UpdateIFile(g, i, [g[i] EXCEPT !.nlinks = left], ok[2]) = Counted(g, i, left)
        BY <1>1, UpdateIFileIs DEF Counted
      <4> QED BY <1>11, <4>2, <4>3 DEF File_Free, UpdateIFile, n
    <3> QED BY <3>1, <3>2
  <2>2. Counted(g, i, left) \in IFile /\ Tree(Counted(g, i, left))
    BY <1>1, <1>6, CountedFacts
  <2>3. Tree(h)
    BY <1>1, <2>1, <2>2, FreedTree
  <2>4. ~h[i].inUse
    <3>1. \A x \in IFile : ~File_Free(x, i, TRUE)[i].inUse
      BY DEF File_Free, UpdateIFile, IFile, Inode
    <3> QED BY <1>1, <2>1, <2>2, <3>1
  <2>5. ReadDirectory(h, i) = <<>>
    BY <2>4 DEF ReadDirectory
  <2>6. Len(ReadDirectory(g, i)) <= 2
    <3>1. CASE f[i].fileType = "Directory"
      <4>1. Len(ReadDirectory(g, i)) <= Len(ReadDirectory(f, i)) /\ Len(ReadDirectory(f, i)) <= 2
        BY <3>1 DEF TakenFrom
      <4>2. Len(ReadDirectory(g, i)) \in Nat /\ Len(ReadDirectory(f, i)) \in Nat
        BY <1>1, ReadDirectoryType
      <4> QED BY <4>1, <4>2
    <3>2. CASE f[i].fileType # "Directory"
      BY <1>4, <3>2 DEF ReadDirectory
    <3> QED BY <3>1, <3>2
  <2>7. \A j : NamesOf(h, j) = NamesOf(g, j)
    <3> TAKE j
    <3>1. \A d \in INums : \/ ReadDirectory(h, d) = ReadDirectory(g, d)
                           \/ Len(ReadDirectory(h, d)) <= 2 /\ Len(ReadDirectory(g, d)) <= 2
      BY <1>10, <2>5, <2>6
    <3> QED BY <1>1, <1>7, <2>3, <3>1, SmallListsNames
  <2>8. Linked(h, i)
    <3>1. Cardinality(NamesOf(g, i)) = 0
      BY <1>1, <1>3, <1>11
    <3>2. NamesOf(h, i) = {}
      BY <2>7, <3>1, NamesOfFinite
    <3> QED BY <2>4, <3>2 DEF Linked
  <2>9. \A j \in INums \ {i} : Cardinality(NamesOf(h, j)) = Cardinality(NamesOf(f, j))
    BY <2>7 DEF TakenFrom
  <2>10. \A d \in INums : UniqueNames(ReadDirectory(h, d))
    <3>1. UniqueNames(<<>>)
      BY DEF UniqueNames
    <3> QED BY <1>10, <2>5, <3>1 DEF TakenFrom
  <2>11. \A d \in INums : h[d].inUse /\ h[d].fileType = "Directory" => ReadDirectory(h, d) # <<>>
    <3> SUFFICES ASSUME NEW d \in INums, h[d].inUse, h[d].fileType = "Directory"
                 PROVE  ReadDirectory(h, d) # <<>>
      OBVIOUS
    <3>1. d # i
      BY <2>4
    <3>2. f[d].inUse /\ f[d].fileType = "Directory"
      BY <1>9, <3>1 DEF SameInode
    <3>3. ReadDirectory(g, d) # <<>>
      BY <3>2 DEF TakenFrom, Exact
    <3> QED BY <1>10, <3>1, <3>3
  <2> QED BY <1>7, <1>9, <2>8, <2>9, <2>10, <2>11, ExactButOne DEF h, SameInode
<1>12. CASE n # 1
  <2>1. f[i].fileType = "File" /\ left # 0
    BY <1>3, <1>5, <1>12
  <2>2. h = Counted(g, i, left)
    <3>1. h = UpdateIFile(g, i, [g[i] EXCEPT !.nlinks = left], ok[2])
      BY <1>4, <2>1 DEF h, Forget, File_RemoveLink, left
    <3> QED BY <1>1, <3>1, UpdateIFileIs DEF Counted
  <2>3. /\ \A d : ReadDirectory(h, d) = ReadDirectory(g, d)
        /\ \A j : NamesOf(h, j) = NamesOf(g, j)
        /\ h[i].nlinks = left /\ h[i].fileType = g[i].fileType /\ h[i].inUse = g[i].inUse
    BY <1>1, <1>6, <2>2, CountedFacts
  <2>4. Linked(h, i)
    <3>1. Cardinality(NamesOf(h, i)) = left
      BY <1>1, <1>3, <1>5, <2>3
    <3>2. NamesOf(h, i) # {}
      BY <2>1, <3>1, NamesOfFinite
    <3> QED BY <1>4, <2>1, <2>3, <3>1, <3>2 DEF Linked
  <2>5. \A j \in INums \ {i} : Cardinality(NamesOf(h, j)) = Cardinality(NamesOf(f, j))
    BY <2>3 DEF TakenFrom
  <2>6. \A d \in INums : UniqueNames(ReadDirectory(h, d))
    BY <2>3 DEF TakenFrom
  <2>7. \A d \in INums : h[d].inUse /\ h[d].fileType = "Directory" => ReadDirectory(h, d) # <<>>
    <3> SUFFICES ASSUME NEW d \in INums, h[d].inUse, h[d].fileType = "Directory"
                 PROVE  ReadDirectory(h, d) # <<>>
      OBVIOUS
    <3>1. f[d].inUse /\ f[d].fileType = "Directory"
      BY <1>4, <1>9, <2>1, <2>3 DEF SameInode
    <3>2. ReadDirectory(g, d) # <<>>
      BY <3>1 DEF TakenFrom, Exact
    <3> QED BY <2>3, <3>2
  <2> QED BY <1>7, <1>9, <2>4, <2>5, <2>6, <2>7, ExactButOne DEF h, SameInode
<1> QED BY <1>11, <1>12

----------------------------------------------------------------------------

(* Requests that leave names and link counts exact when they have no lapse. *)

LEMMA UnlinkExact ==
    ASSUME TypeOK, Tree(iFile), Exact(iFile), NEW path \in Paths, KernelFinds(path),
           KernelType(path) = "Directory" => Len(ReadDirectory(iFile, GetINum(iFile, path))) <= 2,
           NEW ok, Directory_Unlink(path, ok), history' = <<>>
    PROVE  history = <<>> /\ Exact(iFile')
<1> DEFINE inum == GetINum(iFile, path)
           dir == GetINum(iFile, Front(path))
           removed == Removed(iFile, dir, Last(path))
           found == inum # INUM_NOT_FOUND /\ ReadDirectory(iFile, dir) # <<>>
<1>1. iFile \in IFile /\ history \in Seq(SUBSET LapseKinds) /\ inum # INUM_NOT_FOUND
  BY TypeOKFacts DEF KernelFinds
<1>2. \/ iFile' = iFile /\ Record(ok, {}) /\ ~(found /\ ok[1])
      \/ Record(ok, {"terminated"})
      \/ found /\ ~FreesIFile(iFile, inum) /\ iFile' = Forget(removed, inum, ok) /\ Record(ok, {})
      \/ Record(ok, {}) /\ ~ok[1]
      \/ Record(ok, {"torn"})
  BY UnlinkIs
<1>3. /\ inum \in INums /\ inum # ROOT_DIRECTORY_INUM
      /\ iFile[inum].inUse /\ TakenFrom(iFile, removed, inum)
  BY <1>1, TakenName
<1>4. iFile[inum].fileType = "Directory" => Len(ReadDirectory(iFile, inum)) <= 2
  BY DEF KernelType
<1> HIDE DEF inum, dir, removed
<1>5. ~Record(ok, {"terminated"}) /\ ~Record(ok, {"torn"})
  BY <1>1, RecordClean
<1>6. Record(ok, {})
  BY <1>2, <1>5
<1>7. history = <<>> /\ ok[1] /\ ok[2] /\ ok[3]
  BY <1>1, <1>6, RecordClean
<1>8. ~FreesIFile(iFile, inum) => Exact(Forget(removed, inum, ok))
  BY <1>1, <1>3, <1>4, <1>7, ForgetExact DEF FreesIFile
<1> HIDE DEF found
<1> QED BY <1>2, <1>5, <1>7, <1>8

LEMMA LinkExact ==
    ASSUME TypeOK, Tree(iFile), Exact(iFile), LinkRoom,
           NEW from \in Paths, NEW to \in NewPaths, KernelFinds(from),
           KernelFindsDirectory(GetDirectoryPath(to)),
           Fuse_Link(from, to), history' = <<>>
    PROVE  history = <<>> /\ Exact(iFile')
<1> DEFINE inum == GetINum(iFile, from)
           dir == GetINum(iFile, Front(to))
           name == Last(to)
           list == ReadDirectory(iFile, dir)
           named == Added(iFile, dir, name, inum)
<1>1. iFile \in IFile /\ history \in Seq(SUBSET LapseKinds) /\ name \in PathNames
  BY TypeOKFacts, NewPathFacts, PathFacts
<1>2. /\ inum \in INums /\ iFile[inum].fileType # "Directory"
      /\ Lookup(iFile, dir, name) = INUM_NOT_FOUND
      /\ \E ok, others :
           /\ Record(ok, others)
           /\ \/ iFile' = iFile
              \/ /\ iFile' = File_AddLink(named, inum, ok[2])
                 /\ list # <<>> /\ Len(list) < MaxEntries
                 /\ iFile[inum].fileType = "Symlink" => "symlink linked" \in others
              \/ others # {}
  BY LinkIs
<1>3. inum # ROOT_DIRECTORY_INUM /\ iFile[inum].inUse
  <2>1. inum # INUM_NOT_FOUND
    BY <1>2, NumberFacts
  <2> QED BY <1>1, <2>1, TakenName
<1> HIDE DEF inum, dir, name, named
<1>4. PICK ok, others :
        /\ Record(ok, others)
        /\ \/ iFile' = iFile
           \/ /\ iFile' = File_AddLink(named, inum, ok[2])
              /\ list # <<>> /\ Len(list) < MaxEntries
              /\ iFile[inum].fileType = "Symlink" => "symlink linked" \in others
           \/ others # {}
  BY <1>2
<1>5. history = <<>> /\ others = {} /\ ok[2]
  BY <1>1, <1>4, RecordClean
<1>6. CASE iFile' # iFile
  <2> DEFINE n == iFile[inum].nlinks
             g == Counted(named, inum, n + 1)
  <2>1. /\ iFile' = File_AddLink(named, inum, ok[2]) /\ list # <<>> /\ Len(list) < MaxEntries
        /\ iFile[inum].fileType # "Symlink"
    BY <1>4, <1>5, <1>6
  <2>2. iFile[inum].fileType = "File"
    BY <1>1, <1>2, <2>1 DEF IFile, Inode, FileTypes
  <2>3. /\ named \in IFile /\ Tree(named)
        /\ ReadDirectory(named, dir) = AddFile(list, name, inum)
        /\ \A d : d # dir => ReadDirectory(named, d) = ReadDirectory(iFile, d)
        /\ \A i : i # inum => NamesOf(named, i) = NamesOf(iFile, i)
        /\ Cardinality(NamesOf(named, inum)) = Cardinality(NamesOf(iFile, inum)) + 1
    <3>1. /\ iFile \in IFile /\ ReadDirectory(iFile, dir) # <<>>
          /\ Len(ReadDirectory(iFile, dir)) < MaxEntries
          /\ name \in PathNames /\ inum \in INums
      BY <1>1, <1>2, <2>1
    <3>2. /\ named \in IFile /\ Tree(named)
          /\ ReadDirectory(named, dir) = AddFile(list, name, inum)
          /\ \A d : d # dir => ReadDirectory(named, d) = ReadDirectory(iFile, d)
      BY <3>1, AddedTree DEF named
    <3>3. ASSUME NEW i, i # inum PROVE NamesOf(named, i) = NamesOf(iFile, i)
      BY <3>1, <3>3, AddedNames DEF named
    <3>4. Cardinality(NamesOf(named, inum)) = Cardinality(NamesOf(iFile, inum)) + 1
      BY <3>1, AddedNames DEF named
    <3> QED BY <3>2, <3>3, <3>4
  <2>4. \A i \in INums : SameInode(iFile, named, i)
    BY <1>1, WrittenKeeps DEF named, Added, SameInode
  <2>5. n < LinkModulus - 1 /\ n \in Nat /\ n + 1 \in 0 .. LinkModulus - 1
    <3>1. n < LinkModulus - 1 /\ n \in 0 .. LinkModulus - 1
      BY <1>1, <1>2, LinksRange DEF LinkRoom
    <3> QED BY <3>1, NumberFacts
  <2>6. iFile' = g
    <3>1. named[inum].nlinks = n
      BY <1>2, <2>4 DEF SameInode
    <3> QED BY <1>2, <1>5, <2>1, <2>3, <2>5, <3>1, AddLinkIs
  <2>7. /\ g \in IFile
        /\ \A d : ReadDirectory(g, d) = ReadDirectory(named, d)
        /\ \A i : NamesOf(g, i) = NamesOf(named, i)
        /\ g[inum].nlinks = n + 1 /\ g[inum].fileType = named[inum].fileType
        /\ g[inum].inUse = named[inum].inUse
        /\ \A i \in INums \ {inum} : g[i] = named[i]
    BY <1>2, <2>3, <2>5, CountedFacts
  <2> HIDE DEF g, n
  <2>8. Linked(g, inum)
    <3>1. n = Cardinality(NamesOf(iFile, inum))
      BY <1>2, <1>3 DEF Exact, Linked, n
    <3>2. Cardinality(NamesOf(g, inum)) = n + 1
      BY <2>3, <2>7, <3>1
    <3>3. NamesOf(g, inum) # {}
      BY <2>5, <3>2, NamesOfFinite
    <3>4. g[inum].inUse /\ g[inum].fileType = "File"
      BY <1>2, <1>3, <2>2, <2>4, <2>7 DEF SameInode
    <3> QED BY <2>7, <3>2, <3>3, <3>4 DEF Linked
  <2>9. \A d \in INums : UniqueNames(ReadDirectory(g, d))
    <3>1. ~ContainsFile(list, name)
      <4>1. CASE ContainsFile(list, name)
        BY <1>1, <1>2, <4>1, LookupCases, NumberFacts
      <4> QED BY <4>1
    <3>2. list \in Seq(Entry) /\ dir \in INums
      BY <1>1, <2>1, ReadDirectoryType, TreeLists
    <3>3. UniqueNames(list)
      BY <3>2 DEF Exact
    <3> HIDE DEF list
    <3>4. UniqueNames(AddFile(list, name, inum))
      BY <3>1, <3>2, <3>3, AddedUnique
    <3> QED BY <2>3, <2>7, <3>4 DEF Exact
  <2>10. \A d \in INums : g[d].inUse /\ g[d].fileType = "Directory" => ReadDirectory(g, d) # <<>>
    <3> SUFFICES ASSUME NEW d \in INums, g[d].inUse, g[d].fileType = "Directory"
                 PROVE  ReadDirectory(g, d) # <<>>
      OBVIOUS
    <3>1. iFile[d].inUse /\ iFile[d].fileType = "Directory"
      BY <1>3, <2>4, <2>7 DEF SameInode
    <3>2. ReadDirectory(iFile, d) # <<>>
      BY <3>1 DEF Exact
    <3>3. AddFile(list, name, inum) # <<>>
      BY <1>1, ReadDirectoryType, AddedNotEmpty
    <3> QED BY <2>3, <2>7, <3>2, <3>3
  <2>11. \A i \in INums \ {inum} : SameInode(iFile, g, i)
    BY <2>4, <2>7 DEF SameInode
  <2>12. \A i \in INums \ {inum} : Cardinality(NamesOf(g, i)) = Cardinality(NamesOf(iFile, i))
    BY <2>3, <2>7
  <2>13. Exact(g)
    BY <1>1, <1>2, <1>3, <2>7, <2>8, <2>9, <2>10, <2>11, <2>12, ExactButOne DEF SameInode
  <2> QED BY <1>5, <2>6, <2>13
<1> QED BY <1>5, <1>6

\* Making a file, up to the list of a new directory.
LEMMA CreateFileExact ==
    ASSUME TypeOK, Tree(iFile), Exact(iFile), NEW path \in NewPaths, CanCreate(path),
           NEW fileType \in FileTypes, NEW ok, ok[1], ok[2]
    PROVE  LET created == CreateFile(path, fileType, ok)
               u == created.inum
               g == created.iFile
           IN /\ created.created
              /\ u \in INums /\ u # ROOT_DIRECTORY_INUM
              /\ g \in IFile /\ Tree(g)
              /\ \A i \in INums \ {u} : SameInode(iFile, g, i)
              /\ \A i \in INums \ {u} : Cardinality(NamesOf(g, i)) = Cardinality(NamesOf(iFile, i))
              /\ g[u].inUse /\ g[u].fileType = fileType /\ Linked(g, u)
              /\ ReadDirectory(g, u) = <<>>
              /\ \A d \in INums : UniqueNames(ReadDirectory(g, d))
              /\ \A d \in INums \ {u} :
                   g[d].inUse /\ g[d].fileType = "Directory" => ReadDirectory(g, d) # <<>>
<1> DEFINE created == CreateFile(path, fileType, ok)
           u == GetUnusedINum(iFile)
           made == Made(iFile, fileType)
           dir == GetINum(iFile, Front(path))
           name == Last(path)
           list == ReadDirectory(iFile, dir)
           g == Added(made, dir, name, u)
<1>1. /\ iFile \in IFile /\ name \in PathNames /\ Front(path) \in Seq(PathNames)
      /\ path \in Paths /\ Unused(iFile) # {}
  BY TypeOKFacts, NewPathFacts, PathFacts DEF CanCreate
<1>2. /\ GetINum(iFile, Front(path)) # INUM_NOT_FOUND
      /\ iFile[GetINum(iFile, Front(path))].fileType = "Directory"
      /\ GetINum(iFile, path) = INUM_NOT_FOUND
  BY DEF CanCreate, KernelNew, KernelFindsDirectory, KernelFinds, KernelType, GetDirectoryPath
<1>3. dir \in INums /\ list # <<>>
  BY <1>1, <1>2, DirectoryReadable
<1>4. ~ContainsFile(list, name)
  <2>1. Lookup(iFile, dir, name) = INUM_NOT_FOUND
    BY <1>1, <1>2, GetINumStep
  <2>2. CASE ContainsFile(list, name)
    BY <1>1, <2>1, <2>2, LookupCases, NumberFacts
  <2> QED BY <2>2
<1>5. /\ created.inum = u /\ created.created /\ created.iFile = g
      /\ Len(ReadDirectory(made, dir)) < MaxEntries
  <2>1. /\ created.inum = u
        /\ \/ ~created.created
           \/ created.iFile = g /\ Len(ReadDirectory(made, dir)) < MaxEntries
        /\ (ok[1] /\ ok[2] /\ Readable(iFile, dir)) => created.created
    BY CreateFileIs
  <2> QED BY <1>3, <2>1 DEF Readable
<1> HIDE DEF created, u, made, dir, name, list, g
<1>6. u \in INums /\ ~iFile[u].inUse
  BY <1>1, UnusedFacts DEF u
<1>7. u # ROOT_DIRECTORY_INUM
  BY <1>6 DEF Exact
<1>8. NamesOf(iFile, u) = {}
  BY <1>6, <1>7 DEF Exact, Linked
<1>9. /\ made \in IFile /\ Tree(made)
      /\ \A d : ReadDirectory(made, d) = ReadDirectory(iFile, d)
      /\ \A i : NamesOf(made, i) = NamesOf(iFile, i)
      /\ made[u] = FreshInode(fileType)
      /\ \A i \in INums \ {u} : made[i] = iFile[i]
  BY <1>1, MadeFacts DEF made, u
<1>10. ReadDirectory(made, dir) = list /\ ReadDirectory(made, dir) # <<>>
  BY <1>3, <1>9 DEF list
<1>11. /\ g \in IFile /\ Tree(g)
       /\ ReadDirectory(g, dir) = AddFile(list, name, u)
       /\ \A d : d # dir => ReadDirectory(g, d) = ReadDirectory(made, d)
  BY <1>1, <1>5, <1>6, <1>9, <1>10, AddedTree DEF g
<1>12. ASSUME NEW i, i # u PROVE NamesOf(g, i) = NamesOf(iFile, i)
  BY <1>1, <1>5, <1>6, <1>9, <1>10, <1>12, AddedNames DEF g
<1>13. Cardinality(NamesOf(g, u)) = 1
  <2>1. Cardinality(NamesOf(g, u)) = Cardinality(NamesOf(made, u)) + 1
    BY <1>1, <1>5, <1>6, <1>9, <1>10, AddedNames DEF g
  <2>2. Cardinality(NamesOf(made, u)) = 0
    BY <1>8, <1>9, NamesOfFinite
  <2> QED BY <2>1, <2>2
<1>14. \A i \in INums : SameInode(made, g, i)
  BY <1>9, WrittenKeeps DEF g, Added, SameInode
<1>15. \A i \in INums \ {u} : SameInode(iFile, g, i)
  BY <1>9, <1>14 DEF SameInode
<1>16. g[u].inUse /\ g[u].fileType = fileType /\ g[u].nlinks = 1
  BY <1>6, <1>9, <1>14 DEF SameInode, FreshInode
<1>17. Linked(g, u)
  <2>1. NamesOf(g, u) # {}
    BY <1>13, NamesOfFinite
  <2> QED BY <1>13, <1>16, <2>1 DEF Linked
<1>18. ReadDirectory(g, u) = <<>>
  <2>1. ReadDirectory(iFile, u) = <<>>
    BY <1>6 DEF ReadDirectory
  <2>2. u # dir
    BY <1>3, <2>1 DEF list
  <2> QED BY <1>9, <1>11, <2>1, <2>2
<1>19. \A d \in INums : UniqueNames(ReadDirectory(g, d))
  <2>1. list \in Seq(Entry)
    BY <1>1, ReadDirectoryType DEF list
  <2>2. UniqueNames(list)
    BY <1>3 DEF Exact, list
  <2>3. UniqueNames(AddFile(list, name, u))
    BY <1>4, <2>1, <2>2, AddedUnique
  <2> QED BY <1>9, <1>11, <2>3 DEF Exact
<1>20. ASSUME NEW d \in INums \ {u}, g[d].inUse, g[d].fileType = "Directory"
       PROVE  ReadDirectory(g, d) # <<>>
  <2>1. ReadDirectory(iFile, d) # <<>>
    BY <1>15, <1>20 DEF Exact, SameInode
  <2>2. AddFile(list, name, u) # <<>>
    BY <1>1, ReadDirectoryType, AddedNotEmpty DEF list
  <2> QED BY <1>9, <1>11, <2>1, <2>2
<1>21. \A i \in INums \ {u} : Cardinality(NamesOf(g, i)) = Cardinality(NamesOf(iFile, i))
  BY <1>12
<1> QED BY <1>5, <1>6, <1>7, <1>11, <1>15, <1>16, <1>17, <1>18, <1>19, <1>20, <1>21 DEF created

LEMMA CreateRefusedLapses ==
    ASSUME TypeOK, Tree(iFile), NEW path \in NewPaths, CanCreate(path),
           NEW fileType \in FileTypes, NEW ok,
           CreateRefused(CreateFile(path, fileType, ok), ok)
    PROVE  history' # <<>>
<1>1. ~ok[2]
  BY CreateRefusedIs
<1>2. PICK others : Record(ok, others)
  BY ListRefusedRecords DEF CreateRefused
<1> QED BY <1>1, <1>2, TypeOKFacts, RecordClean

LEMMA CreateExact ==
    ASSUME TypeOK, Tree(iFile), Exact(iFile), NEW path \in NewPaths,
           Fuse_Create(path) \/ Fuse_Symlink(path), history' = <<>>
    PROVE  history = <<>> /\ Exact(iFile')
<1>1. CanCreate(path) /\ iFile \in IFile /\ history \in Seq(SUBSET LapseKinds)
  BY TypeOKFacts DEF Fuse_Create, Fuse_Symlink
<1>2. PICK fileType \in {"File", "Symlink"} :
        \E ok : Record(ok, {}) /\ iFile' = CreateFile(path, fileType, ok).iFile
  <2>0. ASSUME NEW fileType \in {"File", "Symlink"}, NEW ok,
               CreateRefused(CreateFile(path, fileType, ok), ok)
        PROVE  FALSE
    BY <1>1, <2>0, CreateRefusedLapses DEF FileTypes
  <2>1. CASE Fuse_Create(path)
    BY <2>0, <2>1 DEF Fuse_Create, Directory_Create
  <2>2. CASE Fuse_Symlink(path)
    BY <2>0, <2>2 DEF Fuse_Symlink, Directory_Symlink
  <2> QED BY <2>1, <2>2
<1>3. PICK ok : Record(ok, {}) /\ iFile' = CreateFile(path, fileType, ok).iFile
  BY <1>2
<1>4. history = <<>> /\ ok[1] /\ ok[2]
  BY <1>1, <1>3, RecordClean
<1> DEFINE created == CreateFile(path, fileType, ok)
           u == created.inum
           g == created.iFile
<1>5. fileType \in FileTypes /\ fileType # "Directory"
  BY DEF FileTypes
<1>6. /\ u \in INums /\ u # ROOT_DIRECTORY_INUM /\ g \in IFile
      /\ \A i \in INums \ {u} : SameInode(iFile, g, i)
      /\ \A i \in INums \ {u} : Cardinality(NamesOf(g, i)) = Cardinality(NamesOf(iFile, i))
      /\ g[u].fileType = fileType /\ Linked(g, u)
      /\ \A d \in INums : UniqueNames(ReadDirectory(g, d))
      /\ \A d \in INums \ {u} :
           g[d].inUse /\ g[d].fileType = "Directory" => ReadDirectory(g, d) # <<>>
  BY <1>1, <1>4, <1>5, CreateFileExact
<1> HIDE DEF u, g
<1>7. Exact(g)
  <2>1. \A d \in INums :
          g[d].inUse /\ g[d].fileType = "Directory" => ReadDirectory(g, d) # <<>>
    BY <1>5, <1>6
  <2> QED BY <1>1, <1>6, <2>1, ExactButOne DEF SameInode
<1> QED BY <1>3, <1>4, <1>7 DEF g

LEMMA MkdirExact ==
    ASSUME TypeOK, Tree(iFile), Exact(iFile), NEW path \in NewPaths, Fuse_Mkdir(path),
           history' = <<>>
    PROVE  history = <<>> /\ Exact(iFile')
<1>1. CanCreate(path) /\ iFile \in IFile /\ history \in Seq(SUBSET LapseKinds)
  BY TypeOKFacts DEF Fuse_Mkdir
<1>2. PICK ok : Directory_Mkdir(path, ok)
  BY DEF Fuse_Mkdir
<1> DEFINE created == CreateFile(path, "Directory", ok)
           u == created.inum
           g == created.iFile
           h == Written(g, u, DirectoryList(u))
<1>3. /\ Record(ok, {})
      /\ iFile' = IF created.created THEN WriteDirectory(g, u, DirectoryList(u), ok[3]) ELSE g
  <2>1. ~CreateRefused(created, ok)
    BY <1>1, CreateRefusedLapses DEF FileTypes
  <2> QED BY <1>2, <2>1 DEF Directory_Mkdir
<1>4. history = <<>> /\ ok[1] /\ ok[2] /\ ok[3]
  BY <1>1, <1>3, RecordClean
<1>5. "Directory" \in FileTypes
  BY DEF FileTypes
<1>6. /\ created.created
      /\ u \in INums /\ u # ROOT_DIRECTORY_INUM /\ g \in IFile /\ Tree(g)
      /\ \A i \in INums \ {u} : SameInode(iFile, g, i)
      /\ \A i \in INums \ {u} : Cardinality(NamesOf(g, i)) = Cardinality(NamesOf(iFile, i))
      /\ g[u].inUse /\ g[u].fileType = "Directory" /\ Linked(g, u)
      /\ ReadDirectory(g, u) = <<>>
      /\ \A d \in INums : UniqueNames(ReadDirectory(g, d))
      /\ \A d \in INums \ {u} :
           g[d].inUse /\ g[d].fileType = "Directory" => ReadDirectory(g, d) # <<>>
  BY <1>1, <1>4, <1>5, CreateFileExact
<1> HIDE DEF created, u, g
<1>7. iFile' = h
  BY <1>3, <1>4, <1>6 DEF WriteDirectory, Written
<1>8. h \in IFile /\ Tree(h)
  BY <1>6, DirectoryListType, WrittenType, DotListOK, WrittenTree
<1>9. /\ ReadDirectory(h, u) = DirectoryList(u)
      /\ \A d : d # u => ReadDirectory(h, d) = ReadDirectory(g, d)
  BY <1>6, WrittenLists
<1>10. \A i \in INums : SameInode(g, h, i)
  BY <1>6, WrittenKeeps DEF SameInode
<1>11. Len(DirectoryList(u)) = 2 /\ DirectoryList(u) # <<>>
  BY DEF DirectoryList
<1> HIDE DEF h
<1>12. \A i : NamesOf(h, i) = NamesOf(g, i)
  <2> TAKE i
  <2>1. \A d \in INums : \/ ReadDirectory(h, d) = ReadDirectory(g, d)
                         \/ Len(ReadDirectory(h, d)) <= 2 /\ Len(ReadDirectory(g, d)) <= 2
    <3> TAKE d \in INums
    <3>1. CASE d = u
      <4>1. Len(ReadDirectory(h, d)) = 2 /\ Len(ReadDirectory(g, d)) = 0
        BY <1>6, <1>9, <1>11, <3>1
      <4> QED BY <4>1
    <3>2. CASE d # u
      BY <1>9, <3>2
    <3> QED BY <3>1, <3>2
  <2> QED BY <1>6, <1>8, <2>1, SmallListsNames
<1>13. UniqueNames(DirectoryList(u))
  BY DEF UniqueNames, DirectoryList
<1>14. \A d \in INums : UniqueNames(ReadDirectory(h, d))
  BY <1>6, <1>9, <1>13
<1>15. \A d \in INums : h[d].inUse /\ h[d].fileType = "Directory" => ReadDirectory(h, d) # <<>>
  BY <1>6, <1>9, <1>10, <1>11 DEF SameInode
<1>16. Linked(h, u)
  BY <1>6, <1>10, <1>12 DEF Linked, SameInode
<1>17. \A i \in INums \ {u} : SameInode(iFile, h, i)
  BY <1>6, <1>10 DEF SameInode
<1>18. \A i \in INums \ {u} : Cardinality(NamesOf(h, i)) = Cardinality(NamesOf(iFile, i))
  BY <1>6, <1>12
<1>19. Exact(h)
  BY <1>1, <1>6, <1>8, <1>14, <1>15, <1>16, <1>17, <1>18, ExactButOne DEF SameInode
<1> QED BY <1>4, <1>7, <1>19

\* The path of the new name does not go through the old one.
LEMMA RenameKeepsTarget ==
    ASSUME NEW f \in IFile, Tree(f), Exact(f), NEW from \in Paths, NEW to \in Paths,
           ~IsPrefix(from, to), GetINum(f, from) # INUM_NOT_FOUND
    PROVE  GetINum(Removed(f, GetINum(f, Front(from)), Last(from)), Front(to)) = GetINum(f, Front(to))
<1> DEFINE dir == GetINum(f, Front(from))
           name == Last(from)
           g == Removed(f, dir, name)
           above == Front(from)
           target == Front(to)
<1>1. /\ above \in Seq(PathNames) /\ target \in Seq(PathNames)
      /\ Len(from) \in Nat \ {0} /\ Len(to) \in Nat \ {0}
      /\ from \in Seq(PathNames) /\ to \in Seq(PathNames)
      /\ Len(above) = Len(from) - 1 /\ Len(target) = Len(to) - 1
      /\ \A n \in 1 .. Len(from) - 1 : above[n] = from[n]
      /\ \A n \in 1 .. Len(to) - 1 : target[n] = to[n]
      /\ name = from[Len(from)] /\ name \in PathNames /\ name \notin Dots
  BY PathFacts, NameFacts
<1>2. PICK w : IsWalk(f, target, w)
  BY <1>1, WalkExists
<1>3. PICK v : IsWalk(f, above, v)
  BY <1>1, WalkExists
<1>4. dir = v[Len(above)]
  BY <1>1, <1>3, WalkIsGetINum
<1>5. ReadDirectory(f, dir) # <<>>
  BY FoundEntry
<1>6. g \in IFile /\ Removes(f, g, dir, name)
  BY <1>1, <1>5, RemovedTree
<1> HIDE DEF dir, name, g, above, target
<1>7. ASSUME NEW n \in 1 .. Len(target), w[n - 1] = dir, target[n] = name PROVE FALSE
  <2>1. n - 1 \in 0 .. Len(target) /\ Len(above) \in 0 .. Len(above)
    BY <1>1
  <2>2. n - 1 = Len(above) /\ SameUpTo(target, above, n - 1)
    <3> DEFINE a == n - 1
               b == Len(above)
    <3>1. a \in 0 .. Len(target) /\ b \in 0 .. Len(above)
      BY <2>1
    <3>2. w[a] = v[b] /\ ReadDirectory(f, w[a]) # <<>>
      BY <1>4, <1>5, <1>7
    <3>3. above \in Seq(PathNames) /\ target \in Seq(PathNames)
      BY <1>1
    <3> HIDE DEF a, b
    <3>4. a = b
      BY <1>2, <1>3, <3>1, <3>2, <3>3, UniqueWalks
    <3>5. SameUpTo(target, above, a)
      BY <1>2, <1>3, <3>1, <3>2, <3>3, UniqueWalks
    <3> QED BY <3>4, <3>5 DEF a, b
  <2>3. n = Len(from) /\ Len(from) <= Len(to)
    BY <1>1, <2>2
  <2>4. \A k \in 1 .. Len(from) : to[k] = from[k]
    <3> TAKE k \in 1 .. Len(from)
    <3>1. CASE k = Len(from)
      BY <1>1, <1>7, <2>3, <3>1
    <3>2. CASE k # Len(from)
      <4>1. k \in 1 .. n - 1 /\ k \in 1 .. Len(from) - 1 /\ k \in 1 .. Len(to) - 1
        BY <1>1, <2>3, <3>2
      <4>2. target[k] = above[k]
        BY <2>2, <4>1 DEF SameUpTo
      <4> QED BY <1>1, <4>1, <4>2
    <3> QED BY <3>1, <3>2
  <2>5. SubSeq(from, 1, Len(from)) = SubSeq(to, 1, Len(from))
    <3>1. /\ SubSeq(from, 1, Len(from)) = [k \in 1 .. Len(from) |-> from[k]]
          /\ SubSeq(to, 1, Len(from)) = [k \in 1 .. Len(from) |-> to[k]]
      BY <1>1
    <3> QED BY <2>4, <3>1
  <2> QED BY <2>3, <2>5 DEF IsPrefix
<1>8. GetINum(g, target) = GetINum(f, target)
  BY <1>1, <1>2, <1>6, <1>7, RemovesKeepsWalk
<1> QED BY <1>8 DEF dir, name, g, target

LEMMA RenameExact ==
    ASSUME TypeOK, Tree(iFile), Exact(iFile),
           NEW from \in Paths, NEW to \in NewPaths, KernelFinds(from),
           KernelFindsDirectory(GetDirectoryPath(to)),
           Fuse_Rename(from, to), history' = <<>>
    PROVE  history = <<>> /\ Exact(iFile')
<1> DEFINE inum == GetINum(iFile, from)
           dir == GetINum(iFile, Front(from))
           removed == Removed(iFile, dir, Last(from))
           toDir == GetINum(iFile, Front(to))
           toName == Last(to)
           toList == ReadDirectory(removed, toDir)
           g == Added(removed, toDir, toName, inum)
<1>1. /\ iFile \in IFile /\ history \in Seq(SUBSET LapseKinds) /\ toName \in PathNames
      /\ to \in Paths /\ Front(to) \in Seq(PathNames)
  BY TypeOKFacts, NewPathFacts, PathFacts
<1>2. /\ inum # INUM_NOT_FOUND /\ ~IsPrefix(from, to)
      /\ toDir # INUM_NOT_FOUND /\ iFile[toDir].fileType = "Directory"
  BY DEF Fuse_Rename, KernelRenames, KernelFindsDirectory, KernelFinds, KernelType, GetDirectoryPath
<1>3. \E ok, others :
        /\ Record(ok, others)
        /\ \/ iFile' = iFile
           \/ iFile' = removed /\ ~(ok[1] /\ ok[2] /\ Readable(removed, GetINum(removed, Front(to))))
           \/ /\ iFile' = g
              /\ toList # <<>> /\ Len(toList) < MaxEntries
              /\ ContainsFile(toList, toName) => "renamed over" \in others
           \/ others # {}
  BY RenameIs
<1>4. /\ inum \in INums /\ inum # ROOT_DIRECTORY_INUM
      /\ iFile[inum].inUse /\ TakenFrom(iFile, removed, inum)
  BY <1>1, <1>2, TakenName
<1>5. toDir \in INums /\ ReadDirectory(iFile, toDir) # <<>>
  BY <1>1, <1>2, DirectoryReadable
<1>6. GetINum(removed, Front(to)) = toDir
  BY <1>1, <1>2, RenameKeepsTarget
<1> HIDE DEF inum, dir, removed, toDir, toName, g
<1>7. PICK ok, others :
        /\ Record(ok, others)
        /\ \/ iFile' = iFile
           \/ iFile' = removed /\ ~(ok[1] /\ ok[2] /\ Readable(removed, GetINum(removed, Front(to))))
           \/ /\ iFile' = g
              /\ toList # <<>> /\ Len(toList) < MaxEntries
              /\ ContainsFile(toList, toName) => "renamed over" \in others
           \/ others # {}
  BY <1>3
<1>8. history = <<>> /\ others = {} /\ ok[1] /\ ok[2]
  BY <1>1, <1>7, RecordClean
<1>9. Readable(removed, GetINum(removed, Front(to)))
  BY <1>4, <1>5, <1>6 DEF Readable, TakenFrom
<1>10. CASE iFile' # iFile
  <2>1. /\ iFile' = g /\ toList # <<>> /\ Len(toList) < MaxEntries
        /\ ~ContainsFile(toList, toName)
    BY <1>7, <1>8, <1>9, <1>10
  <2>2. /\ removed \in IFile /\ Tree(removed)
        /\ \A d \in INums : UniqueNames(ReadDirectory(removed, d))
        /\ \A i \in INums \ {inum} :
             Cardinality(NamesOf(removed, i)) = Cardinality(NamesOf(iFile, i))
        /\ Cardinality(NamesOf(removed, inum)) = Cardinality(NamesOf(iFile, inum)) - 1
        /\ \A d \in INums : ReadDirectory(iFile, d) # <<>> => ReadDirectory(removed, d) # <<>>
        /\ \A i \in INums : SameInode(iFile, removed, i)
    BY <1>4 DEF TakenFrom
  <2>3. /\ g \in IFile
        /\ ReadDirectory(g, toDir) = AddFile(toList, toName, inum)
        /\ \A d : d # toDir => ReadDirectory(g, d) = ReadDirectory(removed, d)
    BY <1>1, <1>4, <2>1, <2>2, AddedTree DEF g
  <2>4. ASSUME NEW i, i # inum PROVE NamesOf(g, i) = NamesOf(removed, i)
    BY <1>1, <1>4, <2>1, <2>2, <2>4, AddedNames DEF g
  <2>5. Cardinality(NamesOf(g, inum)) = Cardinality(NamesOf(iFile, inum))
    <3>1. Cardinality(NamesOf(g, inum)) = Cardinality(NamesOf(removed, inum)) + 1
      BY <1>1, <1>4, <2>1, <2>2, AddedNames DEF g
    <3>2. Cardinality(NamesOf(iFile, inum)) \in Nat
      BY NamesOfFinite
    <3> QED BY <2>2, <3>1, <3>2
  <2>6. \A i \in INums : SameInode(iFile, g, i)
    <3>1. \A i \in INums : SameInode(removed, g, i)
      BY <2>2, WrittenKeeps DEF g, Added, SameInode
    <3> QED BY <2>2, <3>1 DEF SameInode
  <2>7. Linked(g, inum)
    <3>1. Linked(iFile, inum)
      BY <1>4 DEF Exact
    <3>2. NamesOf(g, inum) = {} <=> NamesOf(iFile, inum) = {}
      <4>1. /\ Cardinality(NamesOf(g, inum)) = 0 <=> NamesOf(g, inum) = {}
            /\ Cardinality(NamesOf(iFile, inum)) = 0 <=> NamesOf(iFile, inum) = {}
        BY NamesOfFinite
      <4> QED BY <2>5, <4>1
    <3>3. SameInode(iFile, g, inum)
      BY <1>4, <2>6
    <3> QED BY <1>4, <2>5, <3>1, <3>2, <3>3 DEF Linked, SameInode
  <2>8. \A d \in INums : UniqueNames(ReadDirectory(g, d))
    <3>1. toList \in Seq(Entry)
      BY <2>2, ReadDirectoryType
    <3>2. UniqueNames(toList)
      BY <1>5, <2>2
    <3> HIDE DEF toList
    <3>3. UniqueNames(AddFile(toList, toName, inum))
      BY <2>1, <3>1, <3>2, AddedUnique
    <3> QED BY <2>2, <2>3, <3>3
  <2>9. ASSUME NEW d \in INums, g[d].inUse, g[d].fileType = "Directory"
        PROVE  ReadDirectory(g, d) # <<>>
    <3>1. ReadDirectory(removed, d) # <<>>
      BY <2>2, <2>6, <2>9 DEF Exact, SameInode
    <3>2. AddFile(toList, toName, inum) # <<>>
      BY <2>2, ReadDirectoryType, AddedNotEmpty
    <3> QED BY <2>3, <3>1, <3>2
  <2>10. \A i \in INums \ {inum} : Cardinality(NamesOf(g, i)) = Cardinality(NamesOf(iFile, i))
    BY <2>2, <2>4
  <2>11. Exact(g)
    BY <1>1, <1>4, <2>3, <2>6, <2>7, <2>8, <2>9, <2>10, ExactButOne DEF SameInode
  <2> QED BY <1>8, <2>1, <2>11
<1> QED BY <1>8, <1>10

----------------------------------------------------------------------------

\* Names and link counts: the invariant.
ExactInv == TypeOK /\ Tree(iFile) /\ (history = <<>> => Exact(iFile))

LEMMA ExactStep == ExactInv /\ LinkRoom /\ [Next]_vars => ExactInv'
<1> SUFFICES ASSUME ExactInv, LinkRoom, [Next]_vars PROVE ExactInv'
  OBVIOUS
<1>0. TypeOK /\ Tree(iFile) /\ TypeOK' /\ Tree(iFile')
  BY NextType, TreeStep DEF ExactInv
<1> SUFFICES ASSUME history' = <<>> PROVE Exact(iFile')
  BY <1>0 DEF ExactInv
<1>1. CASE UNCHANGED vars
  BY <1>1 DEF ExactInv, vars
<1>2. CASE Next
  <2>1. history = <<>>
    <3>1. CASE history' = history
      BY <3>1
    <3>2. ASSUME NEW ok, NEW others, Record(ok, others) PROVE history = <<>>
      BY <1>0, <3>2, TypeOKFacts, RecordClean
    <3> QED BY <1>2, <3>1, <3>2, NextRecords
  <2>2. Exact(iFile)
    BY <2>1 DEF ExactInv
  <2>3. ASSUME NEW path \in NewPaths, Fuse_Create(path) \/ Fuse_Symlink(path) PROVE Exact(iFile')
    BY <1>0, <2>2, <2>3, CreateExact
  <2>4. ASSUME NEW path \in NewPaths, Fuse_Mkdir(path) PROVE Exact(iFile')
    BY <1>0, <2>2, <2>4, MkdirExact
  <2>5. ASSUME NEW path \in Paths, Fuse_Unlink(path) PROVE Exact(iFile')
    BY <1>0, <2>2, <2>5, UnlinkExact DEF Fuse_Unlink
  <2>6. ASSUME NEW path \in Paths, Fuse_Rmdir(path) PROVE Exact(iFile')
    <3>1. CASE IsEmpty(ReadDirectory(iFile, GetINum(iFile, path)))
      <4>1. Len(ReadDirectory(iFile, GetINum(iFile, path))) <= 2
        BY <3>1 DEF IsEmpty
      <4> QED BY <1>0, <2>2, <2>6, <3>1, <4>1, UnlinkExact
                DEF Fuse_Rmdir, Directory_Rmdir, KernelFindsDirectory
    <3>2. CASE ~IsEmpty(ReadDirectory(iFile, GetINum(iFile, path)))
      BY <2>2, <2>6, <3>2 DEF Fuse_Rmdir, Directory_Rmdir, vars
    <3> QED BY <3>1, <3>2
  <2>7. ASSUME NEW from \in Paths, NEW to \in NewPaths, KernelFinds(from),
               KernelFindsDirectory(GetDirectoryPath(to)), Fuse_Link(from, to)
        PROVE Exact(iFile')
    BY <1>0, <2>2, <2>7, LinkExact
  <2>8. ASSUME NEW from \in Paths, NEW to \in NewPaths, KernelFinds(from),
               KernelFindsDirectory(GetDirectoryPath(to)), Fuse_Rename(from, to)
        PROVE Exact(iFile')
    BY <1>0, <2>2, <2>8, RenameExact
  <2> QED BY <1>2, <2>3, <2>4, <2>5, <2>6, <2>7, <2>8 DEF Next, Known, Places
<1> QED BY <1>1, <1>2

LEMMA InitExact == Init => ExactInv
<1> SUFFICES ASSUME Init PROVE Exact(iFile)
  BY InitType, InitTree DEF ExactInv
<1> DEFINE rootList == AddFile(DirectoryList(ROOT_DIRECTORY_INUM), ".ifile", IFILE_INUM)
<1>1. /\ iFile[ROOT_DIRECTORY_INUM].inUse
      /\ iFile[ROOT_DIRECTORY_INUM].fileType = "Directory"
      /\ iFile[ROOT_DIRECTORY_INUM].entries = rootList
      /\ \A i \in INums \ {IFILE_INUM, ROOT_DIRECTORY_INUM} : ~iFile[i].inUse
      /\ iFile[IFILE_INUM].inUse /\ iFile[IFILE_INUM].fileType = "File"
      /\ iFile[IFILE_INUM].nlinks = 1
  BY NumberFacts DEF Init
<1>2. \A i \in INums : NamesOf(iFile, i)
                         = IF i = IFILE_INUM THEN {<<ROOT_DIRECTORY_INUM, 3>>} ELSE {}
  BY InitNames
<1>3. \A i \in INums \ {ROOT_DIRECTORY_INUM} : Linked(iFile, i)
  <2> TAKE i \in INums \ {ROOT_DIRECTORY_INUM}
  <2>1. CASE i = IFILE_INUM
    <3>1. Cardinality({<<ROOT_DIRECTORY_INUM, 3>>}) = 1
      BY FS_Singleton
    <3>2. NamesOf(iFile, i) = {<<ROOT_DIRECTORY_INUM, 3>>}
      BY <1>2, <2>1
    <3> QED BY <1>1, <2>1, <3>1, <3>2 DEF Linked
  <2>2. CASE i # IFILE_INUM
    BY <1>1, <1>2, <2>2 DEF Linked
  <2> QED BY <2>1, <2>2
<1>4. UniqueNames(rootList)
  BY DEF UniqueNames, AddFile, DirectoryList
<1>5. rootList # <<>>
  BY DEF AddFile, DirectoryList
<1> HIDE DEF rootList
<1>6. \A d \in INums : UniqueNames(ReadDirectory(iFile, d))
  <2>1. UniqueNames(<<>>)
    BY DEF UniqueNames
  <2>2. \A d \in INums : ReadDirectory(iFile, d) \in {<<>>, rootList}
    BY <1>1 DEF ReadDirectory
  <2> QED BY <1>4, <2>1, <2>2
<1>7. \A d \in INums : iFile[d].inUse /\ iFile[d].fileType = "Directory"
                         => ReadDirectory(iFile, d) # <<>>
  BY <1>1, <1>5 DEF ReadDirectory
<1>8. NamesOf(iFile, ROOT_DIRECTORY_INUM) = {}
  BY <1>2, NumberFacts
<1> QED BY <1>1, <1>3, <1>6, <1>7, <1>8 DEF Exact

LEMMA ExactCountsLinks == ExactInv => LinksMatchNames
BY DEF ExactInv, Exact, Linked, LinksMatchNames

\* While every write succeeds, nothing is renamed over another name and no
\* symlink gets a hard link, the requests of Directory keep the ifile and the
\* directories in step: an inode is in use exactly when a directory names it,
\* and nlinks counts those names, as long as no link count reaches the end of
\* an nlink_t.  Directory_Rename takes the old name away before it looks the
\* new directory up: that the directory is still found is part of the proof.
THEOREM LinksCountNames == Spec /\ []LinkRoom => []LinksMatchNames
<1>1. Init => ExactInv
  BY InitExact
<1>2. ExactInv /\ LinkRoom /\ [Next]_vars => ExactInv'
  BY ExactStep
<1>3. ExactInv => LinksMatchNames
  BY ExactCountsLinks
<1> QED BY <1>1, <1>2, <1>3, PTL DEF Spec

=============================================================================
