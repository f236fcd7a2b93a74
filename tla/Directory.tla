------------------------------ MODULE Directory ------------------------------
(***************************************************************************)
(* The directory layer (layers/directory.hpp, data_structures/             *)
(* directory_list.hpp) over the inodes of the file layer (layers/file.hpp).*)
(*                                                                         *)
(* A directory is a file holding a list of (name, inum) pairs; every       *)
(* request that changes the tree is a sequence of separate file layer      *)
(* writes: an inode in the ifile, a directory's list, a link count.  Each  *)
(* of them may be refused (a full or worn flash), and none is undone when  *)
(* a later one fails.  lfs_main mounts with -s, so requests do not         *)
(* overlap: one request is one action, ok[k] saying whether its k-th write *)
(* succeeded.  A refused write leaves the old inode, and an inode of the   *)
(* ifile then keeps what it held.  A list need not: File_Write frees each  *)
(* of its blocks before it writes the new one, and when the old one was in *)
(* the tail the new one may go into the same slot, where the old inode     *)
(* finds it.  The list may be the old one, the new one, or some blocks of  *)
(* each (Leavings).                                                        *)
(*                                                                         *)
(* Requests come from the kernel, which looks paths up through getattr     *)
(* before it sends them (Kernel* below, external).                         *)
(***************************************************************************)
EXTENDS Integers, Sequences, FiniteSets, FiniteSetsExt, SequencesExt

CONSTANTS
  Names,          \* the names clients give to files
  MaxINum,        \* bound: the highest inum the ifile grows to
  MaxDepth,       \* bound: the longest path in a request
  MaxEntries,     \* bound: the longest list a directory grows to
  LinkModulus,    \* nlinks is an nlink_t and wraps at this value
  MaxLapses,      \* bound: how many requests of a behaviour have a lapse
  WritesMayFail   \* whether the file layer may refuse a write

\* The kernel takes "." and ".." out of a path; no part of one is empty.
ASSUME DirectoryAssumption ==
  /\ Names \cap {".", "..", ""} = {}
  /\ MaxINum \in Nat \ {0}
  /\ MaxDepth \in Nat \ {0}
  /\ MaxEntries \in Nat /\ MaxEntries > 2
  /\ MaxLapses \in Nat
  /\ LinkModulus \in Nat /\ LinkModulus > 3
  /\ WritesMayFail \in BOOLEAN

VARIABLES
  iFile,          \* the inodes, with the list of those that are directories
  history         \* the lapses so far, one set for each request that had any

vars == <<iFile, history>>

IFILE_INUM == 0
ROOT_DIRECTORY_INUM == 1
INUM_NOT_FOUND == MaxINum + 1
INums == IFILE_INUM .. MaxINum

Dots == {".", ".."}
ZeroEntry == [name |-> "", inum |-> 0]
FileTypes == {"File", "Directory", "Symlink"}

\* The paths in requests: clients choose names, and find .ifile in the root.
NewPaths == UNION {[1 .. n -> Names] : n \in 1 .. MaxDepth}
Paths == NewPaths \cup {<<".ifile">>}

-----------------------------------------------------------------------------
(* DirectoryList *)

DirectoryList(inum) ==
  <<[name |-> ".", inum |-> inum], [name |-> "..", inum |-> inum]>>

AddFile(list, name, inum) == Append(list, [name |-> name, inum |-> inum])

Kept(list, name) == {i \in 1 .. Len(list) : list[i].name # name}

\* copyIndex, from 1: where an entry that is kept goes.
CopyIndex(kept, i) == Cardinality({k \in kept : k <= i})

\* Every entry of that name goes, while the size drops by one: with several,
\* zeroed entries are left at the end.  (SubSeq has TLC evaluate the list once.)
RemoveFile(list, name) ==
  LET kept == Kept(list, name)
      Moved(j) == IF \E i \in kept : CopyIndex(kept, i) = j
                    THEN list[CHOOSE i \in kept : CopyIndex(kept, i) = j]
                    ELSE ZeroEntry
  IN IF name \in Dots \/ kept = 1 .. Len(list)
       THEN list
       ELSE SubSeq([j \in 1 .. Len(list) - 1 |-> Moved(j)], 1, Len(list) - 1)

ContainsFile(list, name) == \E i \in 1 .. Len(list) : list[i].name = name

\* The first entry of that name.
EntryINum(list, name) ==
  list[Min({i \in 1 .. Len(list) : list[i].name = name})].inum

\* Mutant: a directory with one file counts as empty.
IsEmptyUpToOne(list) == Len(list) <= 3 /\ \A n \in Dots : ContainsFile(list, n)

IsEmpty(list) == Len(list) = 2 /\ \A n \in Dots : ContainsFile(list, n)

-----------------------------------------------------------------------------
(* The file layer, as far as the directory layer sees it *)

\* The ifile's own inode lives in the log layer and its update never fails.
UpdateIFile(f, inum, inode, ok) ==
  IF ok \/ inum = IFILE_INUM THEN [f EXCEPT ![inum] = inode] ELSE f

Unused(f) == {i \in INums \ {IFILE_INUM} : ~f[i].inUse}

GetUnusedINum(f) == Min(Unused(f))

File_Create(f, fileType, ok) ==
  UpdateIFile(f, GetUnusedINum(f),
              [inUse |-> TRUE, fileType |-> fileType, nlinks |-> 1, entries |-> <<>>],
              ok)

\* Type and link count of a freed inode stay in the ifile.
File_Free(f, inum, ok) ==
  UpdateIFile(f, inum, [f[inum] EXCEPT !.inUse = FALSE, !.entries = <<>>], ok)

File_AddLink(f, inum, ok) ==
  UpdateIFile(f, inum, [f[inum] EXCEPT !.nlinks = (@ + 1) % LinkModulus], ok)

File_RemoveLink(f, inum, ok, okFree) ==
  LET left == (f[inum].nlinks - 1) % LinkModulus
      g == UpdateIFile(f, inum, [f[inum] EXCEPT !.nlinks = left], ok)
  IN IF left = 0 THEN File_Free(g, inum, okFree) ELSE g

\* File_Free throws on the ifile, which ends the process.
FreesIFile(f, inum) == inum = IFILE_INUM /\ f[inum].nlinks = 1

-----------------------------------------------------------------------------
(* Paths *)

GetDirectoryPath(path) == Front(path)
GetLastPathElement(path) == Last(path)

\* ReadDirectory returns NULL for a file, a symlink, a freed inode and a
\* directory whose list was never written.
ReadDirectory(f, inum) ==
  IF inum \in INums /\ f[inum].fileType = "Directory" /\ f[inum].inUse
    THEN f[inum].entries
    ELSE <<>>

Readable(f, inum) == ReadDirectory(f, inum) # <<>>

Lookup(f, dir, name) ==
  LET list == ReadDirectory(f, dir)
  IN IF ContainsFile(list, name) THEN EntryINum(list, name) ELSE INUM_NOT_FOUND

GetINum(f, path) ==
  LET walk[n \in 0 .. Len(path)] ==
        IF n = 0 THEN ROOT_DIRECTORY_INUM ELSE Lookup(f, walk[n - 1], path[n])
  IN walk[Len(path)]

WriteDirectory(f, inum, list, ok) ==
  IF ok THEN [f EXCEPT ![inum].entries = list] ELSE f

\* Entries past the end of a list that was once longer: nobody clears them.
Leftovers == {ZeroEntry} \cup [name : Names, inum : INums]

\* The first n entries on flash when those in fresh are the new ones.
Mixture(old, new, n, fresh, beyond) ==
  [j \in 1 .. n |-> IF j \in fresh /\ j <= Len(new) THEN new[j]
                    ELSE IF j <= Len(old) THEN old[j] ELSE beyond]

\* What a list may be after its write was refused: its size, in the first
\* block, and each of its entries are the old or the new ones.  (The dots share
\* that block; an entry that straddles two blocks is taken whole.)
Leavings(old, new) ==
  {Mixture(old, new, n, fresh, beyond) :
    n \in {Len(old), Len(new)}, fresh \in SUBSET (3 .. MaxEntries), beyond \in Leftovers}

-----------------------------------------------------------------------------
(* The handlers *)

Outcomes ==
  IF WritesMayFail /\ Len(history) < MaxLapses
    THEN [1 .. 3 -> BOOLEAN]
    ELSE {[w \in 1 .. 3 |-> TRUE]}

\* The lapses of a request, in which the tree may come apart: a refused
\* write, a list left with entries of two, a link that was not counted, a hard
\* link to a symlink, a rename over an existing name, a throw.
LapseKinds ==
  {"refused", "torn", "uncounted", "symlink linked", "renamed over", "terminated"}

Record(ok, others) ==
  LET lapses == others \cup (IF \A w \in 1 .. 3 : ok[w] THEN {} ELSE {"refused"})
  IN history' = IF lapses = {} THEN history ELSE Append(history, lapses)

Had(kind) == \E r \in 1 .. Len(history) : kind \in history[r]

\* A request whose write of a list to dir is refused goes no further; seen is
\* what lapses if the new list is there all the same.
ListRefused(f, dir, list, ok, seen) ==
  LET old == ReadDirectory(f, dir) IN
  \E left \in Leavings(old, list) :
    /\ iFile' = [f EXCEPT ![dir].entries = left]
    /\ Record(ok, IF left = old THEN {} ELSE IF left = list THEN seen ELSE {"torn"})

\* The inode is made before the parent directory is looked up; nothing frees
\* it again when the directory is missing or cannot be written.
CreateFile(path, fileType, ok) ==
  LET inum == GetUnusedINum(iFile)
      made == File_Create(iFile, fileType, ok[1])
      dir == GetINum(made, GetDirectoryPath(path))
      listed == Readable(made, dir) /\ ok[2]
      list == AddFile(ReadDirectory(made, dir), GetLastPathElement(path), inum)
  IN [inum |-> inum, dir |-> dir, list |-> list,
      created |-> ok[1] /\ listed,
      listRefused |-> ok[1] /\ Readable(made, dir) /\ ~ok[2],
      iFile |-> IF ok[1] /\ listed THEN WriteDirectory(made, dir, list, TRUE) ELSE made]

CreateRefused(created, ok) ==
  created.listRefused /\ ListRefused(created.iFile, created.dir, created.list, ok, {})

Directory_Create(path, ok) ==
  LET created == CreateFile(path, "File", ok) IN
  \/ CreateRefused(created, ok)
  \/ ~created.listRefused /\ iFile' = created.iFile /\ Record(ok, {})

\* The target is the symlink's data, written to the inode just made.
Directory_Symlink(path, ok) ==
  LET created == CreateFile(path, "Symlink", ok) IN
  \/ CreateRefused(created, ok)
  \/ ~created.listRefused /\ iFile' = created.iFile /\ Record(ok, {})

\* Nobody looks at whether the new directory's own list was written; refused,
\* it is not there, as nothing of it was.
Directory_Mkdir(path, ok) ==
  LET created == CreateFile(path, "Directory", ok) IN
  \/ CreateRefused(created, ok)
  \/ /\ ~created.listRefused
     /\ iFile' = IF created.created
                   THEN WriteDirectory(created.iFile, created.inum,
                                       DirectoryList(created.inum), ok[3])
                   ELSE created.iFile
     /\ Record(ok, {})

\* Mutant: the link count is not raised.
LinkUncounted(from, to, ok) ==
  LET inum == GetINum(iFile, from)
      dir == GetINum(iFile, GetDirectoryPath(to))
      list == ReadDirectory(iFile, dir)
      linked == inum # INUM_NOT_FOUND /\ list # <<>> /\ ok[1]
  IN /\ iFile' = IF linked
                   THEN WriteDirectory(iFile, dir,
                          AddFile(list, GetLastPathElement(to), inum), TRUE)
                   ELSE iFile
     /\ Record(ok, {})

\* The name is written first; the result of File_AddLink is ignored.
Directory_Link(from, to, ok) ==
  LET inum == GetINum(iFile, from)
      dir == GetINum(iFile, GetDirectoryPath(to))
      list == ReadDirectory(iFile, dir)
      found == inum # INUM_NOT_FOUND /\ list # <<>>
      added == AddFile(list, GetLastPathElement(to), inum)
      named == WriteDirectory(iFile, dir, added, TRUE)
  IN \/ /\ found /\ ok[1]
        /\ iFile' = File_AddLink(named, inum, ok[2])
        /\ Record(ok,
             (IF ~ok[2] THEN {"uncounted"} ELSE {}) \cup
             (IF iFile[inum].fileType = "Symlink" THEN {"symlink linked"} ELSE {}))
     \/ found /\ ~ok[1] /\ ListRefused(iFile, dir, added, ok, {"uncounted"})
     \/ ~found /\ iFile' = iFile /\ Record(ok, {})

\* The inode a name led to after the name is gone: a symlink is freed
\* outright, anything else loses a link.
Forget(f, inum, ok) ==
  IF f[inum].fileType = "Symlink"
    THEN File_Free(f, inum, ok[2])
    ELSE File_RemoveLink(f, inum, ok[2], ok[3])

\* Mutant: the inode goes before the name.
UnlinkFreesFirst(path, ok) ==
  LET inum == GetINum(iFile, path)
      dir == GetINum(iFile, GetDirectoryPath(path))
      list == ReadDirectory(iFile, dir)
      name == GetLastPathElement(path)
      found == inum # INUM_NOT_FOUND /\ list # <<>> /\ name \notin Dots
  IN /\ iFile' = IF found
                   THEN WriteDirectory(Forget(iFile, inum, ok), dir, RemoveFile(list, name), ok[1])
                   ELSE iFile
     /\ Record(ok, {})

\* The list goes first, so that a refused write leaves an inode without a
\* name and not a name without an inode.
Directory_Unlink(path, ok) ==
  LET inum == GetINum(iFile, path)
      dir == GetINum(iFile, GetDirectoryPath(path))
      list == ReadDirectory(iFile, dir)
      name == GetLastPathElement(path)
      found == inum # INUM_NOT_FOUND /\ list # <<>> /\ name \notin Dots
      rest == RemoveFile(list, name)
      removed == WriteDirectory(iFile, dir, rest, TRUE)
      throws == FreesIFile(iFile, inum)
  IN \/ found /\ ok[1] /\ throws /\ iFile' = removed /\ Record(ok, {"terminated"})
     \/ found /\ ok[1] /\ ~throws /\ iFile' = Forget(removed, inum, ok) /\ Record(ok, {})
     \/ found /\ ~ok[1] /\ ListRefused(iFile, dir, rest, ok, {})
     \/ ~found /\ iFile' = iFile /\ Record(ok, {})

Directory_Rmdir(path, ok) ==
  IF IsEmpty(ReadDirectory(iFile, GetINum(iFile, path)))
    THEN Directory_Unlink(path, ok)
    ELSE UNCHANGED vars

\* Mutant: the old path is resolved after its name was removed.
RenameResolvesLate(from, to, ok) ==
  LET fromDir == GetINum(iFile, GetDirectoryPath(from))
      removed == WriteDirectory(iFile, fromDir,
                   RemoveFile(ReadDirectory(iFile, fromDir), GetLastPathElement(from)), TRUE)
      toDir == GetINum(removed, GetDirectoryPath(to))
  IN /\ iFile' = IF Readable(removed, toDir) /\ ok[2]
                   THEN WriteDirectory(removed, toDir,
                          AddFile(ReadDirectory(removed, toDir), GetLastPathElement(to),
                                  GetINum(removed, from)), TRUE)
                   ELSE removed
     /\ Record(ok, {})

\* The old name is gone from flash before the new one is tried.  An entry
\* that already has the new name stays where it is.
Directory_Rename(from, to, ok) ==
  LET inum == GetINum(iFile, from)
      fromDir == GetINum(iFile, GetDirectoryPath(from))
      fromName == GetLastPathElement(from)
      toName == GetLastPathElement(to)
      found == Readable(iFile, fromDir) /\ fromName \notin Dots
      rest == RemoveFile(ReadDirectory(iFile, fromDir), fromName)
      removed == WriteDirectory(iFile, fromDir, rest, TRUE)
      toDir == GetINum(removed, GetDirectoryPath(to))
      toList == ReadDirectory(removed, toDir)
      place == toList # <<>> /\ toName \notin Dots
      added == AddFile(toList, toName, inum)
      over == IF ContainsFile(toList, toName) THEN {"renamed over"} ELSE {}
  IN \/ /\ found /\ ok[1] /\ place /\ ok[2]
        /\ iFile' = WriteDirectory(removed, toDir, added, TRUE)
        /\ Record(ok, over)
     \/ found /\ ok[1] /\ place /\ ~ok[2] /\ ListRefused(removed, toDir, added, ok, over)
     \/ found /\ ok[1] /\ ~place /\ iFile' = removed /\ Record(ok, {})
     \/ found /\ ~ok[1] /\ ListRefused(iFile, fromDir, rest, ok, {})
     \/ ~found /\ iFile' = iFile /\ Record(ok, {})

-----------------------------------------------------------------------------
(* What the kernel checks, by lookup and getattr, before it sends a request *)

KernelFinds(path) == GetINum(iFile, path) # INUM_NOT_FOUND

KernelType(path) == iFile[GetINum(iFile, path)].fileType

KernelFindsDirectory(path) == KernelFinds(path) /\ KernelType(path) = "Directory"

KernelNew(path) == KernelFindsDirectory(GetDirectoryPath(path)) /\ ~KernelFinds(path)

\* No renaming into the renamed directory itself, onto another name of the
\* same file, or of a directory onto a file or the other way round.
KernelRenames(from, to) ==
  /\ ~IsPrefix(from, to)
  /\ KernelFinds(to) =>
       /\ GetINum(iFile, from) # GetINum(iFile, to)
       /\ (KernelType(from) = "Directory") = (KernelType(to) = "Directory")

\* A request with two paths is about a file that is there and a place in a
\* directory that is there.
Known == {path \in Paths : KernelFinds(path)}
Places == {path \in NewPaths : KernelFindsDirectory(GetDirectoryPath(path))}

Mounted == ~Had("terminated")

HasRoom(path) ==
  Len(ReadDirectory(iFile, GetINum(iFile, GetDirectoryPath(path)))) < MaxEntries

CanCreate(path) == KernelNew(path) /\ HasRoom(path) /\ Unused(iFile) # {}

Fuse_Create(path) == CanCreate(path) /\ \E ok \in Outcomes : Directory_Create(path, ok)

Fuse_Symlink(path) == CanCreate(path) /\ \E ok \in Outcomes : Directory_Symlink(path, ok)

Fuse_Mkdir(path) == CanCreate(path) /\ \E ok \in Outcomes : Directory_Mkdir(path, ok)

Fuse_Link(from, to) ==
  /\ KernelType(from) # "Directory"
  /\ ~KernelFinds(to) /\ HasRoom(to)
  /\ \E ok \in Outcomes : Directory_Link(from, to, ok)

Fuse_Unlink(path) ==
  /\ KernelFinds(path) /\ KernelType(path) # "Directory"
  /\ \E ok \in Outcomes : Directory_Unlink(path, ok)

Fuse_Rmdir(path) ==
  /\ KernelFindsDirectory(path)
  /\ \E ok \in Outcomes : Directory_Rmdir(path, ok)

Fuse_Rename(from, to) ==
  /\ KernelRenames(from, to) /\ HasRoom(to)
  /\ \E ok \in Outcomes : Directory_Rename(from, to, ok)

-----------------------------------------------------------------------------

\* The tree mklfs writes.
Init ==
  /\ iFile = [i \in INums |->
       CASE i = IFILE_INUM ->
              [inUse |-> TRUE, fileType |-> "File", nlinks |-> 1, entries |-> <<>>]
         [] i = ROOT_DIRECTORY_INUM ->
              [inUse |-> TRUE, fileType |-> "Directory", nlinks |-> 3,
               entries |-> AddFile(DirectoryList(i), ".ifile", IFILE_INUM)]
         [] OTHER ->
              [inUse |-> FALSE, fileType |-> "File", nlinks |-> 0, entries |-> <<>>]]
  /\ history = <<>>

Next ==
  /\ Mounted
  /\ \/ \E path \in NewPaths : Fuse_Create(path) \/ Fuse_Symlink(path) \/ Fuse_Mkdir(path)
     \/ \E path \in Paths : Fuse_Unlink(path) \/ Fuse_Rmdir(path)
     \/ \E from \in Known, to \in Places : Fuse_Link(from, to) \/ Fuse_Rename(from, to)
  /\ Len(history') <= MaxLapses

Spec == Init /\ [][Next]_vars

-----------------------------------------------------------------------------

\* The inodes are well formed and every entry holds an inum of the ifile or
\* that of an inode, never INUM_NOT_FOUND.
TypeOK ==
  /\ iFile \in [INums -> [inUse : BOOLEAN, fileType : FileTypes,
                          nlinks : 0 .. LinkModulus - 1,
                          entries : Seq([name : Names \cup Dots \cup {"", ".ifile"},
                                         inum : INums])]]
  /\ history \in Seq(SUBSET LapseKinds)

\* The places that name an inode, the two dots aside.
NamesOf(f, inum) ==
  {p \in INums \X (3 .. MaxEntries) :
     /\ p[2] <= Len(ReadDirectory(f, p[1]))
     /\ f[p[1]].entries[p[2]].inum = inum}

\* What lfsck looks for, over the whole tree: as long as every write succeeds,
\* nothing was renamed over another name and no symlink was hard linked, an
\* inode is in use exactly when a directory names it, and its link count is the
\* number of its names.
LinksMatchNames ==
  history = <<>> =>
    \A i \in INums \ {ROOT_DIRECTORY_INUM} :
      /\ iFile[i].inUse <=> NamesOf(iFile, i) # {}
      /\ iFile[i].inUse => iFile[i].nlinks = Cardinality(NamesOf(iFile, i))

\* Also with refused writes, whether they are seen or not, and with names
\* renamed over: no directory names an inode that is not in use (whose inum the
\* next file created would get), provided that no list was left with entries of
\* two, no link went uncounted and no symlink has two names.
NoDanglingEntries ==
  ~Had("torn") /\ ~Had("uncounted") /\ ~Had("symlink linked") =>
    \A i \in INums : ~iFile[i].inUse => NamesOf(iFile, i) = {}

\* A directory is only ever freed when it holds nothing but its dots,
\* whatever was refused or renamed over before.
OnlyEmptyDirectoriesGo ==
  [][\A d \in INums :
       Readable(iFile, d) /\ ~iFile'[d].inUse => Len(iFile[d].entries) = 2]_vars

=============================================================================
