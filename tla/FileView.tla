------------------------------ MODULE FileView ------------------------------
(***************************************************************************)
(* The invariant of the file layer: what lies in the log between two       *)
(* requests, seen as files.                                                *)
(*                                                                         *)
(* A view of the record fs has the inode M[i] of every file i, the address *)
(* A[i][b] and the data D[i][b] of each of its blocks, and the owner O[a]  *)
(* of every block of the log.  File IFILE_INUM is the ifile.               *)
(***************************************************************************)
EXTENDS FileLayer

StateFields == {"media", "full", "tail", "partial", "live", "aged", "table",
                "root", "iFileSize", "ckptINode", "writes", "saved", "lapses",
                "keeps", "leaked"}

LiveCounts == [DataSegments -> 0 .. UIntBlocks - 1]

\* The type of the record fs, as far as the log's own fields go.
FsTyped(g) ==
    /\ DOMAIN g = StateFields
    /\ DOMAIN g.tail = {"seg", "slots"}
    /\ g.full \subseteq DataSegments /\ g.aged \subseteq DataSegments
    /\ g.tail.seg \in DataSegments \cup {FLASH_FULL}
    /\ g.live \in LiveCounts
    /\ g.table.live \in LiveCounts
    /\ g.table.aged \subseteq DataSegments
    /\ g.iFileSize \in INums

\* And the type of what was promised.
ContentsTyped ==
    /\ DOMAIN contents = INums
    /\ \A i \in Promised : contents[i] \in Seq(Data \cup {Zero})

TypeInv == FsTyped(fs) /\ ContentsTyped

----------------------------------------------------------------------------
(* The log. *)

At(s, b) == [seg |-> s, blk |-> b]

BlockNumbers == 0 .. maxFileBlocks - 1
Numbers      == 0 .. MaxINum

\* What the log holds at an address.
SlotAt(g, a) == Slots(g, a.seg)[a.blk]

\* The blocks of segment s that are in L.
BlocksIn(L, s) == {b \in 1 .. SegBlocks : At(s, b) \in L}

\* What a summary says of its blocks can be looked up: a number of a file, and
\* one of its blocks.  A rewritten indirect block has its number in a segment.
Labels == {INDIRECT_BLOCK} \cup BlockNumbers \cup 1 .. SegBlocks
Labelled(slots) ==
    \A b \in 1 .. SegBlocks :
       slots[b] # NO_INUM => slots[b].inum \in Numbers /\ slots[b].fb \in Labels

\* The addresses of L are exactly the blocks in use: the segments on flash
\* count them, and the tail holds them.  The last block of the tail is empty:
\* a tail is written as soon as that one is filled.
Ledger(g, L) ==
    /\ FsTyped(g)
    /\ "cached" \notin g.lapses
    /\ L \subseteq Address
    /\ \A a \in L : a.seg \in g.full \cup {g.tail.seg}
    /\ DOMAIN g.media = DataSegments
    /\ \A s \in DataSegments : Labelled(g.media[s])
    /\ Labelled(g.tail.slots)
    /\ \A s \in DataSegments \ {g.tail.seg} :
          /\ g.live[s] = Cardinality(BlocksIn(L, s))
          /\ \A b \in BlocksIn(L, s) : g.media[s][b] # NO_INUM
    /\ g.tail.seg \in DataSegments =>
          /\ DOMAIN g.tail.slots = 1 .. SegBlocks
          /\ SegBlocks \in EmptyBlocks(g.tail.slots)
          /\ EmptyBlocks(g.tail.slots) = (1 .. SegBlocks) \ BlocksIn(L, g.tail.seg)

\* A request was refused, or the tail is read from the cache, and histories end.
Refused(g) == g.lapses \cap {"full", "dirty", "cached"} # {}

----------------------------------------------------------------------------
(* The files. *)

\* Who a block belongs to: <<i, b>> is block b of file i, and its indirect
\* block under the number INDIRECT_BLOCK.
Nobody == <<-1, 0>>
Leaked == <<-1, 1>>

InUse(O) == {a \in Address : O[a] # Nobody}

\* Inodes M, the addresses A of the blocks of every file, the owners O of the
\* blocks of the log and the blocks that were leaked agree: every block has
\* one owner, and every owner knows its blocks.
Tree(M, A, O, leaked) ==
    /\ M \in [Numbers -> INode] /\ \A i \in Numbers : M[i].inum = i
    /\ A \in [Numbers -> [BlockNumbers -> MaybeAddress]]
    /\ DOMAIN O = Address /\ leaked \subseteq Address
    /\ \A i \in Numbers, b \in BlockNumbers :
          /\ b < NDirect => A[i][b] = M[i].direct[b]
          /\ b >= NDirect /\ M[i].indirect = NoAddress => A[i][b] = NoAddress
          /\ A[i][b] # NoAddress => O[A[i][b]] = <<i, b>>
    /\ \A i \in Numbers :
          M[i].indirect # NoAddress => O[M[i].indirect] = <<i, INDIRECT_BLOCK>>
    /\ \A a \in leaked : O[a] = Leaked
    /\ \A a \in Address :
          \/ O[a] = Nobody
          \/ O[a] = Leaked /\ a \in leaked
          \/ \E i \in Numbers : M[i].indirect = a
          \/ \E i \in Numbers, b \in BlockNumbers : A[i][b] = a

\* Every block of a file is a block D of that file on the log, labelled with
\* its owner, and every indirect block is labelled with its file and holds the
\* addresses that A has.
Held(g, M, A, D) ==
    /\ D \in [Numbers -> [BlockNumbers -> FileBlock]]
    /\ \A i \in Numbers, b \in BlockNumbers :
          /\ A[i][b] = NoAddress => D[i][b] = ZeroBlock
          /\ A[i][b] # NoAddress =>
                SlotAt(g, A[i][b]) = [inum |-> i, fb |-> b, data |-> D[i][b]]
    /\ \A i \in Numbers :
          M[i].indirect # NoAddress =>
             /\ SlotAt(g, M[i].indirect).inum = i
             /\ SlotAt(g, M[i].indirect).data
                  = [c \in 0 .. NIndirect - 1 |-> A[i][NDirect + c]]

\* The log holds exactly the files of M, A and D and the leaked blocks.
View(g, M, A, D, O) ==
    Ledger(g, InUse(O)) /\ Tree(M, A, O, g.leaked) /\ Held(g, M, A, D)

MaxUnits == maxFileBlocks * BlockSize

\* Unit u of a file whose blocks hold data.
UnitOf(data, u) == data[u \div BlockSize][u % BlockSize]

\* The ifile holds the inode of file i.
HasEntry(M, A, D, i) ==
    /\ A[IFILE_INUM][(i - 1) \div BlockSize] # NoAddress
    /\ UnitOf(D[IFILE_INUM], i - 1) = M[i]

\* A file that was never created, or was freed, has no blocks, and any other
\* one has a block wherever it has data.
Sound(M, A, i, count) ==
    IF i <= count /\ M[i].inUse
    THEN /\ M[i].fileSize <= MaxUnits
         /\ \A u \in 0 .. M[i].fileSize - 1 : A[i][u \div BlockSize] # NoAddress
    ELSE /\ M[i].indirect = NoAddress
         /\ \A b \in BlockNumbers : A[i][b] = NoAddress

\* The state between two requests.
Settled(g, M, A, D, O) ==
    /\ View(g, M, A, D, O)
    /\ M[IFILE_INUM] = g.root /\ g.root.fileSize = g.iFileSize
    /\ \A j \in 1 .. g.iFileSize : HasEntry(M, A, D, j)
    /\ \A j \in INums : Sound(M, A, j, g.iFileSize)

----------------------------------------------------------------------------
(* The promises. *)

\* What can be read of file i is what units holds.
Matches(M, D, i, units) ==
    /\ M[i].inUse /\ units \in Seq(Unit)
    /\ units = [k \in 1 .. M[i].fileSize |-> UnitOf(D[i], k - 1)]

\* What is promised of file i holds: what it reads, or that there is none.
Stands(M, D, i, promise) ==
    \/ promise = NoFile /\ ~ M[i].inUse
    \/ Matches(M, D, i, promise)

\* The files there are read as promised, and there are no others.
Promises(g, M, D) ==
    \A i \in INums : IF i <= g.iFileSize THEN Stands(M, D, i, contents[i])
                     ELSE contents[i] = NoFile

\* Between two requests nothing was lost or mixed up, as long as there was no
\* lapse.
FilesKept ==
    /\ fs.lapses = {}
    /\ \E M, A, D, O : Settled(fs, M, A, D, O) /\ Promises(fs, M, D)

\* The inductive invariant.
FileInv == TypeInv /\ (FilesKept \/ Refused(fs))
============================================================================
