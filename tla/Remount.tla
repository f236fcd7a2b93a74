------------------------------ MODULE Remount ------------------------------
(***************************************************************************)
(* The file layer over many mounts: Log's destructor and Init and          *)
(* FileLayer's Init, and the process dying between two requests.  On flash *)
(* are the segments, the usage table and the checkpoint; the tail and      *)
(* everything else is lost.  The cleaner does not run: it erases segments  *)
(* that the checkpoint leads to.                                           *)
(***************************************************************************)
EXTENDS FileLayer

VARIABLES
    up,     \* the file system is mounted
    past    \* the versions of each file that the ifile inode kept for the next
            \* checkpoint, and the one in the checkpoint on flash, may lead to

remountVars == <<vars, up, past>>

\* A segment was written last: Init reads its summary.  Where the checkpoint
\* names the segment before the first data segment, or one that was erased, it
\* takes other bytes for a summary.
Summarised(g) == g.saved.last \in g.full

\* Past the end of the flash nothing can be read, and Init fails.
Mountable(g) == g.saved.last # FLASH_FULL - 1

\* What is on flash, with no tail in front of it.
OnFlash(g) ==
    [g EXCEPT !.root = g.saved.root, !.iFileSize = g.saved.root.fileSize,
              !.tail = [seg |-> FLASH_FULL, slots |-> EmptySlots]]

\* The usage table on flash counts less than what the checkpoint leads to.
Undercounted(g) ==
    \E s \in DataSegments :
       g.table.live[s] < Cardinality({a \in Reachable(OnFlash(g)) : a.seg = s})

\* Lapses of mounting.  "misled": the checkpoint was taken with the ifile inode
\* of a segment that the flash had refused; "misread": there is no summary where
\* it is read; "undercounted": the log may take a segment in use for a clean one.
MountLapses(g) ==
    {l \in {"misled", "misread", "undercounted"} :
       \/ l = "misled" /\ l \in g.lapses
       \/ l = "misread" /\ ~ Summarised(g)
       \/ l = "undercounted" /\ "misled" \notin g.lapses /\ Undercounted(g)}

\* Whether the summary has the last block of its segment in use.  Of bytes that
\* are no summary anything may be found, if the process survives them at all.
Wholes(g) ==
    IF Summarised(g) THEN {g.media[g.saved.last][SegBlocks] # NO_INUM} ELSE BOOLEAN

\* A full last segment is followed by the first clean one, any other is filled
\* up.  0 stands for the number found in bytes that are no summary.
RecoveredTail(g, whole) ==
    CASE whole -> [seg |-> GetCleanSegment(g.table.live), slots |-> EmptySlots]
      [] ~ whole /\ Summarised(g) ->
           [seg |-> g.saved.last, slots |-> g.media[g.saved.last]]
      [] OTHER -> [seg |-> 0, slots |-> EmptySlots]

Mounted(g, whole, keeps) ==
    [g EXCEPT
       !.live = g.table.live, !.aged = g.table.aged,
       !.root = g.saved.root, !.ckptINode = g.saved.root, !.writes = 0,
       !.iFileSize = g.saved.root.fileSize,
       !.partial = ~ whole,
       !.tail = RecoveredTail(g, whole),
       !.lapses = MountLapses(g), !.keeps = keeps,
       !.leaked = {}]

----------------------------------------------------------------------------

\* A step that takes file i from one version to another.  The ifile inode is
\* kept whenever a segment is written; file i may then be half changed.  The
\* segment found partly filled at mount is written over the blocks that the
\* checkpoint leads to.
Remember(i) ==
    LET flushed == fs'.media # fs.media
        ckpt    == IF flushed
                   THEN [k \in INums |-> IF k = i THEN {Unknown} ELSE {contents[k]}]
                   ELSE past.ckpt
        over(k) == IF flushed /\ fs.partial THEN ckpt[k] ELSE {}
    IN  past' = [ckpt  |-> ckpt,
                 saved |-> IF fs'.saved # fs.saved THEN ckpt
                           ELSE [k \in INums |-> past.saved[k] \cup over(k)]]

Serve ==
    /\ up /\ Running
    /\ \E i \in INums : Request(i) /\ Remember(i)
    /\ UNCHANGED up

\* ~Log: a checkpoint, whatever went before, and the tail is lost.  The inode in
\* it is the one kept when the tail was last to be written, also if the flash
\* refused it.  A process that was terminated runs no destructor.
Destructed(g) ==
    IF "dirty" \in g.lapses THEN Lapse(CheckpointNow(g), "misled")
    ELSE CheckpointNow(g)

Unmount ==
    /\ up /\ "terminated" \notin fs.lapses
    /\ fs' = Destructed(fs)
    /\ up' = FALSE
    /\ past' = [past EXCEPT !.saved = past.ckpt]
    /\ UNCHANGED contents

Crash == up /\ up' = FALSE /\ UNCHANGED <<fs, contents, past>>

\* What a client finds of file i; nothing is said of a misled checkpoint.
Found(g, i) ==
    IF "misled" \in g.lapses \/ Seen(g, i) = Dead THEN Unknown ELSE Seen(g, i)

MountAs(g) ==
    /\ fs' = g
    /\ contents' = [i \in INums |-> Found(g, i)]
    /\ past' = [ckpt  |-> [i \in INums |-> {contents'[i]}],
                saved |-> [i \in INums |-> {contents'[i]}]]

Mount ==
    /\ ~ up /\ Mountable(fs)
    /\ up' = TRUE
    /\ \E whole \in Wholes(fs), keeps \in BOOLEAN : MountAs(Mounted(fs, whole, keeps))

RemountInit ==
    /\ Init /\ up = TRUE
    /\ past = [ckpt  |-> [i \in INums |-> {contents[i]}],
               saved |-> [i \in INums |-> {contents[i]}]]

Step(A) == requests < MaxRequests /\ requests' = requests + 1 /\ A

OneMountNext == Step(Serve \/ Unmount \/ Crash)
RemountNext  == Step(Serve \/ Unmount \/ Crash \/ Mount)

\* What mklfs made is mounted, and in the end the process dies or unmounts.
OneMountSpec == RemountInit /\ [][OneMountNext]_remountVars
RemountSpec  == RemountInit /\ [][RemountNext]_remountVars

----------------------------------------------------------------------------
(* Properties. *)

\* The blocks that an inode names itself are still its own.
Kept(g, inode) ==
    \A a \in (Range(inode.direct) \cup {inode.indirect}) \ {NoAddress} :
       g.media[a.seg][a.blk] # NO_INUM /\ g.media[a.seg][a.blk].inum = inode.inum

\* File i as the checkpoint leads to it.
SavedFile(i) ==
    LET g     == OnFlash(fs)
        inode == GetINode(g, i)
    IN  IF ~ Kept(g, g.root) THEN Dead
        ELSE IF inode # Dead /\ inode.inUse /\ ~ Kept(g, inode) THEN Dead
        ELSE Seen(g, i)

\* At every moment the checkpoint leads, on flash, to every file as it was
\* when a segment was last written before the checkpoint; only the file whose
\* request wrote the segment may be half changed.  A checkpoint taken after a
\* segment was refused is left out: LogRecovery says what it leads to.
SavedFilesIntact ==
    "misled" \notin fs.lapses =>
       \A i \in INums : Unknown \in past.saved[i] \/ SavedFile(i) \in past.saved[i]
============================================================================
