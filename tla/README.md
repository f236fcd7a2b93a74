# A TLA+ model of lfs_macos

`lfs_macos` is a log-structured file system for a virtual flash, mounted through FUSE. This
directory models it layer by layer in TLA+, checks the models with TLC on small instances
and proves the central invariants for instances of every size with TLAPS.

    tlc -workers 2 -config MCLog.cfg MCLog      # a model-checking run
    tlapm LogProofs.tla                         # the proofs of a module

`PROJECT.json` lists the runs, the mutants (a plausible bug for each property, which TLC must
catch), the source lines behind each definition, the hazards and the theorems.

## 1. The system

| part | source | state | operations that change it |
|---|---|---|---|
| flash | `layers/flash/flash.c` | a host file: one state byte per sector, one wear counter per erase block, data | `Flash_Create`, `Flash_Write`, `Flash_Erase` |
| segment cache | `data_structures/segment_cache.hpp`, `segment_factory.hpp` | a vector of segment objects, most recently used first | `getEntry`, `putEntry`, `invalidateEntry` |
| checkpoint region | `layers/log.hpp` | one reserved segment, a checkpoint per sector; `checkpoint`, `checkpointSector` in memory | `CheckpointNow`, `RecoverCheckpoint` |
| log | `layers/log.hpp` | tail segment in memory, usage table in memory and on flash, segments on flash, ifile inode | `Log_Write`, `Log_Read` (fills the cache), `Log_Free`, `UpdateIFileINode`, `EraseSegment` |
| mounting | `layers/log.hpp` `Init`, `~Log` | all of the above | mount, unmount, process death |
| file | `layers/file.hpp` | the ifile: an inode per file with 4 direct blocks and an indirect one | `File_Create`, `File_Write`, `File_Truncate`, `File_Free`, link counts |
| cleaner | `layers/file.hpp` `RunCleaner`, `CleanLog` | none of its own | copies live blocks to the tail, then `EraseSegment` |
| directory | `layers/directory.hpp`, `directory_list.hpp` | a list of (name, inum) in each directory file | create, mkdir, symlink, link, unlink, rmdir, rename |
| FUSE | `layers/fuse.hpp`, `fuse_handlers.hpp` | none | translates requests and return codes |
| mklfs, lfsck | `utilities/` | the first file system on flash; none | format; report |

Everything is a chain of calls from FUSE down to the flash; `lfs_main` always passes `-s` to
FUSE, so requests never overlap. What is hard is therefore not threads but

- **dying**: every call ends in several separate `write(2)`s, and the process can die between
  any two; a mount starts from the newest checkpoint, which may be many segments old;
- **refused calls**: a full sector, a worn erase block or a full log makes a call fail half
  way, and callers ignore many of the results;
- **state in two places**: the tail and the cache, the usage table in memory and on flash, the
  checkpoint's inode and the current one, an entry and the link count it stands for;
- **limits**: unsigned live byte counts that wrap, the checkpoint segment's last sector, the
  last clean segment, the cache's size.

What makes each part correct: the flash keeps acknowledged data until it is erased and counts
wear; the cache is an LRU cache that neither leaks nor reuses objects it holds; recovery finds
the newest checkpoint; the usage table covers the live blocks, so that no segment with live
blocks is reused; a block is where its address says; a checkpoint leads to blocks that are on
flash; files read as they were written, whether or not the cleaner moved their blocks; names, inodes and
link counts agree. `PROJECT.json` has the hazards, each at its line.

## 2. The modules

    Flash ------------ FlashProofs           CacheQueue --- CacheQueueProofs
                                              |    |
    CheckpointRegion - CheckpointRegionProofs |   SegmentCache --- SegmentCacheProofs
       | implements                           |    | implements
    CheckpointStore                           |   LRUCache
                                             Log
    Directory ---- DirectoryProofs            |
                                             LogRecovery --- LogProofs
    FileLayer ----- FileView ----------- FileLayerProofs
       |     |                                |
       |  Cleaner --- CleanerStore ------ CleanerProofs   (also of Remount)
       |                 | implements
    Remount           FileStore

`MC*` modules instantiate these for TLC. Actions and operators have the names of the functions
they model. A definition whose comment begins with *Mutant* is the wrong variant that a
property is tested against; nothing else uses it.

**Flash.** One host call per step: `CheckStates` (the loop of `Flash_Write` that refuses full
sectors), `FlashIO` (the one `write(2)` of the data, which may be short), `MarkFull` per sector;
`Flash_Erase`, `ChargeWear` per erase block, `ClearSector` per sector. `HostFailure` ends a call anywhere:
a failing host call, or a death, differ only in whether somebody sees the return value. Two
ghosts, `acked` and `erasures`, remember what was promised.

**CacheQueue, SegmentCache, LRUCache.** `CacheQueue` has the vector operations as operators on
sequences, generic in what an entry holds beside its segment; `SegmentCache` is the state machine with the ownership of
the objects (`malloc` may return an address that was freed); `LRUCache` is the abstract
specification, a set and a last-use order, that `SegmentCache` is checked to implement.

**CheckpointRegion, CheckpointStore.** `CheckpointNow` and `RecoverCheckpoint`, one flash access
per step, dying anywhere, with an uninitialised `checkpointSector` as an arbitrary choice. The
erase block is the one the code computes. The abstract store holds one number and is mounted or down; `Store` maps
the number to the newest checkpoint on flash.

**Log.** One mount. Each public operation is one action including everything it calls, with a
disjunct for each way it can end: `WriteBlock` (room left), `FillEraseFails`, `FillWriteFails`,
`FillWritten`, `FillDuplicate` (the cache throws), `WriteToFullFlash`, `WriteWithoutEmptyBlock`
(throws). Flash calls are atomic here. Contents are abstract values; live bytes are counted in blocks modulo `UIntBlocks`, so that
they wrap as the code's do. The file layer is the client: `Owners` are its file blocks, `blocks`
the addresses it holds. `EraseAndInvalidate` is the end of the cleaner's loop, with what the
loop has done by then (no address points into the segment, which is not the tail) as its guard.

**LogRecovery.** `Log` over many mounts: dying between calls (`Crash`) and at each point inside the
write of a segment, the destructor, and `Log::Init`. The client comes back with the addresses the saved ifile inode
leads to. The destructor checkpoints whatever was refused before; `misled` remembers that it did so with the ifile
inode of a tail that the flash had refused (`TailRefused`).

**FileLayer.** One action per request, `CreateFile`, `WriteFile`, `TruncateFile`, `ChmodFile`,
`FreeFile`, each with every log call it makes. A request changes one record, `fs`, step by step,
so each method of `FileLayer`, and the calls of `Log` under it, is an operator from an `fs` to the
`fs` it leaves behind and a return value. `fs.media`, `full` and `tail` are the segments; `live` and
`aged` the usage table in memory, `table` the one on flash; `root` is the ifile's inode, `ckptINode`
the copy that the next checkpoint will hold, `saved` the one on flash. Inodes are data in blocks of the
ifile, which is itself a file, as in the code. `contents` is what each caller was promised.
`fs.lapses` names what the code lets happen and carries on after: a write refused by a full flash
(`full`), by a segment never erased (`dirty`), a refused indirect block that the caller is not told of
(`indirect`), a tail of which the cache has an old copy (`cached`), a throw (`terminated`). A history is followed up to the
end of the request with the first lapse. The cache holds what is on flash (`CacheFresh` in `LogProofs`), except for a
segment that becomes the tail while it is cached, so all that the file layer needs to know of it is whether a reused
segment is still there: `fs.keeps`, either way. If it is, `Slots` reads it from the old copy, to the end of the request
(`Understood` gives up where an old block of another kind turns up). A tail that was never erased is never written, so there is
one such segment in a mount. `fs.leaked` holds the
blocks no file has any more and for which no `Log_Free` was called. The loops over the blocks of a file
(`WriteFileBlocks`, `DirectBlocksFreed`), and those of the cleaner, are recursive functions from a number of turns to
the record they leave.

**FileView.** The invariant of `FileLayer` that its proofs need, apart from them: what lies in the log between two
requests, seen as the files it stands for.

**Cleaner.** `RunCleaner` with `CleanLog` and `CleanSegment`, between any two requests. Two more
lapses mark where it goes wrong: `stale` (a segment is cleaned that is the tail again) and `lost` (a
rewritten indirect block is taken for dead).

**FileStore, CleanerStore.** The abstract specification is a map from numbers to files, each request changing the
one it names, cleaning being no step. `CleanerStore` adds what a client can see of `fs` as a history
variable, `seen`, and maps the store's files to it.

**Remount.** The file layer, without the cleaner, over many mounts: `Unmount` (`~Log`, after any request
but one that threw), `Crash` between two requests, `Mount` (`Log::Init` and `FileLayer::Init`). `past` remembers, for each file, the
versions that the checkpoint on flash may lead to. Mounting has lapses of its own: `misled`, the checkpoint was taken after the
flash had refused the tail; `misread`, the checkpoint names the checkpoint segment or an erased one, whose bytes `Init`
takes for a summary (`Wholes` and `RecoveredTail` leave open what it makes of them); `undercounted`, the usage table counts less
than the checkpoint leads to. `OneMountSpec` is what of it the proof is about.

**Directory.** The tree: inodes (in use, type, link count) and, for directories, the list. One
request is one action with up to three writes, each of which may be refused (`ok`). A refused write of a single inode
leaves the old one. A refused write of a list (`ListRefused`) leaves more: `File_Write` puts its blocks on the log before
the inode, and a block that `Log_Free` emptied in the tail is overwritten in place, so that the old inode may lead to
the new block. What is read afterwards is the old list, the new one, or a size and entries of either (`Leavings`), with what
was once written past the end of a list that has shrunk (`Leftovers`). A mixture is the lapse `torn`. Requests after it go on and
may succeed; that is more than a full flash allows, and on the safe side. An entry that straddles two blocks is taken whole. The same outcomes describe dying between two writes of a request
with a checkpoint in between. `Kernel*` are the lookups that precede a request. `history` records
*lapses*: a refused write, a torn list, an uncounted link (also if the list of a refused link is seen all the same), a hard linked symlink, a rename over an existing
name, a throw.

## 3. The runs

| run | what it asks | bounds |
|---|---|---|
| `flash` | acknowledged data survives (`AckedReadable`), wear is charged first (`WearCharged`), no programming without erase (`ProgramOnlyEmpty`), every call returns (`CallsReturn`) | 2 erase blocks of 2 sectors, wear limit 1, 2 values |
| `segment_cache` | no duplicate, one owner per object, implements LRU | 4 segments and objects, cache of 3 |
| `checkpoint` | the assertion in `CheckpointNow`, recovery finds the newest, implements the store | 4 sectors, 7 checkpoints |
| `log` | `UsageCoversLive`, `LiveStored`, `SettledReadsSeeWrites` | 2 data segments of 2 blocks, 2 owners, 1 value, cache of 2, wear limit 3, interval 1 |
| `recovery` | `SavedRootIntact`, `RecoveredUsageCoversLive`, `RecoveredLiveStored` | 3 data segments of 2 blocks, wear limit 3, interval 2, table segment erased up to three times |
| `file` | `ReadsSeeWrites`, `FullFlashSparesOthers`, `TerminatesOnlyAfterRefusal`, `UsageIsExact`, `SummariesNameOwners` | 3 data segments of 3 blocks, blocks of 2 units, 1 direct and 2 indirect addresses, 3 inodes, 7 requests, interval 2 |
| `cleaner` | `ErasedSegmentsAreUnused`, `UsageIsExact`, `SummariesNameOwners`, implements `FileStore` | 5 data segments of 3 blocks, blocks of 1 unit, 2 direct and 2 indirect addresses, 2 inodes, 6 steps, thresholds 3 and 4 |
| `remount` | `SavedFilesIntact` | the same flash, no cleaner, 7 steps, interval 2 |
| `directory` | `LinksMatchNames`, `NoDanglingEntries`, `OnlyEmptyDirectoriesGo` | 2 inodes beside the root and the ifile, 2 names, depth 2, 2 entries beside the dots, 1 request with a lapse |

Why these are enough. Flash: writes and erases that span both blocks, stop in the first or the
second and meet a worn block all occur. Cache: eviction, hits at either end and in the middle,
and reuse of freed objects need one segment more than the cache has places. Checkpoint: 7 checkpoints take the region round its
4 sectors and past the first refused write. Log: two
segments is the least with which one is the tail while the other is dead, reused, worn or cleaned; the cache can hold both; one value will do, as a slot names its owner, and some history gives the old copy of a block another owner than the new one. Recovery: the third segment
lets a checkpoint lag behind by an interval of two. Directory: two inodes allow a file in a
directory, two directories, one moved over the other, a hard link across directories and the reuse of an inum; with `.ifile` in the root, two names stand side by side only in a
directory below it. File layer: 7 requests over 3 segments fill the flash,
reuse a dead segment as the tail, in the cache and out of it, take a checkpoint, grow the ifile into a second block and its indirect block, and put a
second file beside the one written. Cleaner: 6 steps let it move blocks of a file, blocks named by
an indirect block and the ifile's own, with the tail filling in the middle, and meet dead segments and indirect blocks written once and twice; a start threshold of 3 of 5 segments lets it run early. Remount:
7 steps hold two mounts with requests in each, and an unmount after a refused write. The proofs take the bounds away for flash, cache, checkpoint region, log, recovery and directories, and
for the file layer and the cleaner, with their numbers of segments, blocks and requests, up to the first lapse, and for the checkpoint of
one mount.

`MCLog.cfg` and `MCLogRecovery.cfg` use a VIEW that leaves out variables nothing reads any more (what recovery would need, in a run
without mounts; memory after a death). `CHECK_DEADLOCK FALSE` is used where the system really stops: an
uncaught `throw` ends the process, the bound on checkpoints or requests is reached, the cache has nothing left to do.

**Fairness.** Only `flash` assumes any (`FairSpec`), for `CallsReturn`: weak fairness of `Progress`. `Flash_Write` and
`Flash_Erase` are loops of a running process without locks or waiting, so a call that can take
its next step does; one that cannot has died, which `HostFailure` covers by ending the call.

### Where the code departs from what it says

Three runs expect a violation; the finding in `PROJECT.json` quotes the line each contradicts.

- `checkpoint_lap`: the erase block for an old checkpoint counts the segment's offset twice, so that another
  segment's block is erased and after one lap no checkpoint can be written any more. With the block that holds the
  sector the same run passes. `RegionFillsForGood` proves of every geometry that no sector is ever free again.
- `file_reuse`: `GetCleanSegment` makes a segment whose blocks were all freed the tail, while it is still in the cache, and
  `getSegment` asks the cache before it compares with the tail. What is written to the tail is then read from the old copy:
  a file's data, an inode in a block of the ifile, an indirect block. No call fails.
- `cleaner_files`: the cleaner picks segments from the usage table and reads them from flash, also
  one whose blocks were all freed and that has become the tail again. It copies old blocks in place
  of new ones and erases the segment. An indirect block that was rewritten is entered in the summary under a block number of its
  old segment, so the cleaner takes it for dead and erases it; one written for the first time is moved as block -1, at an
  unsigned index far outside the buffer of addresses.

Others are visible in what the models do and the properties leave out:

- A segment with no live bytes that was never erased is handed out as the tail; the flash refuses it, the tail stays full, and the next
  `Log_Write` throws (`WriteWithoutEmptyBlock`), as `log.hpp:240` says it never should. `TerminatesOnlyAfterRefusal`
  allows a throw only after a refusal, or after a read from an old cached copy.
- `writeSegment` moves the ifile inode into the checkpoint whether or not the flash took the segment, and the destructor
  saves it: the checkpoint then leads to blocks that were only in memory. `SavedRootIntact` and `SavedFilesIntact`
  exclude it (`misled`) and say what holds of all other checkpoints.
- `lastSegmentWritten` is the tail's number minus one. When the tail is a reused segment that is not the one written
  last, and the next mount takes another tail than the one unmounted; with segment 1 as the tail it is the checkpoint segment,
  whose bytes `Init` reads as a summary (`misread`). After the last clean segment is filled it is
  `FLASH_FULL - 1`, past the end of the flash, and the file system does not mount (`Mountable`).
- The cleaner erases segments that the newest checkpoint still leads to. Once one is written again before the next checkpoint, a
  death loses files: `SavedFilesIntact` is stated for mounts without the cleaner.
- Renaming over an existing name leaves two entries of it; removing the name drops both. The
  properties of `Directory` name the lapse.
- The blocks an indirect block names are never freed, nor is an indirect block that is rewritten:
  `UsageIsExact` counts them as `leaked`.
- A refused write of a directory may leave a list of old and new entries, one of which can name a freed inode
  (`NoDanglingEntries` excludes the lapse `torn`); `file.hpp:215` says as much. The link counts are only compared with
  the names while nothing was refused (`LinksMatchNames`).
- The clock may be set back, and reads in `RecoverCheckpoint` may fail (assumed not to in
  `CheckpointRegion`); a hard linked symlink loses its inode on the first unlink (`NoDanglingEntries`
  excludes it).

## 4. What is proved

For every value of the constants that meets the named assumptions (`FlashAssumption`,
`CacheAssumption`, `RegionAssumption`, `LogAssumption`, `DirectoryAssumption`, `FileAssumption`, `CleanerAssumption`),
which TLC evaluates in the runs.
They ask no more than the code gives: `mklfs` writes at least one block and leaves room in the tail (`Formatted` in
`LogAssumption`, three blocks to a segment in `FileAssumption`), the kernel sends no empty names and resolves the dots
itself (`Names` in `DirectoryAssumption`). `SentinelAssumption` says that the values which mark what is missing (no address,
no file, an empty slot) are not data.

- **FlashProofs**: `TypeOK`, `AckedReadable`, `WearCharged`, `ProgramOnlyEmpty`. They are not
  inductive alone: a write that marks sectors relies on the data having been moved and on the
  earlier sectors being marked; an erase that clears relies on the block having been charged and its promises given up.
  `FlashInv` adds these (`WriteInv`, `EraseInv`).
- **CacheQueueProofs, SegmentCacheProofs**: what the vector operations keep (types, length,
  distinctness), and from that the cache's `TypeOK`, `NoDuplicates` and `OneOwner`. `OneOwner` is inductive
  beside the other two (`OwnerStep`). The lemmas are used again by the log.
  `CacheImplementsLRU` is the refinement `Spec => Abs!LRUSpec`: `EraseAtAbs` and `FrontAbs` say what erasing a
  position and inserting at the front do to the three parts of the mapping (`SegsOf`, `HolderOf`, `OlderOf`), whence
  a hit is a `Use`, a put an `Insert` that gives up at most the last entry (`LastIsOldest`), an invalidation
  a `Drop`, and everything else a stutter.
- **CheckpointRegionProofs**: `TypeOK`, `CheckpointIsValid`, `RecoversNewest`, `RegionFillsForGood`,
  and the refinement `Spec => Store!Spec`. `RegionInv` adds that numbers and times order the
  checkpoints alike (`Ordered`), that some sector is valid, that one being written is newer than
  all others, and that a scan holds the best of what it has read. `RegionFillsForGood` is arithmetic:
  the computed erase block lies outside the region for every geometry with a checkpoint segment other than 0.
- **LogProofs**, one mount: `TypeOK`, `UsageCoversLive`, `LiveStored`, `SettledReadsSeeWrites`. Their conjunction `LogInv` is
  inductive: live blocks stay put because a segment is reused only when its count is 0, which by
  `UsageCoversLive` means that it holds none; and the count is right because `Recount` counts the
  summary's entries, each live block having one by `LiveStored`. One lemma per disjunct of `Next`.
  `SettledReadsSeeWrites` needs one invariant more, `CacheFresh`: outside the tail a cached segment is the
  one on flash.
- **LogProofs**, many mounts: `TypeOK` of `LogRecovery`, `SavedRootIntact`, `RecoveredUsageCoversLive` and `RecoveredLiveStored`,
  for any number of deaths, refused writes, unmounts and mounts. The lemmas about one mount show what a
  segment write does to the blocks in memory; what a mount finds is another matter. `SavedRootIntact` says nothing of
  the inode that the *next* checkpoint will save, nor of what the usage table on flash counts, yet a later write
  reuses a segment by that table. `SavedInv` adds both: the saved root, the ifile inode and, unless the tail is one that was refused,
  the inode waiting for a checkpoint lead to blocks that are on flash (`Held`, `Settled`) and that the table counts. The properties are
  stated while the usage table can be replaced (`TableWritable`), since after that the table on flash is gone, and up to a
  misled checkpoint. `RecoveredUsageCoversLive` needs only the first: `CoverInv` is about counts alone, which a refused write
  raises as well. The types of what a mount reads need `MountInv`, that the saved number is that of a segment written.
- **DirectoryProofs**: `TypeOK`, `OnlyEmptyDirectoriesGo`, `NoDanglingEntries` and `LinksMatchNames`, for any number
  of inodes, names, lapses and entries, and paths of any length.
  - `Tree` is the shape of the lists: two dots first, no dot later, the ifile always in use.
  - `NoDanglingEntries` follows from `CoverInv`: an inode in use has at most as many names as links
    (a symlink, which is freed without looking at its count, at most one), and one that is not in use has none.
    A refused write after a list was written only leaves too many links, which is the safe side; a refused write of a list
    leaves the old or the new one, or the lapse `torn`, after which nothing is claimed.
  - `LinksMatchNames` follows from `ExactInv`: as many names as links, each list with unique names, only files with
    several names, the root with none, and each directory in use with a list. Unique names are what makes
    `RemoveFile` take one entry. That a directory has a single name makes its path unique (`UniqueWalks`),
    hence a rename that does not move a directory into itself finds the new directory after the old name is gone
    (`RenameKeepsTarget`), although `Directory_Rename` looks it up only then.
  - Both assume `[]LinkRoom`: no link count stands at the end of an `nlink_t`. `File_AddLink` does not look, and
    would wrap the count to 0. States with room are all those of a tree with fewer names.
  - Where a path leads is a recursive function; a statement about all paths is proved by the least prefix for
    which it fails (`LeastOf`, `WalkExists`, `WalkIsGetINum`).
- **FileLayerProofs**: `ReadsSeeWrites`, `UsageIsExact`, `SummariesNameOwners`, `TerminatesOnlyAfterRefusal` and
  `FullFlashSparesOthers` of `FileLayer`, and its `TypeOK`, the types through refused requests and throws as well.
  - `FileInv` of `FileView` is inductive. It says that there are inodes `M`, addresses `A`, data `D` and owners `O` such that:
    the usage table counts exactly the blocks with an owner (`Ledger`); every block has one owner, which knows it
    (`Tree`); the block at each address is the owner's data, labelled with the owner's name, and an
    indirect block holds the addresses (`Held`); a file that is not in use has no blocks (`Sound`); the ifile's blocks
    hold the inodes (`HasEntry`); and every file reads as promised, or is not there if none is (`Promises`).
  - Each property needs all of it. A write reuses a segment whose count is 0, so reads need the counts; the counts stay
    right only if each `Log_Free` is for a block in use, so they need the tree; the tree is what the inodes and indirect
    blocks on the log say, so it needs the reads.
  - Within a request the ifile lags behind the inode in hand: `InHand` is `Settled` with one inode of `M` ahead of its entry.
    Each method has a lemma, named after it with `Done`, that takes such a view to the next or to a refusal; what it does
    to the log is in `LedgerWritten` and `LedgerFreed`. Each request then gives `Settled` again and
    contents that match (`Outcome`, `AnswerKept`).
  - A loop is a recursive function of the number of turns. That it exists is proved once per loop (the lemmas ending in
    `Turns`), and a fact about all turns by induction on the set of turns for which it holds (`InductionOnSets`).
  - The invariant is given up at the first refused request, or the first that reuses a segment which is in the cache, where histories
    end (`Refused`). Within a request the lapse `cached` stands until the last of its writes, so `LedgerUncached`, that a view excludes
    it, is what lets a read go to the tail. What that request leaves is
    another argument, for `FullFlashSparesOthers`. A write is refused for want of space only if there was no tail
    before it (`TurnFills`). From then on nothing that a file is read through
    changes: each further write is refused, and a `Log_Free` only counts (`Frozen`). At the moment of the refusal
    the other files and the ifile were as before the request (`OthersKept`), as the loop lemmas give a view of the log before each turn
    (`LoopTurns`). `File_Truncate` and `File_Free` take all they have of the file before they write (`EmptiedStill`).
    So the others are read through the blocks they had (`OthersRead`).
  - TLC cannot enumerate `M`, `A`, `D` and `O`, so the run `file` checks the consequences of `FileInv`, which are the
    properties; `NamedBlocks`, `Reachable` and `File_Read` compute the view from `fs`.
- **CleanerProofs**: `ErasedSegmentsAreUnused`, `UsageIsExact`, `SummariesNameOwners`, `ReadsSeeWrites` and `TypeOK` with the
  cleaner running between any two requests, in whatever order it takes the segments and for any thresholds, and
  the refinement `ViewedSpec => Store!Spec`: a store of files for which cleaning is no step.
  - `CleanerInv` is `FileInv` with every lapse an end, not only a refused request. What the cleaner adds is that a block is copied and its old
    place kept for leaked. The lemmas of `FileLayerProofs` on giving a block a new place (`BlockPlaced`, `UpdateIFileDone`)
    show that the files stay the same (`SameFiles`).
  - While segment `s` is cleaned, `BlocksCleaned` says that `s` is not the tail, is still on flash what was read of it, and that
    its first `n` blocks are nobody's or leaked. The cleaner's own writes must not bring the tail to `s`
    (`Cleared`), nor give a file a block there: `s` is no clean segment as long as its count is not 0, and a block that is left
    behind is still counted. A block the cleaner passes over is nobody's because the summary names its owner (`CleanBlockDone`),
    which is where the lapses `stale` and `lost` are needed. Then all of `s` can be erased (`EraseDone`).
  - For the refinement, what can be seen is what was promised (`SeenPromised`); so `StoreSteps` compares what a request promises
    with what the store may do, and a lapse is `Refuse`. That a new file takes the lowest free number is
    `NewFileFound`, which needs `Promises` in both directions: no file where none is promised.

  - `CheckpointLeadsToTheFiles`: `SavedFilesIntact` of `Remount`, for `OneMountSpec`: what mklfs made is mounted, serves requests
    without the cleaner, the first that meets a full flash among them, and in the end dies between two requests or is unmounted. `MountInv`
    says that the saved root leads (`LeadsTo`) to files of `past.saved`, and the inode kept for the next checkpoint to those of
    `past.ckpt`; while the mount lasts, `FilesKept` as well. `Leads` is what `View` says of the blocks of an
    inode, without the counts: it looks at the slots only, so it holds of flash when the tail is gone
    (`SavedReads`), and as long as no slot it looks at is written over (`LeadsToKept`).
  - A request (`RequestCarried`, with a lemma named after each method with `Carried`) either leaves flash and checkpoint alone, or
    writes one segment, at whatever block of its loops it gets full, and then
    the inode kept leads to the files as they were before, but for the one named. That is so at the write of a segment
    if the root leads to them there and then (`Ready`). The root lags behind only while a block of the ifile was freed and is
    not written yet, and then the place freed in the tail is taken next (`IfileTurn`).
  - The first segment is the exception, as it is found partly filled and written over blocks of the
    checkpoint. Until then the checkpoint is mklfs's and leads to block 1 of that segment (`Pin`), where each
    new first block of the ifile is put again (`IfilePinned`).
  - The destructor saves the inode that was kept, and `past.ckpt` with it (`UnmountKept`); the first refused request cannot have
    changed it unless the refusal was of the segment (`dirty`), which makes the checkpoint misled. A tail in the cache is never written
    (`Reuses`), so nothing that is read from the old copy gets to flash in a segment.
  - A write refused for want of space stops all writing (`Halted`); the rest of the request leaves the flash alone (the lemmas ending
    in `Rests`).

Only model-checked: liveness (`CallsReturn`), which the prover cannot do; and `SavedFilesIntact` over further mounts.
`FilesKept` holds only in the first mount: a later one starts from a usage table saved at another moment than the root, which
counts blocks that no file has, and from a file that may be half changed.

## 5. Assumptions and what is not modelled

- In `Log`, the cleaner has copied every live block before it erases a segment, and never erases
  the tail (the guard of `EraseAndInvalidate`). `Cleaner` shows the first (`ErasedSegmentsAreUnused`) up to its
  lapses; the lapse `stale` is where the second fails.
- `FileLayer`, `Cleaner` and `Remount` have a flash that obeys: erases, and writes of the usage table and of checkpoints,
  never fail (`Log`, `LogRecovery` and `CheckpointRegion` have those failures). Of the segment cache they have what can be seen
  of it, `keeps` (see section 2). Sizes are counted in
  units, an inode being one unit of the ifile; inodes that straddle two blocks are left out. A write stays within the largest file
  (`FileAssumption`). Nothing but unmounting, dying and mounting is followed past the request with the first lapse.
- `File_RemoveLink` is, for the last link, an update of the inode followed by `File_Free`: `FreeFile` is the second
  half, `ChmodFile` stands for the first, as it does for `File_Chown` and `File_AddLink`.
- The cleaner's order: segments with as many live blocks differ only by age, a time divided by
  1e14, and are taken in any order. The live bytes are taken to be whole blocks.
- In `Remount` the process dies between requests, or unmounts; deaths inside the write of a segment are in
  `LogRecovery`. `requests` bounds all steps of a history (`MaxRequests`).
- The usage table fits its one segment; the stray checkpoint erases that hit a segment beyond the
  file system's last touch nothing of it.
- `LogRecovery` has a client that only appends. Its properties are stated
  while the table segment can still be erased (`TableWritable`). As it frees nothing, it takes the segments in turn;
  `Remount` has the tails that are out of sequence. A segment's data is one
  `write(2)`, which either happens or not; `Flash` has the short ones.
- `cache_size` is positive; `putEntry` on a cache of size 0 is undefined behaviour.
- Attributes and times beyond one field; permission checks; option parsing; output; `lfsck`, which only reads and
  reports (and checks only the root directory's names); `mklfs` beyond the state it leaves
  (the initial states of `Log`, `CheckpointRegion`, `FileLayer` and `Directory`); `lfs_main`, of which the models use that it
  runs FUSE single-threaded.

## 6. Plan

Done: flash, cache, checkpoint region, log, recovery, file layer, cleaner, mounting with files, directories; proofs for
all but further mounts of the files.

1. **Proofs**: `SavedFilesIntact` over further mounts, from a `Ledger` that bounds the counts instead of giving them; that `Flash` implements the atomic flash calls of `Log`.
2. **FileLayer on Log**: that each request's log calls are steps of `Log`, so that the
   failures of erases and of the usage table reach the file layer.
3. **Directory_CheckPermissions** as an operator against a reference definition.
4. **Past the first lapse**: what a full flash leaves of the ifile when the cleaner's write is refused.
