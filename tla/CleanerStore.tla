---------------------------- MODULE CleanerStore ----------------------------
(***************************************************************************)
(* The file layer and its cleaner implement FileStore: what a client can   *)
(* see of the files through File_Read and the inodes changes like a store  *)
(* of files.  The variable seen is that view, kept beside fs from step to  *)
(* step; no step depends on it.                                            *)
(***************************************************************************)
EXTENDS Cleaner

VARIABLE seen

\* Nothing is promised after a lapse.
Visible(g) ==
    [files  |-> [i \in INums |-> IF g.lapses = {} THEN Seen(g, i) ELSE Unknown],
     failed |-> g.lapses # {}]

ViewedInit == Init /\ seen = Visible(fs)
ViewedNext == CleanerNext /\ seen' = Visible(fs')
ViewedSpec == ViewedInit /\ [][ViewedNext]_<<vars, seen>>

Store == INSTANCE FileStore WITH
    Root     <- ROOT_DIRECTORY_INUM,
    RootSize <- BlockSize,
    files    <- seen.files,
    failed   <- seen.failed

\* File layer and cleaner together are a store of files: each request changes
\* the one file it names, all at once and as asked, a number is given to a new
\* file only when no file has it, and cleaning changes nothing anyone can read.
ImplementsFileStore == Store!Spec
=============================================================================
