-------------------------- MODULE CheckpointStore --------------------------
(***************************************************************************)
(* What the checkpoint region promises: a place that holds one checkpoint. *)
(* Saving replaces it by a newer one, and every mount of the file system   *)
(* gets the one saved last, however often the process dies in between.     *)
(* Checkpoints are numbered in the order they are taken.                   *)
(***************************************************************************)
EXTENDS Naturals

VARIABLES saved, recovered, mode

storeVars == <<saved, recovered, mode>>

Init == saved = 1 /\ recovered = 1 /\ mode = "mounted"

Save ==
    /\ mode = "mounted"
    /\ saved' \in Nat /\ saved' > saved
    /\ UNCHANGED <<recovered, mode>>

Unmount == mode = "mounted" /\ mode' = "down" /\ UNCHANGED <<saved, recovered>>

Recover ==
    /\ mode = "down" /\ mode' = "mounted"
    /\ recovered' = saved
    /\ saved' = saved

Next == Save \/ Unmount \/ Recover

Spec == Init /\ [][Next]_storeVars
=============================================================================
