----------------------------- MODULE MCRemount -----------------------------
(* A small instance of the file layer over several mounts. *)
EXTENDS Remount, TLC

CONSTANTS d1, d2

MCData     == {d1, d2}
MCExtents  == {<<0, 1>>, <<0, 2>>}
MCSizes    == {0}
MCModes    == {0}
MCSymmetry == Permutations({d1, d2})
============================================================================
