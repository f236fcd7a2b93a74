----------------------------- MODULE MCCleaner -----------------------------
(* A small instance of the file layer with its cleaner. *)
EXTENDS CleanerStore, TLC

CONSTANTS d1, d2

MCData     == {d1, d2}
MCExtents  == {<<0, 1>>, <<1, 1>>, <<0, 3>>}
MCSizes    == {0}
MCModes    == {0}
MCSymmetry == Permutations({d1, d2})
============================================================================
