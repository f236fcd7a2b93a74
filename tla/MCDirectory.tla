---------------------------- MODULE MCDirectory ----------------------------
(* Instances of Directory for model checking. *)
EXTENDS Directory, TLC

NamesSymmetry == Permutations(Names)

=============================================================================
