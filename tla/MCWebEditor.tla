------------------------------ MODULE MCWebEditor ------------------------------
EXTENDS WebEditor, TLC

(* Files differ in their names only.                                       *)
Symmetry == Permutations(Paths)
=============================================================================
