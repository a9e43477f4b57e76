-------------------------- MODULE MCHNZConnection --------------------------
(* HNZConnection for TLC: the two paths of the code are interchangeable.    *)
EXTENDS HNZConnection, TLC

PathSymmetry == Permutations(Paths)
=============================================================================
