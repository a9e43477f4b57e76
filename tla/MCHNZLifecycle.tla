-------------------------- MODULE MCHNZLifecycle --------------------------
(* HNZLifecycle for TLC.                                                    *)
EXTENDS HNZLifecycle, TLC

PathSymmetry == Permutations(Paths)
=============================================================================
