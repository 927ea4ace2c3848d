----------------------------- MODULE MCRowLocks -----------------------------
(* Three transactions at once on a repository at every stage of its life.     *)
EXTENDS RowLocks

MCRepositories == 1..3

MCSymmetry == Permutations(Slots)
=============================================================================
