-------------------------- MODULE MCRepositoryJobs --------------------------
(* Small instances of RepositoryJobs for TLC.                               *)
EXTENDS RepositoryJobs, TLC

Symmetry == Permutations(Workers) \cup Permutations(Commits)
=============================================================================
