------------------------ MODULE MCSearchPreparation ------------------------
(* Small instances of SearchPreparation for TLC.                            *)
EXTENDS SearchPreparation, TLC

WorkerSymmetry == Permutations(Workers)
=============================================================================
