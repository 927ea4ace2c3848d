---------------------------- MODULE MCAnswerRuns ----------------------------
(* Small instances of AnswerRuns for TLC.                                   *)
EXTENDS AnswerRunsInvariant, TLC

WorkerSymmetry == Permutations(Workers)
=============================================================================
