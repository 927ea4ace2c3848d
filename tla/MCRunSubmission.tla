--------------------------- MODULE MCRunSubmission ---------------------------
(* Small instances of RunSubmission for TLC.                                *)
EXTENDS RunSubmission
=============================================================================
