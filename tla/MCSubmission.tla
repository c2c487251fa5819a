---------------------------- MODULE MCSubmission ----------------------------
(* Small instances of Submission for TLC.                                  *)
EXTENDS Submission, TLC

CONSTANTS w1, w2

Symmetry == Permutations(Workers)
=============================================================================
