-------------------------- MODULE MCSubmissionStream --------------------------
(***************************************************************************)
(* An instance of SubmissionStream for TLC: two pages of one submission,   *)
(* which is judged and rejudged.                                           *)
(***************************************************************************)
EXTENDS SubmissionStream

CONSTANTS g1, g2, w1, w2

\* Bound: at most three of the disturbances the other bounds allow.
ThreeDisturbances == repeats + dbErrors + losses + leaves <= 3
=============================================================================
