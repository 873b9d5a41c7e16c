----------------------------- MODULE MCTestData -----------------------------
(***************************************************************************)
(* Instances of TestData for TLC.                                          *)
(***************************************************************************)
EXTENDS TestData, TLC

CONSTANTS q1, q2, l1

\* The two requests are interchangeable: no property orders or names them.
Symmetry == Permutations(Request)

\* Archives with two cases, with one named 01, and with no number.
Archives ==
  {{<<1, "in">>, <<1, "out">>, <<2, "in">>, <<2, "out">>},
   {<<1, "odd">>}, {}}
=============================================================================
