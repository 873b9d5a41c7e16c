----------------------------- MODULE MCJudgeRun -----------------------------
(***************************************************************************)
(* Instances of JudgeRun for TLC.                                          *)
(***************************************************************************)
EXTENDS JudgeRun

\* Everything a program may do.
AnyProgram ==
  {"right", "wrong", "nonzero", "signal", "forbidden", "selfkill", "hungry", "forks", "endless"}
=============================================================================
