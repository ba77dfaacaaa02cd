------------------------------- MODULE MCSession -------------------------------
(* Three overlapping runs and two tokens.                                  *)
EXTENDS Session, TLC

ProcSymmetry == Permutations(Procs)
===============================================================================
