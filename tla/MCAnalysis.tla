------------------------------- MODULE MCAnalysis -------------------------------
(* Analysis.tla on small sets.  The requests are interchangeable. *)
EXTENDS Analysis, TLC

Symmetry == Permutations(Req)
================================================================================
