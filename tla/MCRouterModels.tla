---------------------------- MODULE MCRouterModels ----------------------------
(* RouterModels on small registries.  The requests are interchangeable in  *)
(* the safety run; the run with fairness uses no symmetry.                 *)
EXTENDS RouterModels, TLC

Symmetry == Permutations(Requests)
===============================================================================
