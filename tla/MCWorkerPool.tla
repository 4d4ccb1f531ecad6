---------------------------- MODULE MCWorkerPool ----------------------------
(* WorkerPool on small instances, and the mutants of its definitions.      *)
EXTENDS WorkerPool

CONSTANTS w1, w2, c1, c2, none

WorkerSymmetry == Permutations(Workers)
=============================================================================
