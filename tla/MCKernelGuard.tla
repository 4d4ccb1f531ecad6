---------------------------- MODULE MCKernelGuard ---------------------------
(* KernelGuard for TLC.                                                    *)
EXTENDS KernelGuard, TLC

CONSTANTS k1, k2, g1, g2

GidSymmetry == Permutations(Gids)
=============================================================================
