-------------------------------- MODULE MCCma --------------------------------
(***************************************************************************)
(* BslCma for TLC.  The processes differ in nothing, and no property of    *)
(* these runs is a liveness property, so they may be permuted.             *)
(***************************************************************************)
EXTENDS BslCma, TLC

Symmetry == Permutations(Callers)
=============================================================================
