-------------------------- MODULE MCDebugWorkflow --------------------------
(***************************************************************************)
(* DebugWorkflow for TLC.                                                  *)
(***************************************************************************)
EXTENDS DebugWorkflow, TLC

CONSTANTS i1, i2

Symmetry == Permutations(SmokeId)

=============================================================================
