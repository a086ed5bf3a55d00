-------------------------- MODULE MCOperationCall --------------------------
(* Model values and symmetry for OperationCall. *)
EXTENDS OperationCall, TLC
CONSTANTS m1, m2
TargetSymmetry == Permutations(Targets)
=============================================================================
