---------------------------- MODULE MCDispatchRuns ----------------------------
(* Instances of DispatchRuns for TLC.                                      *)
EXTENDS DispatchRuns, TLC

CONSTANTS i1, i2

NoDependencies == {{}}
OneAfterTheOther == {{}, {[intent |-> i1, status |-> "completed"]}}

RunnerSymmetry == Permutations(Runners)
=============================================================================
