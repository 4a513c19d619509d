------------------------------ MODULE MCJobRun ------------------------------
(* Instances of JobRun.                                                      *)
EXTENDS JobRun, TLC

PidSymmetry == Permutations(Pid)
SlotSymmetry == Permutations(Slot)
Symmetry == PidSymmetry \cup SlotSymmetry
=============================================================================
