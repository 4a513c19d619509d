---------------------------- MODULE MCAuditQueue ----------------------------
(***************************************************************************)
(* AuditQueue on small instances: which faults may happen, how often.      *)
(***************************************************************************)
EXTENDS AuditQueue, TLC

NoFaults    == [k \in FaultKind |-> 0]
OneOfEach   == [k \in FaultKind |-> 1]
TwoOfEach   == [k \in FaultKind |-> 2]
OneCrash    == [NoFaults EXCEPT !["crash"] = 1]
OneShort    == [NoFaults EXCEPT !["short"] = 1]
OneCut      == [NoFaults EXCEPT !["cut"] = 1]
ErrorsOnly  == [NoFaults EXCEPT !["crash"] = 2, !["io"] = 1]

\* Processes are interchangeable in the runs that check no liveness.
ProcSymmetry == Permutations(Proc)
=============================================================================
