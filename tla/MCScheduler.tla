---------------------------- MODULE MCScheduler -----------------------------
(* Instances of Scheduler: a clock of four or six ticks, schedules that fire *)
(* at some of them, one that never fires (a manual schedule).                *)
EXTENDS Scheduler, TLC

CONSTANTS j1, j2, often, late, manual

OneExpr == (often :> {0, 2})
JustOften == (often :> {0})
Alternating == (often :> {0}) @@ (late :> {2})
TwoExprs == (often :> {0, 2}) @@ (late :> {1})
WithManual == (often :> {0, 2}) @@ (manual :> {})

AnyTime == 0..3
OddTime == {1}

JobSymmetry == Permutations(Job)
=============================================================================
