---------------------------- MODULE MCJobStore ----------------------------
(* Values for JobStore. *)
EXTENDS JobStore
=============================================================================
