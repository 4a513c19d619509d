--------------------------- MODULE AuditDelivery ---------------------------
(***************************************************************************)
(* What the audit pipeline promises, without files, locks or messages:     *)
(* sequence numbers are issued one after the other, the management server  *)
(* stores events only under issued numbers and never forgets one, and the  *)
(* node's acknowledgement mark only moves forward, never past the numbers  *)
(* the server holds without a gap.  AuditQueue implements this             *)
(* specification.                                                          *)
(***************************************************************************)
EXTENDS Naturals

VARIABLES
  issued,   \* highest sequence number under which an event was written
  stored,   \* sequence numbers the management server holds an event for
  acked     \* the node's mark: everything up to it needs no shipping

vars == <<issued, stored, acked>>

Init ==
  /\ issued = 0
  /\ stored = {}
  /\ acked = 0

Issue ==
  /\ issued' = issued + 1
  /\ UNCHANGED <<stored, acked>>

Store ==
  /\ \E S \in SUBSET (1..issued) : stored' = stored \cup S
  /\ UNCHANGED <<issued, acked>>

Ack ==
  /\ \E n \in 1..issued :
       /\ n > acked
       /\ 1..n \subseteq stored
       /\ acked' = n
  /\ UNCHANGED <<issued, stored>>

Next == Issue \/ Store \/ Ack

Spec == Init /\ [][Next]_vars
=============================================================================
