--------------------------- MODULE AuditDelivery ---------------------------
(***************************************************************************)
(* What the audit outbox promises: an event is committed with its          *)
(* mutation, reaches the audit log exactly once, is acknowledged only      *)
(* after it is there, and all of that eventually happens.                  *)
(***************************************************************************)
EXTENDS FiniteSets

CONSTANT Events

VARIABLES committed, recorded, acknowledged

vars == <<committed, recorded, acknowledged>>

Init == committed = {} /\ recorded = {} /\ acknowledged = {}

Commit(e) ==
  /\ e \notin committed
  /\ committed' = committed \cup {e}
  /\ UNCHANGED <<recorded, acknowledged>>

Deliver(e) ==
  /\ e \in committed \ recorded
  /\ recorded' = recorded \cup {e}
  /\ UNCHANGED <<committed, acknowledged>>

Acknowledge(e) ==
  /\ e \in recorded \ acknowledged
  /\ acknowledged' = acknowledged \cup {e}
  /\ UNCHANGED <<committed, recorded>>

Next == \E e \in Events : Commit(e) \/ Deliver(e) \/ Acknowledge(e)

Safety == Init /\ [][Next]_vars

Spec == Safety /\ \A e \in Events : WF_vars(Deliver(e)) /\ WF_vars(Acknowledge(e))
=============================================================================
