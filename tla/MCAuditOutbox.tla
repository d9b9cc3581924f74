--------------------------- MODULE MCAuditOutbox ---------------------------
(***************************************************************************)
(* Small instances of AuditOutbox for TLC.                                 *)
(***************************************************************************)
EXTENDS AuditOutbox

MCEvents == 1..3
=============================================================================
