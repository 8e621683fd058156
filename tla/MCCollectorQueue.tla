--------------------------- MODULE MCCollectorQueue ---------------------------
(* Small instances of CollectorQueue. *)
EXTENDS CollectorQueue

=============================================================================
