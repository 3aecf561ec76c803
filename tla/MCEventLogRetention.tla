------------------------- MODULE MCEventLogRetention -------------------------
(* Small bounds for TLC. *)
EXTENDS EventLogRetention
=============================================================================
