-------------------------- MODULE MCServerQueueDrain --------------------------
(* Small bounds for TLC.                                                      *)
EXTENDS ServerQueueDrain
=============================================================================
