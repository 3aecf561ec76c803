------------------------- MODULE MCOrchestrationEngine -------------------------
(* Model values for TLC: one command, which may also commit without events. *)
EXTENDS OrchestrationEngine

CONSTANTS q1, k1, s1

MCCommands == {q1}
MCQueueCommands == {q1}
MCCallers == {k1}
MCSubscribers == {s1}
=============================================================================
