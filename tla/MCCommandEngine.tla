---------------------------- MODULE MCCommandEngine ----------------------------
(* Model values for TLC: two commands, the second a follow-up queue command. *)
EXTENDS CommandEngine, TLC

CONSTANTS c1, q1, k1, k2

MCCommands == {c1, q1}
MCQueueCommands == {q1}
MCCallers == {k1, k2}
MCSymmetry == Permutations(MCCallers)
=============================================================================
