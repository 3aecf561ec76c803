--------------------------- MODULE MCDomainEventBus ---------------------------
(* Model values for TLC: two subscribers of the same kind. *)
EXTENDS DomainEventBus

CONSTANTS s1, s2

MCSubscribers == {s1, s2}
=============================================================================
