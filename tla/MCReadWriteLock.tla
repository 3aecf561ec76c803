---------------------------- MODULE MCReadWriteLock ----------------------------
(* Model values for TLC: fibers of the same kind. *)
EXTENDS ReadWriteLock

CONSTANTS f1, f2, f3, f4

MCFibers == {f1, f2, f3, f4}
=============================================================================
