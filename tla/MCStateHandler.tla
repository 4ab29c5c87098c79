--------------------------- MODULE MCStateHandler ---------------------------
(* Instances of StateHandler for TLC. *)
EXTENDS StateHandler, TLC

CONSTANTS t1, t2

OneThread == {t1}
TwoThreads == {t1, t2}

(* Threads are interchangeable: no property names one. *)
ThreadSymmetry == Permutations(Threads)
=============================================================================
