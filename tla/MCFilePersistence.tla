------------------------- MODULE MCFilePersistence -------------------------
(* Instances of FilePersistence for TLC: two threads that store values of  *)
(* two mappings of one kind of setting.                                    *)
EXTENDS FilePersistence

CONSTANTS t1, t2, pump, valve, low, high

TwoThreads == {t1, t2}
TwoKeys == {pump, valve}
TwoValues == {low, high}
AnyOutcome == BOOLEAN
=============================================================================
