--------------------------- MODULE MCModbusBridge ---------------------------
(* Instances of ModbusBridge for TLC: two mappings of one device and a feed *)
(* whose mapping was removed.                                               *)
EXTENDS SettingsRefinement, TLC

CONSTANTS t1, t2, pump, valve, removed

OneThread == {t1}
TwoThreads == {t1, t2}

(* No property tells the threads apart: a setting that two of them write at *)
(* once is overlapped, and what is kept of such a one is not looked at.     *)
ThreadSymmetry == Permutations(TwoThreads)

TwoMappings == {pump, valve}
OneMapping == {pump}
OneRemoved == {removed}
NoneRemoved == {}

(* 65541 does not fit in a register; 65536 becomes 0. *)
SmallNumbers == {0, 1, 2, 3, 65541}
SentTexts == {65541, NotANumber}
SentNumbers == {65541}

(* The pump has the three settings, the valve a default value that does not *)
(* parse and a safe mode value of more than 16 bits, and no repeat period.  *)
PumpAndValve ==
    [s \in Settings |->
        CASE s = "DFV" -> [k \in Mappings |-> IF k = pump THEN 1 ELSE NotANumber]
          [] s = "RPW" -> [k \in Mappings |-> IF k = pump THEN 3 ELSE Absent]
          [] s = "SMV" -> [k \in Mappings |-> IF k = pump THEN 2 ELSE 65541]]

Succeeds == {TRUE}
MayFail == BOOLEAN
AllKinds == Settings \cup {"FEED"}
=============================================================================
