--------------------------- MODULE MCModbusModule ---------------------------
(* Instances of ModbusModule for TLC: two mappings of one device. *)
EXTENDS ModbusModule

CONSTANTS t1, t2, pump, valve

OneThread == {t1}
TwoMappings == {pump, valve}
OneMapping == {pump}
NoneRemoved == {}

SmallNumbers == {0, 1, 2, 3, 65541}
SentTexts == {3, NotANumber}

(* The pump has the three settings, the valve a default value that does not *)
(* parse and a safe mode value of more than 16 bits.                        *)
PumpAndValve ==
    [s \in {"DFV", "RPW", "SMV"} |->
        CASE s = "DFV" -> [k \in Mappings |-> IF k = pump THEN 1 ELSE NotANumber]
          [] s = "RPW" -> [k \in Mappings |-> IF k = pump THEN 3 ELSE Absent]
          [] s = "SMV" -> [k \in Mappings |-> IF k = pump THEN 2 ELSE 65541]]

Succeeds == {TRUE}
MayFail == BOOLEAN
AllKinds == {"DFV", "RPW", "SMV", "FEED"}
NoKinds == {}
=============================================================================
