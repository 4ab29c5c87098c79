------------------------- MODULE MCOutboundValues -------------------------
(* Instances of OutboundValues for TLC. *)
EXTENDS OutboundValues

TwoValues == {0, 1}

(* Every documented combination without options, every option on a register *)
(* that the platform can set, and one that README.md does not document.     *)
TriedMappings ==
    {m \in ModuleMapping :
        \/ /\ Documented(m)
           /\ ~m.defaultValue /\ ~m.autoLocalUpdate /\ m.autoReadAfterWrite
        \/ /\ Documented(m)
           /\ m.registerType = "HOLDING_REGISTER" /\ m.dataType = "UINT16"
        \/ /\ m.registerType = "HOLDING_REGISTER" /\ m.dataType = "STRING"
           /\ m.operationType = "NONE" /\ m.mappingType = "Attribute"
           /\ m.defaultValue /\ ~m.autoLocalUpdate /\ m.autoReadAfterWrite}
=============================================================================
