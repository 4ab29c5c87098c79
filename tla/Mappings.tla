------------------------------ MODULE Mappings ------------------------------
(***************************************************************************)
(* What becomes of one mapping of a template: WolkaboutTemplateFactory     *)
(* registers it with the platform, RegisterMappingFactory makes it a       *)
(* MoreModbus mapping, and the bridge forms a reading or an attribute of   *)
(* each of its values.  Pure operators on a mapping; byte orders and the   *)
(* encodings of strings are left out, a register holds the mapping's value. *)
(***************************************************************************)
EXTENDS Naturals

RegisterTypes == {"COIL", "INPUT_CONTACT", "HOLDING_REGISTER", "INPUT_REGISTER"}
DataTypes == {"BOOL", "UINT16", "INT16", "UINT32", "INT32", "FLOAT", "STRING"}
OperationTypes == {"NONE", "TAKE_BIT", "MERGE", "MERGE_FLOAT", "STRINGIFY"}
MappingTypes == {"Default", "ReadOnly", "ReadWrite", "WriteOnly", "Attribute"}

(* The fields of ModuleMapping that matter here; defaultValue is "has one". *)
ModuleMapping ==
    [registerType : RegisterTypes, dataType : DataTypes,
     operationType : OperationTypes, mappingType : MappingTypes,
     defaultValue : BOOLEAN,
     autoLocalUpdate : BOOLEAN, autoReadAfterWrite : BOOLEAN]

(* The combinations of register, data and operation type README.md lists. *)
Documented(m) ==
    \/ m.registerType \in {"COIL", "INPUT_CONTACT"}
       /\ m.dataType = "BOOL" /\ m.operationType = "NONE"
    \/ m.registerType \in {"HOLDING_REGISTER", "INPUT_REGISTER"}
       /\ <<m.dataType, m.operationType>> \in
            {<<"BOOL", "TAKE_BIT">>, <<"UINT16", "NONE">>, <<"INT16", "NONE">>,
             <<"UINT32", "MERGE">>, <<"INT32", "MERGE">>,
             <<"FLOAT", "MERGE_FLOAT">>, <<"FLOAT", "NONE">>,
             <<"STRING", "STRINGIFY">>}

Writable(m) == m.registerType \in {"COIL", "HOLDING_REGISTER"}

-----------------------------------------------------------------------------
(* WolkaboutTemplateFactory                                                *)

(* Mutant: strings are numbers. *)
GetDataTypeWithoutStrings(m) ==
    IF m.registerType \in {"COIL", "INPUT_CONTACT"} \/ m.operationType = "TAKE_BIT"
    THEN "BOOLEAN" ELSE "NUMERIC"

(* The type is chosen by register and operation, not by the data type. *)
GetDataTypeFromMapping(m) ==
    CASE m.registerType \in {"COIL", "INPUT_CONTACT"} -> "BOOLEAN"
      [] m.registerType \notin {"COIL", "INPUT_CONTACT"} ->
            CASE m.operationType = "TAKE_BIT" -> "BOOLEAN"
              [] m.operationType = "STRINGIFY" -> "STRING"
              [] m.operationType \notin {"TAKE_BIT", "STRINGIFY"} -> "NUMERIC"

(* IN: only the module sets the feed; IN_OUT: the platform does as well. *)
GetFeedTypeFromMapping(m) ==
    IF \/ m.mappingType = "Default" /\ Writable(m)
       \/ m.mappingType \in {"ReadWrite", "WriteOnly"}
    THEN "IN_OUT" ELSE "IN"

(* The value is a feed or an attribute; a default value is a feed of its own. *)
MakeRegistrationData(m) ==
    {IF m.mappingType = "Attribute" THEN "attribute" ELSE "feed"}
        \cup (IF m.defaultValue THEN {"DFV"} ELSE {})

-----------------------------------------------------------------------------
(* RegisterMappingFactory: what MoreModbus is told of the mapping.  The    *)
(* operation types are those its mapping may then report.                  *)

MoreModbusMapping(m, operationTypes) ==
    [readRestricted |-> m.mappingType = "WriteOnly",
     autoLocalUpdate |-> m.autoLocalUpdate,
     operationTypes |-> operationTypes]

(* BOOL, UINT16, INT16 *)
FromOneRegister(m) ==
    MoreModbusMapping(m,
        {IF m.dataType = "BOOL" /\ m.operationType = "TAKE_BIT"
         THEN "TAKE_BIT" ELSE "NONE"})

(* UINT32, INT32, and FLOAT: FloatMapping is not told the operation type,  *)
(* so it may report either.                                                *)
FromTwoRegisters(m) ==
    MoreModbusMapping(m,
        IF m.dataType = "FLOAT" THEN {"NONE", "MERGE_FLOAT"} ELSE {m.operationType})

(* STRING: as many registers as it has. *)
FromRegisters(m) == MoreModbusMapping(m, {m.operationType})

FromJSONMapping(m) ==
    CASE m.dataType \in {"BOOL", "UINT16", "INT16"} -> FromOneRegister(m)
      [] m.dataType \in {"UINT32", "INT32", "FLOAT"} -> FromTwoRegisters(m)
      [] m.dataType = "STRING" -> FromRegisters(m)

-----------------------------------------------------------------------------
(* ModbusBridge: the messages for a value, none if they cannot be formed   *)

Message(to, type, v) == <<[to |-> to, type |-> type, value |-> v]>>

FormReadingForMappingValue(m, v) ==
    Message("feed", IF m.dataType = "STRING" THEN "STRING" ELSE "NUMERIC", v)

FormAttributeForMappingValue(m, operation, v) ==
    CASE m.dataType \in {"UINT16", "INT16"} -> Message("attribute", "NUMERIC", v)
      [] m.dataType \in {"UINT32", "INT32"} /\ operation = "MERGE" ->
            Message("attribute", "NUMERIC", v)
      [] m.dataType = "FLOAT" /\ operation = "MERGE_FLOAT" ->
            Message("attribute", "NUMERIC", v)
      [] m.dataType = "STRING" /\ operation = "STRINGIFY" ->
            Message("attribute", "STRING", v)
      [] OTHER -> <<>>

(* The overload for bool does not look at the mapping type. *)
SendOutBool(v) == Message("feed", "BOOLEAN", v)

SendOutBytes(m, v) ==
    IF m.mappingType = "Attribute"
    THEN {FormAttributeForMappingValue(m, operation, v)
            : operation \in FromJSONMapping(m).operationTypes}
    ELSE {FormReadingForMappingValue(m, v)}

SendOutMappingValue(m, v) ==
    IF m.dataType = "BOOL" THEN {SendOutBool(v)} ELSE SendOutBytes(m, v)
=============================================================================
