------------------------------ MODULE StartUp ------------------------------
(***************************************************************************)
(* All of main() before it connects: the module configuration and the      *)
(* templates are read, DeviceGeneration makes the devices, initialize()    *)
(* fills the bridge's tables and the devices are listed with the feeds of  *)
(* their templates.  The tables decide which register a reading of the     *)
(* platform reaches, and what start() writes and announces.                *)
(*                                                                         *)
(* Device keys and references are sequences of the parts between their     *)
(* dots: to join them with SEPARATOR, a dot, is to concatenate them.       *)
(***************************************************************************)
EXTENDS DeviceGeneration, Conversions

CONSTANTS
    Key,              \* device -> its key
    Rank,             \* template -> its place in the order of names
    ModuleMappings,   \* JSON mappings of the configuration
    TriedTemplates,   \* bound: JSON templates, for a few devices
    PlainTemplates,   \* bound: JSON templates, for any devices
    FewDevices        \* bound: devices configurations for TriedTemplates

RegisterTypes == {"COIL", "INPUT_CONTACT", "HOLDING_REGISTER", "INPUT_REGISTER"}
DataTypes == {"BOOL", "UINT16", "INT16", "UINT32", "INT32", "FLOAT", "STRING"}
MappingTypes == {"Default", "ReadOnly", "ReadWrite", "WriteOnly", "Attribute"}

(* complete: name, reference, registerType, dataType and address are there. *)
JsonMapping(m) ==
    /\ m.complete \in BOOLEAN
    /\ m.registerType \in RegisterTypes /\ m.dataType \in DataTypes
    /\ m.mappingType \in MappingTypes
    /\ m.address \in Int /\ m.repeat \in Int
    /\ {m.addressCount, m.defaultValue, m.safeMode} \subseteq [is : Kinds, n : Int]

(* files: can the file of the module be read and parsed, has that of the   *)
(* devices, too, an array of templates, and one of devices, and which      *)
(* templates have a name and an array of mappings.                         *)
Files == [module : BOOLEAN, templates : BOOLEAN, devices : BOOLEAN,
          complete : SUBSET Templates]
WholeFiles == [module |-> TRUE, templates |-> TRUE, devices |-> TRUE,
               complete |-> Templates]

(* No key and no reference is empty, and none is used twice. *)
Parts == UNION {{k[i] : i \in DOMAIN k} :
                    k \in {Key[d] : d \in Devices} \cup {m.reference : m \in ModuleMappings}}

ASSUME KeyAssumption ==
    /\ Key \in [Devices -> Seq(Parts) \ {<<>>}]
    /\ \A d, e \in Devices : Key[d] = Key[e] => d = e
ASSUME UnknownAssumption == Unknown \notin Modes
ASSUME RankAssumption ==
    /\ Rank \in [Templates -> Nat]
    /\ \A t, u \in Templates : Rank[t] = Rank[u] => t = u
ASSUME ModuleMappingsAssumption ==
    \A m \in ModuleMappings : JsonMapping(m) /\ m.reference \in Seq(Parts) \ {<<>>}
ASSUME TemplatesTriedAssumption ==
    \A T \in TriedTemplates \cup PlainTemplates :
        /\ T \in [Templates -> Seq(ModuleMappings)]
        /\ \A t \in Templates : \A i, j \in DOMAIN T[t] :
            T[t][i].reference = T[t][j].reference => i = j

VARIABLES
    files,          \* what is there at all, see Files
    moduleJson,     \* the module configuration
    templates,      \* template -> JSON mappings
    stage,          \* how far the constructors have come
    unread,         \* templates still to be read
    registerMapping,  \* m_registerMappingByReference
    defaultValue,     \* m_defaultValueMappingByReference
    repeatedWrite,    \* m_repeatedWriteMappingByReference
    safeMode          \* m_safeModeMappingByReference

tables == <<registerMapping, defaultValue, repeatedWrite, safeMode>>
given == <<files, moduleJson, templates>>
allVars == <<vars, given, stage, unread, tables>>

Stages == {"module", "file", "templates", "devices", "threw"}
NoTable == [n \in {} |-> 0]

StartUpInit ==
    /\ Init
    /\ \/ files = WholeFiles /\ templates \in PlainTemplates
       \/ files = WholeFiles /\ config \in FewDevices /\ templates \in TriedTemplates
       \/ files \in Files /\ config \in FewDevices /\ templates \in PlainTemplates
    /\ moduleJson \in [connectionType : {mode, Unknown}, host : BOOLEAN, serialPort : BOOLEAN]
    /\ stage = "module"
    /\ unread = Templates
    /\ registerMapping = NoTable /\ defaultValue = NoTable
    /\ repeatedWrite = NoTable /\ safeMode = NoTable

-----------------------------------------------------------------------------
(* The constructors.  What they throw is not caught.                       *)

(* The section of the other connection type is not looked at.  All but the *)
(* host and the serial port have defaults, which stand in for wrong values. *)
TcpIpConfiguration == moduleJson.host
SerialRtuConfiguration == moduleJson.serialPort

ModuleConfiguration ==
    CASE moduleJson.connectionType = "TCP/IP" -> TcpIpConfiguration
      [] moduleJson.connectionType = "SERIAL/RTU" -> SerialRtuConfiguration
      [] moduleJson.connectionType \notin Modes -> FALSE

ReadModuleConfiguration ==
    /\ stage = "module"
    /\ stage' = IF files.module /\ ModuleConfiguration THEN "file" ELSE "threw"
    /\ UNCHANGED <<vars, given, unread, tables>>

ReadDevicesFile ==
    /\ stage = "file"
    /\ stage' = IF files.templates THEN "templates" ELSE "threw"
    /\ UNCHANGED <<vars, given, unread, tables>>

IsMissing(json) == json.is = "missing"

(* ModuleMapping: the fields that must be there, and its two checks. *)
Constructs(m) ==
    /\ m.complete
    /\ m.repeat > 0 => ~IsMissing(m.defaultValue)
    /\ ~IsMissing(m.safeMode) =>
            m.registerType \notin {"INPUT_REGISTER", "INPUT_CONTACT"}

Mappings(t) == {templates[t][i] : i \in DOMAIN templates[t]}

(* Mutant: a template without a name is taken. *)
ReadTemplateUnnamed(t) ==
    /\ stage = "templates" /\ t \in unread
    /\ unread' = unread \ {t}
    /\ stage' = IF templates[t] # <<>> /\ \A m \in Mappings(t) : Constructs(m)
                THEN stage ELSE "threw"
    /\ UNCHANGED <<vars, given, tables>>

(* DeviceTemplate: its name and mappings, of which there must be one. *)
ReadTemplate(t) ==
    /\ stage = "templates" /\ t \in unread
    /\ unread' = unread \ {t}
    /\ stage' = IF /\ t \in files.complete
                   /\ templates[t] # <<>> /\ \A m \in Mappings(t) : Constructs(m)
                THEN stage ELSE "threw"
    /\ UNCHANGED <<vars, given, tables>>

TemplatesRead ==
    /\ stage = "templates" /\ unread = {}
    /\ stage' = IF files.devices THEN "devices" ELSE "threw"
    /\ UNCHANGED <<vars, given, unread, tables>>

(* The devices of DevicesConfiguration, the checks of main() and           *)
(* generateDevices().                                                      *)
Generate ==
    /\ stage = "devices"
    /\ \/ Parse \/ CheckDevices
       \/ \E d \in DOMAIN config : GenerateDevice(d)
    /\ UNCHANGED <<given, stage, unread, tables>>

-----------------------------------------------------------------------------
(* initialize(): one row per device and mapping                            *)

Rows ==
    UNION {{[entry |-> e, mapping |-> m] : m \in Mappings(e.template)} : e \in PerEntry}

(* Mutant: the reference alone. *)
NameReference(row) == row.mapping.reference

(* key + SEPARATOR + reference *)
Name(row) == Key[row.entry.key] \o row.mapping.reference

(* deviceAddressesByTemplate is a std::map, its lists are in key order. *)
Precedes(q, r) ==
    \/ Rank[q.entry.template] < Rank[r.entry.template]
    \/ q.entry.template = r.entry.template /\ q.entry.entry < r.entry.entry

(* The tables are maps by name, and emplace() keeps the first row of one. *)
Names(rows) == {Name(r) : r \in rows}
First(rows, n) ==
    CHOOSE r \in rows :
        Name(r) = n /\ \A q \in rows : Name(q) = n => ~Precedes(q, r)

(* What getDefaultValue(), getRepeat() and hasSafeMode() say. *)
HasDefaultValue(m) == ReadTypedValue(m.defaultValue).is # "empty"
HasRepeat(m) == m.repeat > 0
HasSafeMode(m) == ~IsMissing(m.safeMode)

RegisterMapping(row) ==
    LET m == row.mapping
    IN  [slaveAddress |-> row.entry.address, reference |-> m.reference,
         dataType |-> m.dataType,
         registers |-> Registers(m.dataType, Unsigned(m.address, WordSize),
                                 m.addressCount)]

(* The tables; the files of persisted values, which ModbusBridge has, are  *)
(* empty here.                                                             *)
RegisterMappings == [n \in Names(Rows) |-> RegisterMapping(First(Rows, n))]

DefaultValues ==
    LET rows == {r \in Rows : HasDefaultValue(r.mapping)}
    IN  [n \in Names(rows) |-> ReadTypedValue(First(rows, n).mapping.defaultValue)]

RepeatedWrites ==
    LET rows == {r \in Rows : HasRepeat(r.mapping)}
    IN  [n \in Names(rows) |-> First(rows, n).mapping.repeat]

SafeModeValues ==
    LET rows == {r \in Rows : HasSafeMode(r.mapping)}
    IN  [n \in Names(rows) |-> ReadTypedValue(First(rows, n).mapping.safeMode)]

InitializeBridge ==
    /\ stage = "devices"
    /\ Initialize
    /\ registerMapping' = RegisterMappings
    /\ defaultValue' = DefaultValues
    /\ repeatedWrite' = RepeatedWrites
    /\ safeMode' = SafeModeValues
    /\ UNCHANGED <<given, stage, unread>>

ListDevicesWithFeeds ==
    /\ stage = "devices"
    /\ ListDevices
    /\ UNCHANGED <<given, stage, unread, tables>>

StartUpNext ==
    \/ ReadModuleConfiguration
    \/ ReadDevicesFile
    \/ \E t \in Templates : ReadTemplate(t)
    \/ TemplatesRead
    \/ Generate
    \/ InitializeBridge
    \/ ListDevicesWithFeeds

StartUpSpec == StartUpInit /\ [][StartUpNext]_allVars

-----------------------------------------------------------------------------
(* What start() announces and what was registered, by device and reference *)

(* makeReadingsFromMap(): the first two parts of the name are taken for    *)
(* the device and the reference.                                           *)
MakeReadingsFromMap(map, prefix) ==
    {[device |-> <<n[1]>>, reference |-> <<n[2]>>, prefix |-> prefix]
        : n \in DOMAIN map}

Announced ==
    MakeReadingsFromMap(defaultValue, "DFV")
        \cup MakeReadingsFromMap(repeatedWrite, "RPW")
        \cup MakeReadingsFromMap(safeMode, "SMV")

(* Mutant: a safe mode feed only where there is a value. *)
SpecialFeedsOfValues(m) ==
    {p \in {"DFV", "RPW", "SMV"} :
        CASE p = "DFV" -> HasDefaultValue(m)
          [] p = "RPW" -> HasRepeat(m)
          [] p = "SMV" -> ReadTypedValue(m.safeMode).is # "empty"}

(* makeRegistrationDataFromDeviceConfigTemplate(), its special feeds. *)
SpecialFeeds(m) ==
    {p \in {"DFV", "RPW", "SMV"} :
        CASE p = "DFV" -> HasDefaultValue(m)
          [] p = "RPW" -> HasRepeat(m)
          [] p = "SMV" -> HasSafeMode(m)}

Registered ==
    UNION {UNION {{[device |-> Key[e.key], reference |-> m.reference, prefix |-> p]
                        : p \in SpecialFeeds(m)}
                        : m \in Mappings(e.template)}
                        : e \in devicesToRegister}

-----------------------------------------------------------------------------
(* Properties; those of DeviceGeneration hold here too.                    *)

(***************************************************************************)
(* main() comes to connect only with a configuration that has none of the  *)
(* mistakes below, and ends before that only if it has one.  A mapping or  *)
(* template that cannot be made is fatal although no device uses it, and   *)
(* so is one device that lacks a field; a device without an address is     *)
(* not, unless all are.  (readFile(), the constructors, generateDevices()  *)
(* and the checks of main(); what MoreModbus refuses is not in it.)        *)
(***************************************************************************)
WellFormed(m) ==
    /\ m.complete
    /\ m.repeat <= 0 \/ m.defaultValue.is # "missing"
    /\ m.safeMode.is = "missing" \/ m.registerType \in {"COIL", "HOLDING_REGISTER"}

Valid ==
    /\ files = WholeFiles
    /\ \/ moduleJson.connectionType = "TCP/IP" /\ moduleJson.host
       \/ moduleJson.connectionType = "SERIAL/RTU" /\ moduleJson.serialPort
    /\ \A t \in Templates :
        /\ Len(templates[t]) > 0
        /\ \A m \in Mappings(t) : WellFormed(m)
    /\ \A d \in DOMAIN config :
        config[d].complete /\ Template(d) \in Templates
    /\ mode = "TCP/IP" => Cardinality(DOMAIN config) = 1
    /\ \E d \in DOMAIN config : SlaveAddress(d) # 0

ConnectsIffValid ==
    /\ phase = "connect" => Valid
    /\ stage = "threw" \/ phase \in {"quit", "aborted"} => ~Valid

(***************************************************************************)
(* A reading for a reference of a device finds a mapping of that reference *)
(* at that device's address: the mapping of the device's own template,     *)
(* when no address is given twice (initialize() and handleUpdate()).  It   *)
(* needs keys without a dot: with the device "a.b" and the reference "c",  *)
(* "a" and "b.c" have the same name.                                       *)
(***************************************************************************)
KeysUndotted == \A d \in DOMAIN config : Len(Key[d]) = 1

ReadingsFindTheirMapping ==
    phase = "connect" /\ KeysUndotted =>
        \A e \in devicesToRegister : \A m \in Mappings(e.template) :
            LET name == Key[e.key] \o m.reference
                found == registerMapping[name]
            IN  /\ name \in DOMAIN registerMapping
                /\ found.slaveAddress = e.address /\ found.reference = m.reference
                /\ Unambiguous =>
                    found = RegisterMapping([entry |-> e, mapping |-> m])

(***************************************************************************)
(* start() announces values of the special feeds that were registered for  *)
(* the devices, and of all of them, even when two devices share an         *)
(* address.  It needs keys and references without a dot: of "a.b.c" only   *)
(* "a" and "b" are used (initialize(), makeReadingsFromMap() and           *)
(* WolkaboutTemplateFactory).                                              *)
(***************************************************************************)
ReferencesUndotted ==
    \A t \in Templates : \A m \in Mappings(t) : Len(m.reference) = 1

AnnouncementsRegistered ==
    phase = "connect" /\ KeysUndotted /\ ReferencesUndotted => Announced = Registered

(***************************************************************************)
(* A number configured as default value that the type of its mapping can   *)
(* hold is the number the platform sees once start() has written it,       *)
(* through the conversions to int, text and registers and back.  Not so    *)
(* for a negative INT16 attribute, nor for integers a float cannot hold    *)
(* (std::stof() in writeToMapping()).                                      *)
(***************************************************************************)
DefaultIsReported ==
    phase = "connect" /\ KeysUndotted /\ Unambiguous =>
        \A e \in devicesToRegister : \A m \in Mappings(e.template) :
            LET name == Key[e.key] \o m.reference
                type == registerMapping[name].dataType
                content == WriteToMapping(type, defaultValue[name])
            IN  m.defaultValue.is = "number" /\ Holds(m.dataType, m.defaultValue.n) =>
                    /\ ReadingOf(type, content) = m.defaultValue
                    /\ ~(m.dataType = "INT16" /\ m.defaultValue.n < 0) =>
                            AttributeOf(type, content) = m.defaultValue

(***************************************************************************)
(* A mapping takes the registers from its address on, and two mappings     *)
(* that share a register of a device give it the same number, which is how *)
(* reads are grouped.  From half of the addresses on the mappings of 32    *)
(* bits have negative numbers, which only they share (fromJSONMapping()).  *)
(***************************************************************************)
RegistersAgree ==
    phase = "connect" =>
        \A n, o \in DOMAIN registerMapping :
            LET m == registerMapping[n]
                p == registerMapping[o]
            IN  \A k \in DOMAIN m.registers, l \in DOMAIN p.registers :
                    /\ Unsigned(m.registers[k] - m.registers[1], WordSize) = k - 1
                    /\ /\ Unsigned(m.registers[k], WordSize) = Unsigned(p.registers[l], WordSize)
                       /\ m.registers[k] < WordSize /\ p.registers[l] < WordSize
                       /\ \/ m.dataType \in TwoRegisters <=> p.dataType \in TwoRegisters
                          \/ Unsigned(m.registers[k], WordSize) < WordSize \div 2
                       => m.registers[k] = p.registers[l]
=============================================================================
