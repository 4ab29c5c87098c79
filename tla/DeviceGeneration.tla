-------------------------- MODULE DeviceGeneration --------------------------
(***************************************************************************)
(* The start of main(): the devices configuration is loaded and checked,   *)
(* generateDevices() gives each device its slave address, initialize()     *)
(* creates the Modbus devices and main() the list of devices to register.  *)
(*                                                                         *)
(* Devices are numbers, in the order of their keys: the configuration is a *)
(* std::map.  deviceTypeMap holds per template the slave addresses of its  *)
(* devices; an entry of that list is named by the device that pushed it,   *)
(* so that two entries of the same address stay two.                       *)
(***************************************************************************)
EXTENDS Integers, FiniteSets

CONSTANTS
    Devices,     \* device keys a configuration can have
    Templates,   \* templates of the configuration
    Unknown,     \* a template name that is not among them
    Raw,         \* numbers given as "slaveAddress"
    Missing,     \* no "slaveAddress", or one that is not a number
    None         \* no device

ASSUME DevicesAssumption == Devices \subseteq Nat /\ None \notin Devices
ASSUME TemplatesAssumption == Unknown \notin Templates
ASSUME RawAssumption == Raw \subseteq Int /\ Missing \notin Int

VARIABLES
    mode,               \* ConnectionType of the module configuration
    config,             \* device key -> its entry of the configuration
    phase,              \* how far main() has come
    pending,            \* devices generateDevices has not looked at
    deviceMap,          \* slave address -> device created
    deviceTypeMap,      \* template -> entries, see above
    modbusDevices,      \* what initialize() adds to the reader
    devicesToRegister   \* what main() registers with the platform

vars == <<mode, config, phase, pending, deviceMap, deviceTypeMap,
          modbusDevices, devicesToRegister>>

Modes == {"TCP/IP", "SERIAL/RTU"}
Phases == {"parse", "generate", "initialize", "list", "connect",
           "quit", "aborted"}

(* complete: name, key and template are there.  An entry without a key has *)
(* the place of a key nevertheless.                                        *)
Entry == [complete : BOOLEAN, slaveAddress : Raw \cup {Missing},
          template : Templates \cup {Unknown}]

(* j["slaveAddress"].get<std::uint16_t>(), 0 when that throws. *)
SlaveAddress(d) ==
    IF config[d].slaveAddress = Missing THEN 0
    ELSE config[d].slaveAddress % 65536

Template(d) == config[d].template

(* The addresses at which devices can be created. *)
Addresses == {r % 65536 : r \in Raw} \ {0}

Init ==
    /\ mode \in Modes
    /\ config \in UNION {[D -> Entry] : D \in SUBSET Devices}
    /\ phase = "parse"
    /\ pending = DOMAIN config
    /\ deviceMap = [a \in Addresses |-> None]
    /\ deviceTypeMap = [t \in Templates |-> {}]
    /\ modbusDevices = {} /\ devicesToRegister = {}

-----------------------------------------------------------------------------
(* What DevicesConfiguration and DeviceInformation ask of a device. *)
Constructed(d) == config[d].complete /\ Template(d) \in Templates

(* DevicesConfiguration throws for a device that lacks a field or has a    *)
(* template that is not there, and nobody catches; then the checks of      *)
(* main() on the number of templates and devices.                          *)
Parse ==
    /\ phase = "parse"
    /\ phase' =
        IF \E d \in DOMAIN config : ~Constructed(d) THEN "aborted"
        ELSE IF \/ Templates = {} \/ DOMAIN config = {}
                \/ mode = "TCP/IP" /\ Cardinality(DOMAIN config) # 1
             THEN "quit"
        ELSE "generate"
    /\ UNCHANGED <<mode, config, pending, deviceMap, deviceTypeMap,
                   modbusDevices, devicesToRegister>>

(* Mutants: the last device of an address replaces the first; a template   *)
(* keeps the first of its entries.                                         *)
GenerateDeviceReplaces(d) ==
    /\ phase = "generate"
    /\ d \in pending /\ \A e \in pending : d <= e
    /\ pending' = pending \ {d}
    /\ LET a == SlaveAddress(d)
           t == Template(d)
       IN  IF a = 0
           THEN UNCHANGED <<deviceMap, deviceTypeMap>>
           ELSE /\ deviceMap' = [deviceMap EXCEPT ![a] = d]
                /\ deviceTypeMap' = [deviceTypeMap EXCEPT ![t] = @ \cup {d}]
    /\ UNCHANGED <<mode, config, phase, modbusDevices, devicesToRegister>>

GenerateDeviceFirstOfTemplate(d) ==
    /\ phase = "generate"
    /\ d \in pending /\ \A e \in pending : d <= e
    /\ pending' = pending \ {d}
    /\ LET a == SlaveAddress(d)
           t == Template(d)
       IN  IF a = 0
           THEN UNCHANGED <<deviceMap, deviceTypeMap>>
           ELSE /\ deviceMap' = IF deviceMap[a] = None
                                THEN [deviceMap EXCEPT ![a] = d]
                                ELSE deviceMap
                /\ deviceTypeMap' = [deviceTypeMap EXCEPT ![t] =
                                        IF @ = {} THEN {d} ELSE @]
    /\ UNCHANGED <<mode, config, phase, modbusDevices, devicesToRegister>>

(* generateDevices(), one device: without an address it is ignored; at an  *)
(* address that is taken emplace() keeps the first device, but the entry   *)
(* is pushed all the same.                                                 *)
GenerateDevice(d) ==
    /\ phase = "generate"
    /\ d \in pending /\ \A e \in pending : d <= e
    /\ pending' = pending \ {d}
    /\ LET a == SlaveAddress(d)
           t == Template(d)
       IN  IF a = 0
           THEN UNCHANGED <<deviceMap, deviceTypeMap>>
           ELSE /\ deviceMap' = IF deviceMap[a] = None
                                THEN [deviceMap EXCEPT ![a] = d]
                                ELSE deviceMap
                /\ deviceTypeMap' = [deviceTypeMap EXCEPT ![t] = @ \cup {d}]
    /\ UNCHANGED <<mode, config, phase, modbusDevices, devicesToRegister>>

CheckDevices ==
    /\ phase = "generate" /\ pending = {}
    /\ phase' = IF \A a \in Addresses : deviceMap[a] = None
                THEN "quit" ELSE "initialize"
    /\ UNCHANGED <<mode, config, pending, deviceMap, deviceTypeMap,
                   modbusDevices, devicesToRegister>>

(* Mutants: the address is not cut to 16 bits; the key is that of the      *)
(* device that pushed the entry.                                           *)
PerEntryUncut ==
    UNION {{[entry |-> d, key |-> deviceMap[SlaveAddress(d)],
             address |-> config[d].slaveAddress, template |-> t]
                : d \in deviceTypeMap[t]} : t \in Templates}

PerEntryOwnKey ==
    UNION {{[entry |-> d, key |-> d,
             address |-> SlaveAddress(d), template |-> t]
                : d \in deviceTypeMap[t]} : t \in Templates}

(* A device of the template for each entry, with the key of the device     *)
(* found at the entry's address.                                           *)
PerEntry ==
    UNION {{[entry |-> d, key |-> deviceMap[SlaveAddress(d)],
             address |-> SlaveAddress(d), template |-> t]
                : d \in deviceTypeMap[t]} : t \in Templates}

(* ModbusBridge::initialize() *)
Initialize ==
    /\ phase = "initialize"
    /\ modbusDevices' = PerEntry
    /\ phase' = "list"
    /\ UNCHANGED <<mode, config, pending, deviceMap, deviceTypeMap,
                   devicesToRegister>>

(* main(): devicesToRegister; an entry whose address has no device is skipped. *)
ListDevices ==
    /\ phase = "list"
    /\ devicesToRegister' = {e \in PerEntry : e.key # None}
    /\ phase' = "connect"
    /\ UNCHANGED <<mode, config, pending, deviceMap, deviceTypeMap,
                   modbusDevices>>

Next ==
    \/ Parse
    \/ \E d \in DOMAIN config : GenerateDevice(d)
    \/ CheckDevices
    \/ Initialize
    \/ ListDevices

Spec == Init /\ [][Next]_vars

-----------------------------------------------------------------------------
TypeOK ==
    /\ mode \in Modes /\ phase \in Phases
    /\ DOMAIN config \subseteq Devices
    /\ pending \subseteq DOMAIN config
    /\ deviceMap \in [Addresses -> DOMAIN config \cup {None}]
    /\ deviceTypeMap \in [Templates -> SUBSET DOMAIN config]
    /\ \A e \in modbusDevices \cup devicesToRegister :
        e.key \in DOMAIN config /\ e.address \in Addresses

Sharing(d) == {e \in DOMAIN config : SlaveAddress(e) = SlaveAddress(d)}

(***************************************************************************)
(* Which devices exist does not depend on more than the configuration: the *)
(* device with the lowest key among those of an address is created, at     *)
(* that address, and no other (generateDevices against its definition).    *)
(***************************************************************************)
LowestKeyWins ==
    phase \in {"initialize", "list", "connect"} =>
        \A a \in Addresses :
            LET candidates == {d \in DOMAIN config : SlaveAddress(d) = a}
            IN  IF candidates = {} THEN deviceMap[a] = None
                ELSE deviceMap[a] \in candidates
                     /\ \A d \in candidates : deviceMap[a] <= d

(***************************************************************************)
(* The bridge finds the slave address of a device by its key and the key   *)
(* by the address (getSlaveAddress, m_deviceKeyBySlaveAddress): no two     *)
(* Modbus devices share a key without sharing the address, nor conversely. *)
(***************************************************************************)
KeysAndAddressesAgree ==
    \A e, f \in modbusDevices : e.key = f.key <=> e.address = f.address

(***************************************************************************)
(* When no address is given twice, every device with an address is polled  *)
(* and registered, exactly once and with its own template, whatever the    *)
(* others are (generateDevices, initialize and the list of main()).        *)
(***************************************************************************)
Unambiguous ==
    \A d \in DOMAIN config : SlaveAddress(d) # 0 => Sharing(d) = {d}

OnceWithOwnTemplate ==
    phase = "connect" /\ Unambiguous =>
        /\ devicesToRegister = modbusDevices
        /\ devicesToRegister =
            {[entry |-> d, key |-> d, address |-> SlaveAddress(d),
              template |-> Template(d)]
                : d \in {c \in DOMAIN config : SlaveAddress(c) # 0}}

(***************************************************************************)
(* Comment of generateDevices: "if the slaveAddress is already occupied    *)
(* device is not valid", and its warning: "Ignoring device...".            *)
(***************************************************************************)
ConflictIgnored ==
    \A e, f \in devicesToRegister : e.address = f.address => e = f

(***************************************************************************)
(* README: "If the user happens to enter an invalid template name, the     *)
(* device won't be created. Module will function if at least one device is *)
(* valid."                                                                 *)
(* No other field of a device is missing here.                             *)
(***************************************************************************)
OneValidDeviceIsEnough ==
    mode = "SERIAL/RTU"
      /\ (\A d \in DOMAIN config : config[d].complete)
      /\ (\E d \in DOMAIN config :
            Template(d) \in Templates /\ SlaveAddress(d) # 0)
    => phase \notin {"quit", "aborted"}
=============================================================================
