----------------------- MODULE DeviceGenerationProofs -----------------------
(***************************************************************************)
(* What holds of DeviceGeneration.tla for every set of devices, templates  *)
(* and addresses.                                                          *)
(***************************************************************************)
EXTENDS DeviceGeneration, TLAPS

Seen == DOMAIN config \ pending

ConfigOK ==
    /\ DOMAIN config \subseteq Devices
    /\ \A d \in DOMAIN config : config[d] \in Entry

(* What generateDevices() has built of the devices it has seen, in key     *)
(* order: the invariant that makes LowestKeyWins inductive.                *)
Generated ==
    /\ pending \subseteq DOMAIN config
    /\ deviceMap \in [Addresses -> DOMAIN config \cup {None}]
    /\ deviceTypeMap =
        [t \in Templates |-> {d \in Seen : SlaveAddress(d) # 0 /\ Template(d) = t}]
    /\ \A d \in Seen : \A e \in pending : d <= e
    /\ \A a \in Addresses :
        deviceMap[a] # None => deviceMap[a] \in Seen /\ SlaveAddress(deviceMap[a]) = a
    /\ \A d \in Seen :
        SlaveAddress(d) # 0 =>
            deviceMap[SlaveAddress(d)] # None /\ deviceMap[SlaveAddress(d)] <= d

(* What each phase of main() may rely on. *)
Reached ==
    /\ mode \in Modes /\ phase \in Phases
    /\ phase \in {"generate", "initialize", "list", "connect"} =>
        \A d \in DOMAIN config : Constructed(d)
    /\ phase \in {"initialize", "list", "connect"} => pending = {}
    /\ modbusDevices = IF phase \in {"list", "connect"} THEN PerEntry ELSE {}
    /\ devicesToRegister =
        IF phase = "connect" THEN {e \in PerEntry : e.key # None} ELSE {}

GenerationInvariant == ConfigOK /\ Generated /\ Reached

-----------------------------------------------------------------------------
(* An address, once cut to 16 bits, is that of no device or one of Addresses. *)
LEMMA SlaveAddressType ==
    ConfigOK => \A d \in DOMAIN config : SlaveAddress(d) \in Addresses \cup {0}
<1> SUFFICES ASSUME ConfigOK, NEW d \in DOMAIN config
             PROVE  SlaveAddress(d) \in Addresses \cup {0}
  OBVIOUS
<1>1. config[d].slaveAddress \in Raw \cup {Missing}
  BY DEF ConfigOK, Entry
<1> QED BY <1>1 DEF SlaveAddress, Addresses

(* Every entry has the key of the device created at its address. *)
LEMMA EntryType ==
    ASSUME ConfigOK, Generated, NEW e \in PerEntry
    PROVE  /\ e.address \in Addresses
           /\ e.key = deviceMap[e.address]
           /\ e.key \in Seen /\ SlaveAddress(e.key) = e.address
<1>1. PICK t \in Templates : \E d \in deviceTypeMap[t] :
        e = [entry |-> d, key |-> deviceMap[SlaveAddress(d)],
             address |-> SlaveAddress(d), template |-> t]
  BY Zenon DEF PerEntry
<1>2. PICK d \in deviceTypeMap[t] :
        e = [entry |-> d, key |-> deviceMap[SlaveAddress(d)],
             address |-> SlaveAddress(d), template |-> t]
  BY <1>1
<1>3. d \in Seen /\ SlaveAddress(d) # 0
  BY DEF Generated
<1>4. SlaveAddress(d) \in Addresses
  BY <1>3, SlaveAddressType DEF Seen
<1>5. deviceMap[SlaveAddress(d)] # None
  BY <1>3 DEF Generated
<1>6. /\ deviceMap[SlaveAddress(d)] \in Seen
      /\ SlaveAddress(deviceMap[SlaveAddress(d)]) = SlaveAddress(d)
  BY <1>4, <1>5 DEF Generated
<1>7. e.key = deviceMap[SlaveAddress(d)] /\ e.address = SlaveAddress(d)
  BY <1>2
<1> QED BY <1>4, <1>6, <1>7

-----------------------------------------------------------------------------
LEMMA GenerationInit == Init => GenerationInvariant
<1> SUFFICES ASSUME Init PROVE GenerationInvariant
  OBVIOUS
<1>1. PICK D \in SUBSET Devices : config \in [D -> Entry]
  BY DEF Init
<1>2. ConfigOK
  BY <1>1 DEF ConfigOK
<1>3. Seen = {}
  BY DEF Init, Seen
<1>4. Generated
  BY <1>3 DEF Init, Generated
<1>5. Reached
  BY DEF Init, Reached, Phases
<1> QED BY <1>2, <1>4, <1>5 DEF GenerationInvariant

LEMMA GenerateDeviceStep ==
    ASSUME GenerationInvariant, NEW d \in DOMAIN config, GenerateDevice(d)
    PROVE  GenerationInvariant'
<1> DEFINE a == SlaveAddress(d)
           SeenNow == Seen \cup {d}
<1>1. /\ config' = config /\ mode' = mode /\ phase' = phase
      /\ modbusDevices' = modbusDevices /\ devicesToRegister' = devicesToRegister
      /\ phase = "generate" /\ d \in pending /\ pending' = pending \ {d}
      /\ \A e \in pending : d <= e
  BY DEF GenerateDevice
<1>2. ConfigOK' /\ ConfigOK
  BY <1>1 DEF GenerationInvariant, ConfigOK
<1>3. Seen' = SeenNow
  BY <1>1 DEF Seen, GenerationInvariant, Generated
<1>4. \A c : SlaveAddress(c)' = SlaveAddress(c) /\ Template(c)' = Template(c)
  BY <1>1 DEF SlaveAddress, Template
<1>5. a \in Addresses \cup {0}
  BY <1>2, SlaveAddressType
<1>6. DOMAIN config \subseteq Nat /\ None \notin DOMAIN config
  BY <1>2, DevicesAssumption DEF ConfigOK
<1>7. Template(d) \in Templates
  BY <1>1 DEF GenerationInvariant, Reached, Constructed
<1>8. deviceMap' \in [Addresses -> DOMAIN config \cup {None}]
  BY <1>5 DEF GenerateDevice, GenerationInvariant, Generated
<1>9. deviceTypeMap' =
        [t \in Templates |-> {c \in SeenNow : SlaveAddress(c) # 0 /\ Template(c) = t}]
  <2>1. CASE a = 0
    BY <2>1 DEF GenerateDevice, GenerationInvariant, Generated
  <2>2. CASE a # 0
    <3>1. deviceTypeMap' = [deviceTypeMap EXCEPT ![Template(d)] = @ \cup {d}]
      BY <2>2 DEF GenerateDevice
    <3>2. \A t \in Templates :
            deviceTypeMap'[t] =
                {c \in SeenNow : SlaveAddress(c) # 0 /\ Template(c) = t}
      BY <2>2, <3>1, <1>7 DEF GenerationInvariant, Generated
    <3>3. deviceTypeMap' = [t \in Templates |-> deviceTypeMap'[t]]
      BY <3>1 DEF GenerationInvariant, Generated
    <3> QED BY <3>2, <3>3
  <2> QED BY <2>1, <2>2
<1>10. \A c \in SeenNow : \A e \in pending' : c <= e
  BY <1>1 DEF GenerationInvariant, Generated
<1>11. \A b \in Addresses :
        deviceMap'[b] # None =>
            deviceMap'[b] \in SeenNow /\ SlaveAddress(deviceMap'[b]) = b
  <2> SUFFICES ASSUME NEW b \in Addresses, deviceMap'[b] # None
               PROVE  deviceMap'[b] \in SeenNow /\ SlaveAddress(deviceMap'[b]) = b
    OBVIOUS
  <2>1. deviceMap'[b] = deviceMap[b] \/ (deviceMap'[b] = d /\ b = a)
    <3>1. deviceMap' = deviceMap \/ deviceMap' = [deviceMap EXCEPT ![a] = d]
      BY DEF GenerateDevice
    <3>2. deviceMap \in [Addresses -> DOMAIN config \cup {None}]
      BY DEF GenerationInvariant, Generated
    <3> HIDE DEF a
    <3> QED BY <3>1, <3>2
  <2> QED BY <2>1 DEF GenerationInvariant, Generated
<1>12. \A c \in SeenNow :
        SlaveAddress(c) # 0 =>
            deviceMap'[SlaveAddress(c)] # None /\ deviceMap'[SlaveAddress(c)] <= c
  <2> SUFFICES ASSUME NEW c \in SeenNow, SlaveAddress(c) # 0
               PROVE  /\ deviceMap'[SlaveAddress(c)] # None
                      /\ deviceMap'[SlaveAddress(c)] <= c
    OBVIOUS
  <2>1. SlaveAddress(c) \in Addresses
    BY <1>2, SlaveAddressType DEF Seen
  <2>2. CASE deviceMap[SlaveAddress(c)] # None
    <3>1. deviceMap'[SlaveAddress(c)] = deviceMap[SlaveAddress(c)]
      BY <2>1, <2>2 DEF GenerateDevice, GenerationInvariant, Generated
    <3>2. deviceMap[SlaveAddress(c)] \in Seen
      BY <2>1, <2>2 DEF GenerationInvariant, Generated
    <3>3. deviceMap[SlaveAddress(c)] <= c
      BY <3>2, <1>1 DEF GenerationInvariant, Generated
    <3> QED BY <2>2, <3>1, <3>3
  <2>3. CASE deviceMap[SlaveAddress(c)] = None
    <3>1. c = d
      BY <2>3 DEF GenerationInvariant, Generated
    <3>2. deviceMap'[a] = d
      BY <2>1, <2>3, <3>1 DEF GenerateDevice, GenerationInvariant, Generated
    <3> QED BY <3>1, <3>2, <1>6
  <2> QED BY <2>2, <2>3
<1> HIDE DEF a, SeenNow
<1>13. Generated'
  <2>1. (pending \subseteq DOMAIN config)'
    BY <1>1 DEF GenerationInvariant, Generated
  <2>3. (deviceTypeMap = [t \in Templates |->
            {e \in Seen : SlaveAddress(e) # 0 /\ Template(e) = t}])'
    BY <1>3, <1>4, <1>9
  <2>4. (\A e \in Seen : \A f \in pending : e <= f)'
    BY <1>3, <1>10
  <2>5. (\A b \in Addresses : deviceMap[b] # None =>
            deviceMap[b] \in Seen /\ SlaveAddress(deviceMap[b]) = b)'
    BY <1>3, <1>4, <1>11
  <2>6. (\A e \in Seen : SlaveAddress(e) # 0 =>
            deviceMap[SlaveAddress(e)] # None /\ deviceMap[SlaveAddress(e)] <= e)'
    BY <1>3, <1>4, <1>12
  <2>7. (deviceMap \in [Addresses -> DOMAIN config \cup {None}])'
    BY <1>1, <1>8
  <2> QED BY <2>1, <2>3, <2>4, <2>5, <2>6, <2>7, Zenon DEF Generated
<1>14. Reached'
  <2>1. \A c : Constructed(c)' = Constructed(c)
    BY <1>1, <1>4 DEF Constructed
  <2>2. PerEntry' = PerEntry \/ phase \notin {"list", "connect"}
    BY <1>1
  <2> QED BY <1>1, <2>1, <2>2 DEF GenerationInvariant, Reached
<1> QED BY <1>2, <1>13, <1>14 DEF GenerationInvariant

(* The steps of main() before and after the loop change neither map. *)
LEMMA MainStep ==
    ASSUME GenerationInvariant,
           \/ Parse \/ CheckDevices \/ Initialize \/ ListDevices
           \/ UNCHANGED vars
    PROVE  GenerationInvariant'
<1>1. /\ config' = config /\ mode' = mode /\ pending' = pending
      /\ deviceMap' = deviceMap /\ deviceTypeMap' = deviceTypeMap
  BY DEF Parse, CheckDevices, Initialize, ListDevices, vars
<1>2. /\ \A c : SlaveAddress(c)' = SlaveAddress(c) /\ Template(c)' = Template(c)
      /\ Seen' = Seen /\ \A c : Constructed(c)' = Constructed(c)
  BY <1>1 DEF SlaveAddress, Template, Seen, Constructed
<1>3. ConfigOK'
  BY <1>1 DEF GenerationInvariant, ConfigOK
<1>4. Generated'
  BY <1>1, <1>2 DEF GenerationInvariant, Generated
<1>5. PerEntry' = PerEntry
  BY <1>1, <1>2 DEF PerEntry
<1>6. Reached'
  <2>1. CASE Parse
    <3>1. /\ phase = "parse" /\ phase' \in {"aborted", "quit", "generate"}
          /\ UNCHANGED <<modbusDevices, devicesToRegister>>
          /\ phase' = "generate" => \A d \in DOMAIN config : Constructed(d)
      BY <2>1 DEF Parse
    <3> QED BY <3>1, <1>1, <1>2 DEF GenerationInvariant, Reached, Phases
  <2>2. CASE CheckDevices
    BY <2>2, <1>1, <1>2 DEF CheckDevices, GenerationInvariant, Reached, Phases
  <2>3. CASE Initialize
    BY <2>3, <1>1, <1>2, <1>5 DEF Initialize, GenerationInvariant, Reached, Phases
  <2>4. CASE ListDevices
    BY <2>4, <1>1, <1>2, <1>5 DEF ListDevices, GenerationInvariant, Reached, Phases
  <2>5. CASE UNCHANGED vars
    BY <2>5, <1>1, <1>2, <1>5 DEF vars, GenerationInvariant, Reached
  <2> QED BY <2>1, <2>2, <2>3, <2>4, <2>5
<1> QED BY <1>3, <1>4, <1>6 DEF GenerationInvariant

LEMMA GenerationStep ==
    GenerationInvariant /\ [Next]_vars => GenerationInvariant'
BY GenerateDeviceStep, MainStep DEF Next

(* The inductive invariant of start-up holds. *)
THEOREM GenerationCorrect == Spec => []GenerationInvariant
BY GenerationInit, GenerationStep, PTL DEF Spec

-----------------------------------------------------------------------------
(* The state of start-up always has its type. *)
THEOREM GenerationTypeCorrect == Spec => []TypeOK
<1>1. ASSUME GenerationInvariant PROVE TypeOK
  <2>1. deviceTypeMap \in [Templates -> SUBSET DOMAIN config]
    BY <1>1 DEF GenerationInvariant, Generated, Seen
  <2>2. ASSUME NEW e \in modbusDevices \cup devicesToRegister
        PROVE  e.key \in DOMAIN config /\ e.address \in Addresses
    <3>1. e \in PerEntry
      BY <1>1 DEF GenerationInvariant, Reached
    <3> QED BY <1>1, <3>1, EntryType DEF GenerationInvariant, Seen
  <2> QED
    BY <1>1, <2>1, <2>2 DEF GenerationInvariant, ConfigOK, Generated, Reached, TypeOK
<1> QED BY <1>1, GenerationCorrect, PTL

(* The device created at an address is the one with the lowest key among   *)
(* those that ask for it, whatever the configuration (generateDevices).    *)
THEOREM LowestKeyAlwaysWins == Spec => []LowestKeyWins
<1>1. ASSUME GenerationInvariant PROVE LowestKeyWins
  <2> SUFFICES ASSUME phase \in {"initialize", "list", "connect"},
                      NEW a \in Addresses
               PROVE  LET candidates == {d \in DOMAIN config : SlaveAddress(d) = a}
                      IN  IF candidates = {} THEN deviceMap[a] = None
                          ELSE deviceMap[a] \in candidates
                               /\ \A d \in candidates : deviceMap[a] <= d
    BY DEF LowestKeyWins
  <2>1. Seen = DOMAIN config
    BY <1>1 DEF GenerationInvariant, Reached, Seen
  <2>2. a # 0
    BY DEF Addresses
  <2>3. deviceMap[a] # None =>
            deviceMap[a] \in DOMAIN config /\ SlaveAddress(deviceMap[a]) = a
    BY <1>1, <2>1 DEF GenerationInvariant, Generated
  <2>4. \A d \in DOMAIN config : SlaveAddress(d) = a =>
            deviceMap[a] # None /\ deviceMap[a] <= d
    BY <1>1, <2>1, <2>2 DEF GenerationInvariant, Generated
  <2> QED BY <2>3, <2>4
<1> QED BY <1>1, GenerationCorrect, PTL

(* Two Modbus devices share a key exactly when they share an address, so   *)
(* that the bridge finds either by the other.                              *)
THEOREM KeysAndAddressesAlwaysAgree == Spec => []KeysAndAddressesAgree
<1>1. ASSUME GenerationInvariant PROVE KeysAndAddressesAgree
  <2> SUFFICES ASSUME NEW e \in modbusDevices, NEW f \in modbusDevices
               PROVE  e.key = f.key <=> e.address = f.address
    BY DEF KeysAndAddressesAgree
  <2>1. e \in PerEntry /\ f \in PerEntry
    BY <1>1 DEF GenerationInvariant, Reached
  <2>2. e.key = deviceMap[e.address] /\ SlaveAddress(e.key) = e.address
    BY <1>1, <2>1, EntryType DEF GenerationInvariant
  <2>3. f.key = deviceMap[f.address] /\ SlaveAddress(f.key) = f.address
    BY <1>1, <2>1, EntryType DEF GenerationInvariant
  <2> QED BY <2>2, <2>3
<1> QED BY <1>1, GenerationCorrect, PTL

(* When no address is given twice, every device with an address is polled  *)
(* and registered once, with its own key and template.                     *)
THEOREM OnceWithOwnTemplateAlways == Spec => []OnceWithOwnTemplate
<1>1. ASSUME GenerationInvariant PROVE OnceWithOwnTemplate
  <2> SUFFICES ASSUME phase = "connect", Unambiguous
               PROVE  /\ devicesToRegister = modbusDevices
                      /\ devicesToRegister =
                            {[entry |-> d, key |-> d, address |-> SlaveAddress(d),
                              template |-> Template(d)]
                                : d \in {c \in DOMAIN config : SlaveAddress(c) # 0}}
    BY Zenon DEF OnceWithOwnTemplate
  <2> DEFINE Own(d) == [entry |-> d, key |-> d, address |-> SlaveAddress(d),
                        template |-> Template(d)]
             Addressed == {c \in DOMAIN config : SlaveAddress(c) # 0}
  <2>1. Seen = DOMAIN config
    BY <1>1 DEF GenerationInvariant, Reached, Seen
  <2>2. modbusDevices = PerEntry /\ devicesToRegister = {e \in PerEntry : e.key # None}
    BY <1>1 DEF GenerationInvariant, Reached
  <2>3. ASSUME NEW e \in PerEntry PROVE e.key # None
    <3>1. e.key \in Devices
      BY <1>1, EntryType DEF GenerationInvariant, ConfigOK, Seen
    <3> QED BY <3>1, DevicesAssumption
  <2>4. ASSUME NEW d \in Addressed PROVE deviceMap[SlaveAddress(d)] = d
    <3>1. SlaveAddress(d) \in Addresses
      BY <1>1, SlaveAddressType DEF GenerationInvariant
    <3>2. deviceMap[SlaveAddress(d)] # None
      BY <1>1, <2>1 DEF GenerationInvariant, Generated
    <3>3. deviceMap[SlaveAddress(d)] \in Sharing(d)
      BY <1>1, <2>1, <3>1, <3>2 DEF GenerationInvariant, Generated, Sharing
    <3> QED BY <3>3 DEF Unambiguous
  <2>5. \A t \in Templates : deviceTypeMap[t] = {d \in Addressed : Template(d) = t}
    BY <1>1, <2>1 DEF GenerationInvariant, Generated
  <2>6. \A d \in Addressed : Template(d) \in Templates
    BY <1>1 DEF GenerationInvariant, Reached, Constructed
  <2>7. \A t \in Templates : \A d \in deviceTypeMap[t] :
            Own(d) = [entry |-> d, key |-> deviceMap[SlaveAddress(d)],
                      address |-> SlaveAddress(d), template |-> t]
    BY <2>4, <2>5
  <2> HIDE DEF Own, Addressed
  <2>8. PerEntry = UNION {{Own(d) : d \in deviceTypeMap[t]} : t \in Templates}
    <3> DEFINE Entries(t) ==
            {[entry |-> d, key |-> deviceMap[SlaveAddress(d)],
              address |-> SlaveAddress(d), template |-> t] : d \in deviceTypeMap[t]}
    <3>1. \A t \in Templates : Entries(t) = {Own(d) : d \in deviceTypeMap[t]}
      BY <2>7
    <3>2. PerEntry = UNION {Entries(t) : t \in Templates}
      BY Zenon DEF PerEntry
    <3> HIDE DEF Entries
    <3> QED BY <3>1, <3>2
  <2>9. PerEntry = {Own(d) : d \in Addressed}
    BY <2>5, <2>6, <2>8
  <2>10. devicesToRegister = modbusDevices
    BY <2>2, <2>3
  <2> QED BY <2>2, <2>9, <2>10 DEF Own, Addressed
<1> QED BY <1>1, GenerationCorrect, PTL
=============================================================================
