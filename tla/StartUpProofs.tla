--------------------------- MODULE StartUpProofs ---------------------------
(***************************************************************************)
(* What holds of StartUp.tla for every configuration.  Its steps contain    *)
(* those of DeviceGeneration.tla, so that all theorems about that apply.   *)
(***************************************************************************)
EXTENDS StartUp, ConversionsProofs, DeviceGenerationProofs, SequenceTheorems,
        WellFoundedInduction

ModuleSound == files.module /\ ModuleConfiguration

TemplateSound(t) ==
    /\ t \in files.complete
    /\ templates[t] # <<>> /\ \A m \in Mappings(t) : Constructs(m)

(* What the constructors have found. *)
StageOK ==
    /\ files \in Files
    /\ templates \in TriedTemplates \cup PlainTemplates
    /\ moduleJson.connectionType \in {mode, Unknown}
    /\ stage # "devices" => phase = "parse"
    /\ stage \in {"file", "templates", "devices"} => ModuleSound
    /\ stage \in {"templates", "devices"} => files.templates
    /\ stage # "threw" => \A t \in Templates \ unread : TemplateSound(t)
    /\ stage = "devices" => unread = {} /\ files.devices
    /\ stage = "threw" =>
        \/ ~ModuleSound \/ ~files.templates \/ ~files.devices
        \/ \E t \in Templates : ~TemplateSound(t)

(* What the checks of main() have found. *)
OneIfTcp == mode = "TCP/IP" => Cardinality(DOMAIN config) = 1

ChecksOK ==
    /\ phase \in {"generate", "initialize", "list", "connect"} => OneIfTcp
    /\ phase \in {"initialize", "list", "connect"} =>
        \E d \in DOMAIN config : SlaveAddress(d) # 0
    /\ phase = "aborted" => \E d \in DOMAIN config : ~Constructed(d)
    /\ phase = "quit" => ~OneIfTcp \/ \A d \in DOMAIN config : SlaveAddress(d) = 0

(* What initialize() has filled in. *)
TablesOK ==
    phase \in {"list", "connect"} =>
        /\ registerMapping = RegisterMappings
        /\ defaultValue = DefaultValues
        /\ repeatedWrite = RepeatedWrites
        /\ safeMode = SafeModeValues

StartUpInvariant == StageOK /\ ChecksOK /\ TablesOK

-----------------------------------------------------------------------------
(* Every step is one of DeviceGeneration or leaves its variables alone. *)
LEMMA StartUpStepGenerates == [StartUpNext]_allVars => [Next]_vars
<1> SUFFICES ASSUME [StartUpNext]_allVars PROVE [Next]_vars
  OBVIOUS
<1>1. CASE ReadModuleConfiguration
  BY <1>1 DEF ReadModuleConfiguration
<1>2. CASE ReadDevicesFile \/ \E t \in Templates : ReadTemplate(t)
  BY <1>2 DEF ReadDevicesFile, ReadTemplate
<1>3. CASE TemplatesRead
  BY <1>3 DEF TemplatesRead
<1>4. CASE Generate
  BY <1>4 DEF Generate, Next
<1>5. CASE InitializeBridge
  BY <1>5 DEF InitializeBridge, Next
<1>6. CASE ListDevicesWithFeeds
  BY <1>6 DEF ListDevicesWithFeeds, Next
<1>7. CASE UNCHANGED allVars
  BY <1>7 DEF allVars
<1> QED BY <1>1, <1>2, <1>3, <1>4, <1>5, <1>6, <1>7 DEF StartUpNext

(* A start-up is one of DeviceGeneration. *)
LEMMA StartUpGenerates == StartUpSpec => Spec
<1>1. StartUpInit => Init
  BY DEF StartUpInit
<1> QED BY <1>1, StartUpStepGenerates, PTL DEF StartUpSpec, Spec

-----------------------------------------------------------------------------
LEMMA StartUpInitially == StartUpInit => StartUpInvariant
<1> SUFFICES ASSUME StartUpInit PROVE StartUpInvariant
  OBVIOUS
<1>1. phase = "parse" /\ stage = "module" /\ unread = Templates
  BY DEF StartUpInit, Init
<1>2. templates \in TriedTemplates \cup PlainTemplates /\ files \in Files
  <2>1. WholeFiles \in Files
    BY DEF WholeFiles, Files
  <2> QED BY <2>1 DEF StartUpInit
<1>3. moduleJson.connectionType \in {mode, Unknown}
  BY DEF StartUpInit
<1> QED BY <1>1, <1>2, <1>3 DEF StartUpInvariant, StageOK, ChecksOK, TablesOK

(* The constructors' steps change only how far they are. *)
LEMMA ConstructorStep ==
    ASSUME StartUpInvariant,
           \/ ReadModuleConfiguration \/ ReadDevicesFile \/ TemplatesRead
           \/ \E t \in Templates : ReadTemplate(t)
    PROVE  StartUpInvariant'
<1>1. /\ stage \in {"module", "file", "templates"}
      /\ UNCHANGED <<vars, files, moduleJson, templates, tables>>
  BY DEF ReadModuleConfiguration, ReadDevicesFile, TemplatesRead, ReadTemplate, given
<1>2. phase = "parse" /\ phase' = phase /\ mode' = mode
  BY <1>1 DEF StartUpInvariant, StageOK, vars
<1>3. ModuleSound' = ModuleSound /\ \A t : TemplateSound(t)' = TemplateSound(t)
  BY <1>1 DEF ModuleSound, ModuleConfiguration, TcpIpConfiguration,
              SerialRtuConfiguration, TemplateSound, Mappings
<1>4. StageOK'
  <2>1. (/\ files \in Files
         /\ templates \in TriedTemplates \cup PlainTemplates
         /\ moduleJson.connectionType \in {mode, Unknown})'
    BY <1>1, <1>2 DEF StartUpInvariant, StageOK
  <2>2. CASE ReadModuleConfiguration
    BY <1>1, <1>2, <1>3, <2>1, <2>2
    DEF StartUpInvariant, StageOK, ReadModuleConfiguration, ModuleSound
  <2>3. CASE TemplatesRead
    BY <1>1, <1>2, <1>3, <2>1, <2>3 DEF StartUpInvariant, StageOK, TemplatesRead
  <2>4. ASSUME NEW t \in Templates, ReadTemplate(t) PROVE StageOK'
    <3>1. TemplateSound(t) <=>
            /\ t \in files.complete
            /\ templates[t] # <<>> /\ \A m \in Mappings(t) : Constructs(m)
      BY DEF TemplateSound
    <3>2. stage = "templates" /\ unread' = unread \ {t}
          /\ stage' = IF TemplateSound(t) THEN stage ELSE "threw"
      BY <2>4, <3>1 DEF ReadTemplate
    <3> QED BY <1>1, <1>2, <1>3, <2>1, <3>2 DEF StartUpInvariant, StageOK
  <2>5. CASE ReadDevicesFile
    BY <1>1, <1>2, <1>3, <2>1, <2>5 DEF StartUpInvariant, StageOK, ReadDevicesFile
  <2> QED BY <2>2, <2>3, <2>4, <2>5
<1>5. ChecksOK' /\ TablesOK'
  BY <1>2 DEF ChecksOK, TablesOK
<1> QED BY <1>4, <1>5 DEF StartUpInvariant

(* The names and tables are those of the configuration and of the devices. *)
LEMMA TablesStay ==
    ASSUME PerEntry' = PerEntry, templates' = templates
    PROVE  /\ RegisterMappings' = RegisterMappings /\ DefaultValues' = DefaultValues
           /\ RepeatedWrites' = RepeatedWrites /\ SafeModeValues' = SafeModeValues
<1>1. Rows' = Rows
  BY DEF Rows, Mappings
<1> QED BY <1>1 DEF RegisterMappings, DefaultValues, RepeatedWrites, SafeModeValues

(* The steps of main() after the constructors. *)
LEMMA MainStepOfStartUp ==
    ASSUME GenerationInvariant, StartUpInvariant,
           Generate \/ InitializeBridge \/ ListDevicesWithFeeds \/ UNCHANGED allVars
    PROVE  StartUpInvariant'
<1>1. /\ UNCHANGED <<files, moduleJson, templates, stage, unread>>
      /\ mode' = mode /\ config' = config
  BY DEF Generate, InitializeBridge, ListDevicesWithFeeds, allVars, given, vars,
         Parse, CheckDevices, GenerateDevice, Initialize, ListDevices
<1>2. stage = "devices" \/ phase' = phase
  BY DEF Generate, InitializeBridge, ListDevicesWithFeeds, allVars, vars
<1>3. /\ ModuleSound' = ModuleSound /\ \A t : TemplateSound(t)' = TemplateSound(t)
      /\ OneIfTcp' = OneIfTcp
      /\ \A d : SlaveAddress(d)' = SlaveAddress(d) /\ Template(d)' = Template(d)
  BY <1>1 DEF ModuleSound, ModuleConfiguration, TcpIpConfiguration,
              SerialRtuConfiguration, TemplateSound, Mappings, OneIfTcp,
              SlaveAddress, Template
<1>3a. \A d : Constructed(d)' = Constructed(d)
  BY <1>1, <1>3 DEF Constructed
<1>4. StageOK'
  BY <1>1, <1>2, <1>3 DEF StartUpInvariant, StageOK
<1>5. ChecksOK'
  <2>1. CASE Generate /\ Parse
    <3>1. phase' = "generate" => OneIfTcp
      BY <2>1 DEF Parse, OneIfTcp
    <3>2. phase' = "quit" => ~OneIfTcp \/ DOMAIN config = {}
      BY <2>1 DEF Parse, OneIfTcp, Constructed
    <3>3. phase' = "aborted" => \E d \in DOMAIN config : ~Constructed(d)
      BY <2>1 DEF Parse
    <3>4. phase' \in {"generate", "quit", "aborted"}
      BY <2>1 DEF Parse
    <3> QED BY <1>1, <1>3, <1>3a, <3>1, <3>2, <3>3, <3>4 DEF ChecksOK
  <2>2. CASE Generate /\ CheckDevices
    <3>1. phase = "generate" /\ Seen = DOMAIN config
          /\ phase' = IF \A a \in Addresses : deviceMap[a] = None
                      THEN "quit" ELSE "initialize"
      BY <2>2 DEF CheckDevices, Seen
    <3>2. \A d \in DOMAIN config :
            SlaveAddress(d) # 0 => /\ SlaveAddress(d) \in Addresses
                                   /\ deviceMap[SlaveAddress(d)] # None
      BY <3>1, SlaveAddressType DEF GenerationInvariant, Generated
    <3>3. \A a \in Addresses : deviceMap[a] # None =>
            deviceMap[a] \in DOMAIN config /\ SlaveAddress(deviceMap[a]) = a /\ a # 0
      BY <3>1 DEF GenerationInvariant, Generated, Addresses
    <3>4. phase' = "quit" => \A d \in DOMAIN config : SlaveAddress(d) = 0
      BY <3>1, <3>2
    <3>5. phase' # "quit" => \E d \in DOMAIN config : SlaveAddress(d) # 0
      BY <3>1, <3>3
    <3> QED BY <1>1, <1>3, <1>3a, <3>1, <3>4, <3>5 DEF StartUpInvariant, ChecksOK
  <2>3. CASE Generate /\ \E d \in DOMAIN config : GenerateDevice(d)
    BY <1>1, <1>3, <1>3a, <2>3 DEF StartUpInvariant, ChecksOK, GenerateDevice
  <2>4. CASE InitializeBridge
    BY <1>1, <1>3, <1>3a, <2>4 DEF StartUpInvariant, ChecksOK, InitializeBridge, Initialize
  <2>5. CASE ListDevicesWithFeeds
    BY <1>1, <1>3, <1>3a, <2>5 DEF StartUpInvariant, ChecksOK, ListDevicesWithFeeds, ListDevices
  <2>6. CASE UNCHANGED allVars
    BY <1>1, <1>3, <1>3a, <2>6 DEF StartUpInvariant, ChecksOK, allVars, vars
  <2> QED BY <2>1, <2>2, <2>3, <2>4, <2>5, <2>6 DEF Generate
<1>6. TablesOK'
  <2>1. CASE Generate
    BY <2>1 DEF Generate, Parse, CheckDevices, GenerateDevice, TablesOK
  <2>2. CASE ~Generate
    <3>1. deviceMap' = deviceMap /\ deviceTypeMap' = deviceTypeMap
      BY <2>2 DEF InitializeBridge, Initialize, ListDevicesWithFeeds, ListDevices,
                  allVars, vars
    <3>2. PerEntry' = PerEntry
      BY <1>3, <3>1 DEF PerEntry
    <3>3. /\ RegisterMappings' = RegisterMappings /\ DefaultValues' = DefaultValues
          /\ RepeatedWrites' = RepeatedWrites /\ SafeModeValues' = SafeModeValues
      BY <1>1, <3>2, TablesStay
    <3>4. CASE InitializeBridge
      BY <3>3, <3>4 DEF InitializeBridge, TablesOK
    <3>5. CASE ListDevicesWithFeeds \/ UNCHANGED allVars
      <4>1. UNCHANGED tables /\ (phase' \in {"list", "connect"} => phase \in {"list", "connect"})
        BY <3>5 DEF ListDevicesWithFeeds, ListDevices, allVars, vars
      <4> QED BY <3>3, <4>1 DEF StartUpInvariant, TablesOK, tables
    <3> QED BY <2>2, <3>4, <3>5
  <2> QED BY <2>1, <2>2
<1> QED BY <1>4, <1>5, <1>6 DEF StartUpInvariant

(* The inductive invariant of start-up holds, with that of DeviceGeneration. *)
THEOREM StartUpCorrect == StartUpSpec => [](GenerationInvariant /\ StartUpInvariant)
<1>1. GenerationInvariant /\ StartUpInvariant /\ [StartUpNext]_allVars => StartUpInvariant'
  BY ConstructorStep, MainStepOfStartUp DEF StartUpNext
<1> QED
  BY <1>1, StartUpInitially, StartUpGenerates, GenerationCorrect, PTL DEF StartUpSpec

-----------------------------------------------------------------------------
(* main() connects only with a configuration that has none of the mistakes *)
(* of Valid, files and fields that are not there included, and ends before *)
(* that only with one that has (readFile(), the constructors, the checks   *)
(* of main() and generateDevices()).                                       *)
THEOREM ConnectsExactlyIfValid == StartUpSpec => []ConnectsIffValid
<1>1. ASSUME NEW t \in Templates, StageOK
      PROVE  TemplateSound(t) <=> /\ t \in files.complete
                                  /\ Len(templates[t]) > 0
                                  /\ \A m \in Mappings(t) : WellFormed(m)
  <2>1. templates[t] \in Seq(ModuleMappings)
    BY <1>1, TemplatesTriedAssumption DEF StageOK
  <2>2. templates[t] # <<>> <=> Len(templates[t]) > 0
    BY <2>1, EmptySeq
  <2>3. ASSUME NEW m \in Mappings(t) PROVE Constructs(m) <=> WellFormed(m)
    <3>1. JsonMapping(m)
      BY <2>1, ModuleMappingsAssumption DEF Mappings
    <3> QED BY <3>1 DEF JsonMapping, RegisterTypes, Constructs, WellFormed, IsMissing
  <2> QED BY <2>2, <2>3 DEF TemplateSound
<1>2. ASSUME StageOK, mode \in Modes
      PROVE  ModuleConfiguration <=>
                \/ moduleJson.connectionType = "TCP/IP" /\ moduleJson.host
                \/ moduleJson.connectionType = "SERIAL/RTU" /\ moduleJson.serialPort
  <2>1. CASE moduleJson.connectionType = "TCP/IP"
    BY <2>1 DEF ModuleConfiguration, TcpIpConfiguration, Modes
  <2>2. CASE moduleJson.connectionType = "SERIAL/RTU"
    BY <2>2 DEF ModuleConfiguration, SerialRtuConfiguration, Modes
  <2>3. CASE moduleJson.connectionType \notin Modes
    BY <2>3 DEF ModuleConfiguration, Modes
  <2> QED BY <2>1, <2>2, <2>3 DEF Modes
<1>3. ASSUME GenerationInvariant, StartUpInvariant PROVE ConnectsIffValid
  <2>1. StageOK /\ ChecksOK /\ mode \in Modes
    BY <1>3 DEF GenerationInvariant, Reached, StartUpInvariant
  <2>2. Valid <=>
            /\ ModuleSound /\ files.templates /\ files.devices
            /\ \A t \in Templates : TemplateSound(t)
            /\ \A d \in DOMAIN config : Constructed(d)
            /\ OneIfTcp
            /\ \E d \in DOMAIN config : SlaveAddress(d) # 0
    <3>1. \A t \in Templates :
            TemplateSound(t) <=> /\ t \in files.complete
                                 /\ Len(templates[t]) > 0
                                 /\ \A m \in Mappings(t) : WellFormed(m)
      BY <1>1, <2>1
    <3>2. ModuleConfiguration <=>
            \/ moduleJson.connectionType = "TCP/IP" /\ moduleJson.host
            \/ moduleJson.connectionType = "SERIAL/RTU" /\ moduleJson.serialPort
      BY <1>2, <2>1
    <3>3. files = WholeFiles <=>
            files.module /\ files.templates /\ files.devices
                /\ \A t \in Templates : t \in files.complete
      BY <2>1 DEF StageOK, Files, WholeFiles
    <3> QED BY <3>1, <3>2, <3>3, Zenon DEF Valid, OneIfTcp, ModuleSound, Constructed
  <2>3. phase = "connect" => Valid
    BY <1>3, <2>1, <2>2 DEF GenerationInvariant, Reached, StageOK, ChecksOK
  <2>4. stage = "threw" => ~Valid
    BY <2>1, <2>2 DEF StageOK
  <2>5. phase \in {"quit", "aborted"} => ~Valid
    BY <2>1, <2>2 DEF ChecksOK
  <2> QED BY <2>3, <2>4, <2>5 DEF ConnectsIffValid
<1> QED BY <1>3, StartUpCorrect, PTL

-----------------------------------------------------------------------------
(* A set of natural numbers that is not empty has a smallest. *)
LEMMA Smallest ==
    ASSUME NEW S, S \subseteq Nat, S # {}
    PROVE  \E n \in S : \A k \in S : n <= k
<1> DEFINE Less == {p \in Nat \X Nat : p[1] < p[2]}
<1>1. IsWellFoundedOn(Less, Nat)
  BY NatLessThanWellFounded, Zenon DEF OpToRel
<1>2. ASSUME NEW k \in Nat, NEW n \in Nat, <<k, n>> \notin Less PROVE n <= k
  BY <1>2
<1> HIDE DEF Less
<1>3. PICK n \in S : \A k \in S : <<k, n>> \notin Less
  BY <1>1, WFMin
<1>4. \A k \in S : n <= k
  BY <1>2, <1>3
<1> QED BY <1>4

(* emplace() finds a first row of a name: its CHOOSE is not vacuous. *)
LEMMA FirstIsRow ==
    ASSUME NEW rows, NEW n \in Names(rows),
           \A r \in rows : Rank[r.entry.template] \in Nat /\ r.entry.entry \in Nat
    PROVE  First(rows, n) \in rows /\ Name(First(rows, n)) = n
<1> DEFINE Named == {r \in rows : Name(r) = n}
           Ranks == {Rank[r.entry.template] : r \in Named}
<1>1. Named # {}
  BY DEF Names
<1>2. PICK k \in Ranks : \A l \in Ranks : k <= l
  <2>1. Ranks \subseteq Nat /\ Ranks # {}
    BY <1>1
  <2> HIDE DEF Ranks
  <2> QED BY <2>1, Smallest
<1> DEFINE OfRank == {r \in Named : Rank[r.entry.template] = k}
           Entries == {r.entry.entry : r \in OfRank}
<1>3. PICK m \in Entries : \A l \in Entries : m <= l
  <2>1. Entries \subseteq Nat /\ Entries # {}
    BY <1>2
  <2> HIDE DEF Entries
  <2> QED BY <2>1, Smallest
<1>4. PICK r \in OfRank : r.entry.entry = m
  BY <1>3
<1>5. ASSUME NEW q \in Named PROVE ~Precedes(q, r)
  <2>1. Rank[q.entry.template] \in Nat /\ k \in Nat /\ k <= Rank[q.entry.template]
    BY <1>2, <1>5
  <2>2. CASE q.entry.template = r.entry.template
    <3>1. m <= q.entry.entry
      BY <1>3, <1>4, <2>2
    <3>2. m \in Nat /\ q.entry.entry \in Nat
      BY <1>4
    <3> QED BY <1>4, <2>1, <2>2, <3>1, <3>2 DEF Precedes
  <2>3. CASE q.entry.template # r.entry.template
    BY <1>4, <2>1, <2>3 DEF Precedes
  <2> QED BY <2>2, <2>3
<1>6. \E s \in rows : Name(s) = n /\ \A q \in rows : Name(q) = n => ~Precedes(q, s)
  BY <1>4, <1>5
<1> HIDE DEF Named, Ranks, OfRank, Entries
<1> QED BY <1>6, Zenon DEF First

(* What the rows are made of. *)
LEMMA RowType ==
    ASSUME GenerationInvariant, StartUpInvariant, NEW r \in Rows
    PROVE  /\ r.entry \in PerEntry /\ r.mapping \in Mappings(r.entry.template)
           /\ r.entry.template \in Templates
           /\ r.entry.entry \in deviceTypeMap[r.entry.template]
           /\ r.entry.entry \in DOMAIN config /\ r.entry.key \in DOMAIN config
           /\ Rank[r.entry.template] \in Nat /\ r.entry.entry \in Nat
           /\ Key[r.entry.key] \in Seq(Parts) \ {<<>>}
           /\ r.mapping.reference \in Seq(Parts) \ {<<>>}
           /\ r.entry.address = SlaveAddress(r.entry.entry)
           /\ r.entry = [entry |-> r.entry.entry, key |-> r.entry.key,
                         address |-> r.entry.address, template |-> r.entry.template]
           /\ r = [entry |-> r.entry, mapping |-> r.mapping]
<1>1. PICK e \in PerEntry : \E m \in Mappings(e.template) : r = [entry |-> e, mapping |-> m]
  BY DEF Rows
<1>2. PICK m \in Mappings(e.template) : r = [entry |-> e, mapping |-> m]
  BY <1>1
<1>3. PICK t \in Templates : \E d \in deviceTypeMap[t] :
        e = [entry |-> d, key |-> deviceMap[SlaveAddress(d)],
             address |-> SlaveAddress(d), template |-> t]
  BY Zenon DEF PerEntry
<1>4. PICK d \in deviceTypeMap[t] :
        e = [entry |-> d, key |-> deviceMap[SlaveAddress(d)],
             address |-> SlaveAddress(d), template |-> t]
  BY <1>3
<1>5. d \in Seen /\ e.key \in Seen
  BY <1>4, EntryType DEF GenerationInvariant, Generated
<1>6. d \in DOMAIN config /\ e.key \in DOMAIN config /\ DOMAIN config \subseteq Devices
  BY <1>5 DEF Seen, GenerationInvariant, ConfigOK
<1>7. m.reference \in Seq(Parts) \ {<<>>}
  <2>1. templates[t] \in Seq(ModuleMappings)
    BY TemplatesTriedAssumption DEF StartUpInvariant, StageOK
  <2>2. m \in ModuleMappings
    BY <1>2, <1>4, <2>1 DEF Mappings
  <2> QED BY <2>2, ModuleMappingsAssumption
<1>8. Key[e.key] \in Seq(Parts) \ {<<>>} /\ Rank[t] \in Nat /\ d \in Nat
  BY <1>6, KeyAssumption, RankAssumption, DevicesAssumption
<1> QED BY <1>1, <1>2, <1>4, <1>6, <1>7, <1>8

(* The parts of a name whose device has no dot. *)
LEMMA NameParts ==
    ASSUME NEW S, NEW k \in Seq(S), Len(k) = 1, NEW f \in Seq(S)
    PROVE  /\ k = <<k[1]>> /\ (k \o f)[1] = k[1]
           /\ Len(k \o f) = Len(f) + 1
           /\ \A i \in 1..Len(f) : (k \o f)[i + 1] = f[i]
           /\ f # <<>> => (k \o f)[2] = f[1]
<1>1. /\ Len(k \o f) = Len(k) + Len(f)
      /\ \A i \in 1..Len(k) + Len(f) :
            (k \o f)[i] = IF i <= Len(k) THEN k[i] ELSE f[i - Len(k)]
  BY ConcatProperties
<1>2. Len(f) \in Nat
  OBVIOUS
<1>3. (k \o f)[1] = k[1]
  BY <1>1, <1>2
<1>4. ASSUME NEW i \in 1..Len(f) PROVE (k \o f)[i + 1] = f[i]
  <2>1. i + 1 \in 1..Len(k) + Len(f) /\ ~(i + 1 <= Len(k)) /\ i + 1 - Len(k) = i
    BY <1>2
  <2> QED BY <1>1, <2>1
<1>5. f # <<>> => (k \o f)[2] = f[1]
  <2> SUFFICES ASSUME f # <<>> PROVE (k \o f)[2] = f[1]
    OBVIOUS
  <2>1. Len(f) > 0
    BY <1>2, EmptySeq
  <2>2. 2 \in 1..Len(k) + Len(f) /\ ~(2 <= Len(k)) /\ 2 - Len(k) = 1
    BY <1>2, <2>1
  <2>3. (k \o f)[2] = f[2 - Len(k)]
    BY <1>1, <2>2
  <2> QED BY <2>2, <2>3
<1>6. k = <<k[1]>>
  OBVIOUS
<1> QED BY <1>1, <1>2, <1>3, <1>4, <1>5, <1>6

LEMMA NamePartsDiffer ==
    ASSUME NEW S, NEW k \in Seq(S), NEW l \in Seq(S), Len(k) = 1, Len(l) = 1,
           NEW f \in Seq(S), NEW g \in Seq(S), k \o f = l \o g
    PROVE  k = l /\ f = g
<1>1. /\ k = <<k[1]>> /\ (k \o f)[1] = k[1] /\ Len(k \o f) = Len(f) + 1
      /\ \A i \in 1..Len(f) : (k \o f)[i + 1] = f[i]
  BY NameParts
<1>2. /\ l = <<l[1]>> /\ (l \o g)[1] = l[1] /\ Len(l \o g) = Len(g) + 1
      /\ \A i \in 1..Len(g) : (l \o g)[i + 1] = g[i]
  BY NameParts
<1>3. k[1] = l[1]
  BY <1>1, <1>2
<1>4. Len(f) = Len(g)
  <2>1. Len(f) \in Nat /\ Len(g) \in Nat
    OBVIOUS
  <2> QED BY <1>1, <1>2, <2>1
<1>5. \A i \in 1..Len(f) : f[i] = g[i]
  BY <1>1, <1>2, <1>4
<1>6. f = g
  BY <1>4, <1>5, SeqEqual
<1> QED BY <1>1, <1>2, <1>3, <1>6

(* Without dots in the keys, a name tells its device and its reference. *)
LEMMA NamesDiffer ==
    ASSUME GenerationInvariant, StartUpInvariant, KeysUndotted,
           NEW q \in Rows, NEW r \in Rows, Name(q) = Name(r)
    PROVE  q.entry.key = r.entry.key /\ q.mapping.reference = r.mapping.reference
<1> DEFINE k == Key[q.entry.key]
           l == Key[r.entry.key]
           f == q.mapping.reference
           g == r.mapping.reference
<1>1. k \in Seq(Parts) /\ l \in Seq(Parts) /\ f \in Seq(Parts) /\ g \in Seq(Parts)
  BY RowType
<1>2. Len(k) = 1 /\ Len(l) = 1
  BY RowType DEF KeysUndotted
<1>3. k \o f = l \o g
  BY DEF Name
<1>4. k = l /\ f = g
  <2> HIDE DEF k, l, f, g
  <2> QED BY <1>1, <1>2, <1>3, NamePartsDiffer
<1>5. q.entry.key \in Devices /\ r.entry.key \in Devices
  BY RowType DEF GenerationInvariant, ConfigOK
<1> QED BY <1>4, <1>5, KeyAssumption

-----------------------------------------------------------------------------
(* The entries of one key are those of one device, if no address is given  *)
(* twice.                                                                  *)
LEMMA OwnKey ==
    ASSUME GenerationInvariant, StartUpInvariant, NEW r \in Rows, Unambiguous
    PROVE  r.entry.key = r.entry.entry
<1>1. r.entry \in PerEntry /\ r.entry.entry \in DOMAIN config
      /\ r.entry.key \in DOMAIN config /\ r.entry.address = SlaveAddress(r.entry.entry)
  BY RowType
<1>2. SlaveAddress(r.entry.key) = r.entry.address /\ r.entry.address # 0
  BY <1>1, EntryType DEF GenerationInvariant, Addresses
<1>3. r.entry.entry \in Sharing(r.entry.key) /\ r.entry.key \in Sharing(r.entry.key)
  BY <1>1, <1>2 DEF Sharing
<1> QED BY <1>1, <1>2, <1>3 DEF Unambiguous

(* Then a name has one row: its device has one template, and the template  *)
(* uses the reference once.                                                *)
LEMMA OneRowPerName ==
    ASSUME GenerationInvariant, StartUpInvariant, KeysUndotted, Unambiguous,
           NEW q \in Rows, NEW r \in Rows, Name(q) = Name(r)
    PROVE  q = r
<1>1. q.entry.key = r.entry.key /\ q.mapping.reference = r.mapping.reference
  BY NamesDiffer
<1>2. q.entry.entry = r.entry.entry
  <2>1. q.entry.key = q.entry.entry
    BY OwnKey
  <2>2. r.entry.key = r.entry.entry
    BY OwnKey
  <2> QED BY <1>1, <2>1, <2>2
<1>3. /\ q.entry.entry \in deviceTypeMap[q.entry.template]
      /\ q.entry.template \in Templates /\ q.mapping \in Mappings(q.entry.template)
      /\ q.entry.address = SlaveAddress(q.entry.entry)
      /\ q.entry = [entry |-> q.entry.entry, key |-> q.entry.key,
                    address |-> q.entry.address, template |-> q.entry.template]
      /\ q = [entry |-> q.entry, mapping |-> q.mapping]
  BY RowType
<1>4. /\ r.entry.entry \in deviceTypeMap[r.entry.template]
      /\ r.entry.template \in Templates /\ r.mapping \in Mappings(r.entry.template)
      /\ r.entry.address = SlaveAddress(r.entry.entry)
      /\ r.entry = [entry |-> r.entry.entry, key |-> r.entry.key,
                    address |-> r.entry.address, template |-> r.entry.template]
      /\ r = [entry |-> r.entry, mapping |-> r.mapping]
  BY RowType
<1>5. q.entry.template = r.entry.template
  BY <1>2, <1>3, <1>4 DEF GenerationInvariant, Generated
<1>6. q.entry = r.entry
  BY <1>1, <1>2, <1>3, <1>4, <1>5
<1>7. q.mapping = r.mapping
  <2> DEFINE T == templates[r.entry.template]
  <2>1. \A k, l \in DOMAIN T : T[k].reference = T[l].reference => k = l
    BY <1>4, TemplatesTriedAssumption DEF StartUpInvariant, StageOK
  <2>2. PICK i \in DOMAIN T : q.mapping = T[i]
    BY <1>3, <1>5 DEF Mappings
  <2>3. PICK j \in DOMAIN T : r.mapping = T[j]
    BY <1>4 DEF Mappings
  <2> HIDE DEF T
  <2> QED BY <1>1, <2>1, <2>2, <2>3
<1> QED BY <1>3, <1>4, <1>6, <1>7

(* The first row of a name that one of the rows has. *)
LEMMA FirstOfRow ==
    ASSUME GenerationInvariant, StartUpInvariant, KeysUndotted,
           NEW rows \in SUBSET Rows, NEW row \in rows
    PROVE  LET first == First(rows, Name(row))
           IN  /\ first \in rows /\ Name(row) \in Names(rows)
               /\ first.entry.address = row.entry.address
               /\ first.mapping.reference = row.mapping.reference
               /\ Unambiguous => first = row
<1> DEFINE first == First(rows, Name(row))
<1>1. Name(row) \in Names(rows)
  BY DEF Names
<1>2. \A r \in rows : Rank[r.entry.template] \in Nat /\ r.entry.entry \in Nat
  BY RowType
<1>3. first \in rows /\ Name(first) = Name(row)
  BY <1>1, <1>2, FirstIsRow
<1> HIDE DEF first
<1>4. first.entry.key = row.entry.key /\ first.mapping.reference = row.mapping.reference
  BY <1>3, NamesDiffer
<1>5. first.entry.address = row.entry.address
  <2>1. first.entry \in PerEntry /\ row.entry \in PerEntry
    BY <1>3, RowType
  <2> QED BY <1>4, <2>1, EntryType DEF GenerationInvariant
<1>6. Unambiguous => first = row
  BY <1>3, OneRowPerName
<1> QED BY <1>1, <1>3, <1>4, <1>5, <1>6 DEF first

(* What the table of mappings has for a mapping of a registered device. *)
LEMMA MappingFound ==
    ASSUME GenerationInvariant, StartUpInvariant, phase = "connect", KeysUndotted,
           NEW e \in devicesToRegister, NEW m \in Mappings(e.template)
    PROVE  LET row == [entry |-> e, mapping |-> m]
               found == registerMapping[Name(row)]
           IN  /\ row \in Rows /\ Name(row) \in DOMAIN registerMapping
               /\ found.slaveAddress = e.address /\ found.reference = m.reference
               /\ Unambiguous => found = RegisterMapping(row)
<1> DEFINE row == [entry |-> e, mapping |-> m]
           first == First(Rows, Name(row))
<1>1. row \in Rows
  <2>1. e \in PerEntry
    BY DEF GenerationInvariant, Reached
  <2> QED BY <2>1 DEF Rows
<1>2. row.entry = e /\ row.mapping = m
  OBVIOUS
<1> HIDE DEF row
<1>3. /\ first \in Rows /\ Name(row) \in Names(Rows)
      /\ first.entry.address = row.entry.address
      /\ first.mapping.reference = row.mapping.reference
      /\ Unambiguous => first = row
  BY <1>1, FirstOfRow
<1> HIDE DEF first
<1>4. /\ Name(row) \in DOMAIN registerMapping
      /\ registerMapping[Name(row)] = RegisterMapping(first)
  BY <1>3 DEF StartUpInvariant, TablesOK, RegisterMappings, first
<1>5. /\ RegisterMapping(first).slaveAddress = first.entry.address
      /\ RegisterMapping(first).reference = first.mapping.reference
  BY DEF RegisterMapping
<1> QED BY <1>1, <1>2, <1>3, <1>4, <1>5 DEF row

(* Whatever the templates, types and addresses, a reading of a device      *)
(* finds a mapping of its reference at the device's address, and that of   *)
(* the device's own template if no address is given twice (initialize(),   *)
(* handleUpdate()).                                                        *)
THEOREM ReadingsAlwaysFindTheirMapping == StartUpSpec => []ReadingsFindTheirMapping
<1>1. ASSUME GenerationInvariant, StartUpInvariant PROVE ReadingsFindTheirMapping
  <2> SUFFICES ASSUME phase = "connect", KeysUndotted,
                      NEW e \in devicesToRegister, NEW m \in Mappings(e.template)
               PROVE  LET name == Key[e.key] \o m.reference
                          found == registerMapping[name]
                      IN  /\ name \in DOMAIN registerMapping
                          /\ found.slaveAddress = e.address
                          /\ found.reference = m.reference
                          /\ Unambiguous =>
                                found = RegisterMapping([entry |-> e, mapping |-> m])
    BY Zenon DEF ReadingsFindTheirMapping
  <2> DEFINE row == [entry |-> e, mapping |-> m]
  <2>1. Name(row) = Key[e.key] \o m.reference
    BY DEF Name
  <2>2. LET found == registerMapping[Name(row)]
        IN  /\ Name(row) \in DOMAIN registerMapping
            /\ found.slaveAddress = e.address /\ found.reference = m.reference
            /\ Unambiguous => found = RegisterMapping(row)
    BY <1>1, MappingFound
  <2> QED BY <2>1, <2>2
<1> QED BY <1>1, StartUpCorrect, PTL

(* Whatever the templates and the size of a word, the numbers configured   *)
(* as default values that their types can hold, integers of a FLOAT only   *)
(* as far as every one is a float, come back to the platform as they are   *)
(* (readTypedValue(), initialize(), start(), ConversionsProofs.tla).       *)
THEOREM DefaultsAreReported == StartUpSpec => []DefaultIsReported
<1>1. ASSUME GenerationInvariant, StartUpInvariant PROVE DefaultIsReported
  <2> SUFFICES ASSUME phase = "connect", KeysUndotted, Unambiguous,
                      NEW e \in devicesToRegister, NEW m \in Mappings(e.template),
                      m.defaultValue.is = "number", Holds(m.dataType, m.defaultValue.n)
               PROVE  LET name == Key[e.key] \o m.reference
                          type == registerMapping[name].dataType
                          content == WriteToMapping(type, defaultValue[name])
                      IN  /\ ReadingOf(type, content) = m.defaultValue
                          /\ ~(m.dataType = "INT16" /\ m.defaultValue.n < 0) =>
                                  AttributeOf(type, content) = m.defaultValue
    BY Zenon DEF DefaultIsReported
  <2> DEFINE row == [entry |-> e, mapping |-> m]
             name == Name(row)
             rows == {r \in Rows : HasDefaultValue(r.mapping)}
  <2>1. name = Key[e.key] \o m.reference
    BY DEF Name
  <2>2. row \in Rows /\ registerMapping[name] = RegisterMapping(row)
    BY <1>1, MappingFound
  <2>3. JsonMapping(m)
    <3>1. templates[e.template] \in Seq(ModuleMappings)
      <4>1. row.entry.template \in Templates
        BY <1>1, <2>2, RowType
      <4> QED BY <1>1, <4>1, TemplatesTriedAssumption DEF StartUpInvariant, StageOK
    <3> QED BY <3>1, ModuleMappingsAssumption DEF Mappings
  <2>4. m.defaultValue = Number(m.defaultValue.n) /\ m.defaultValue.n \in Int
        /\ m.dataType \in DataTypes
    BY <2>3 DEF JsonMapping, Number
  <2>5. HasDefaultValue(m)
    BY <2>4 DEF HasDefaultValue, ReadTypedValue, Digits
  <2>6. row \in rows
    BY <2>2, <2>5
  <2>7. row.mapping = m
    OBVIOUS
  <2> HIDE DEF row
  <2>8. First(rows, name) = row /\ name \in Names(rows)
    <3>1. rows \in SUBSET Rows
      OBVIOUS
    <3> HIDE DEF rows
    <3> QED BY <1>1, <2>6, <3>1, FirstOfRow
  <2>9. defaultValue[name] = ReadTypedValue(m.defaultValue)
    BY <1>1, <2>7, <2>8 DEF StartUpInvariant, TablesOK, DefaultValues
  <2>10. registerMapping[name].dataType = m.dataType
    BY <2>2, <2>7 DEF RegisterMapping
  <2> DEFINE content == WriteToMapping(m.dataType, ReadTypedValue(m.defaultValue))
  <2>11. /\ ReadingOf(m.dataType, content) = m.defaultValue
         /\ ~(m.dataType = "INT16" /\ m.defaultValue.n < 0) =>
                 AttributeOf(m.dataType, content) = m.defaultValue
    BY <2>4, NumbersComeBack DEF DataTypes
  <2> HIDE DEF content, name
  <2> QED BY <2>1, <2>9, <2>10, <2>11 DEF content
<1> QED BY <1>1, StartUpCorrect, PTL

-----------------------------------------------------------------------------
(* The announcements of one table, by the rows it was made of. *)
LEMMA AnnouncementsOfRows ==
    ASSUME GenerationInvariant, StartUpInvariant, KeysUndotted, ReferencesUndotted,
           NEW rows \in SUBSET Rows, NEW table, DOMAIN table = Names(rows), NEW prefix
    PROVE  MakeReadingsFromMap(table, prefix) =
            {[device |-> Key[r.entry.key], reference |-> r.mapping.reference,
              prefix |-> prefix] : r \in rows}
<1> DEFINE Of(n) == [device |-> <<n[1]>>, reference |-> <<n[2]>>, prefix |-> prefix]
           By(r) == [device |-> Key[r.entry.key], reference |-> r.mapping.reference,
                     prefix |-> prefix]
<1>1. ASSUME NEW r \in rows PROVE Of(Name(r)) = By(r)
  <2> DEFINE k == Key[r.entry.key]
             f == r.mapping.reference
  <2>1. k \in Seq(Parts) /\ f \in Seq(Parts) /\ Len(k) = 1
    BY RowType DEF KeysUndotted
  <2>2. Len(f) = 1
    BY RowType DEF ReferencesUndotted
  <2>3. Name(r) = k \o f
    BY DEF Name
  <2> HIDE DEF k, f
  <2>4. k = <<k[1]>> /\ (k \o f)[1] = k[1] /\ (k \o f)[2] = f[1]
    <3>1. f # <<>>
      BY <2>2
    <3> QED BY <2>1, <3>1, NameParts
  <2>5. f = <<f[1]>>
    BY <2>1, <2>2
  <2> QED BY <2>3, <2>4, <2>5 DEF k, f
<1>2. MakeReadingsFromMap(table, prefix) = {Of(n) : n \in Names(rows)}
  BY DEF MakeReadingsFromMap
<1>3. {Of(n) : n \in Names(rows)} = {Of(Name(r)) : r \in rows}
  BY DEF Names
<1> HIDE DEF Of, By
<1>4. {Of(Name(r)) : r \in rows} = {By(r) : r \in rows}
  BY <1>1
<1> QED BY <1>2, <1>3, <1>4 DEF By

(* Whatever the devices and templates, start() announces the special feeds *)
(* that were registered and no others, as long as no key and no reference  *)
(* has a dot (makeReadingsFromMap(), WolkaboutTemplateFactory).            *)
THEOREM AnnouncementsAlwaysRegistered == StartUpSpec => []AnnouncementsRegistered
<1>1. ASSUME GenerationInvariant, StartUpInvariant PROVE AnnouncementsRegistered
  <2> SUFFICES ASSUME phase = "connect", KeysUndotted, ReferencesUndotted
               PROVE  Announced = Registered
    BY DEF AnnouncementsRegistered
  <2> DEFINE With(p) == {r \in Rows : p \in SpecialFeeds(r.mapping)}
             By(r, p) == [device |-> Key[r.entry.key], reference |-> r.mapping.reference,
                          prefix |-> p]
             Made(p) == {By(r, p) : r \in With(p)}
  <2>1. /\ With("DFV") = {r \in Rows : HasDefaultValue(r.mapping)}
        /\ With("RPW") = {r \in Rows : HasRepeat(r.mapping)}
        /\ With("SMV") = {r \in Rows : HasSafeMode(r.mapping)}
    BY DEF SpecialFeeds
  <2>2. /\ defaultValue = DefaultValues /\ repeatedWrite = RepeatedWrites
        /\ safeMode = SafeModeValues
    BY <1>1 DEF StartUpInvariant, TablesOK
  <2>3. /\ DOMAIN defaultValue = Names(With("DFV"))
        /\ DOMAIN repeatedWrite = Names(With("RPW"))
        /\ DOMAIN safeMode = Names(With("SMV"))
    <3> HIDE DEF With
    <3> QED BY <2>1, <2>2 DEF DefaultValues, RepeatedWrites, SafeModeValues
  <2>4. \A p : With(p) \in SUBSET Rows
    OBVIOUS
  <2>5. /\ MakeReadingsFromMap(defaultValue, "DFV") = Made("DFV")
        /\ MakeReadingsFromMap(repeatedWrite, "RPW") = Made("RPW")
        /\ MakeReadingsFromMap(safeMode, "SMV") = Made("SMV")
    <3> HIDE DEF With
    <3>1. MakeReadingsFromMap(defaultValue, "DFV") = Made("DFV")
      BY <1>1, <2>3, <2>4, AnnouncementsOfRows
    <3>2. MakeReadingsFromMap(repeatedWrite, "RPW") = Made("RPW")
      BY <1>1, <2>3, <2>4, AnnouncementsOfRows
    <3>3. MakeReadingsFromMap(safeMode, "SMV") = Made("SMV")
      BY <1>1, <2>3, <2>4, AnnouncementsOfRows
    <3> QED BY <3>1, <3>2, <3>3
  <2>6. Announced = Made("DFV") \cup Made("RPW") \cup Made("SMV")
    BY <2>5 DEF Announced
  <2>7. devicesToRegister = PerEntry
    <3>1. \A e \in PerEntry : e.key # None
      BY <1>1, EntryType, DevicesAssumption DEF GenerationInvariant, ConfigOK, Seen
    <3>2. devicesToRegister = {e \in PerEntry : e.key # None}
      BY <1>1 DEF GenerationInvariant, Reached
    <3> QED BY <3>1, <3>2
  <2>8. \A m : SpecialFeeds(m) \subseteq {"DFV", "RPW", "SMV"}
    BY DEF SpecialFeeds
  <2>9. ASSUME NEW x \in Registered PROVE x \in Announced
    <3>1. PICK e \in PerEntry : \E m \in Mappings(e.template) : \E p \in SpecialFeeds(m) :
            x = [device |-> Key[e.key], reference |-> m.reference, prefix |-> p]
      BY <2>7, <2>9 DEF Registered
    <3>2. PICK m \in Mappings(e.template) : \E p \in SpecialFeeds(m) :
            x = [device |-> Key[e.key], reference |-> m.reference, prefix |-> p]
      BY <3>1
    <3>3. PICK p \in SpecialFeeds(m) :
            x = [device |-> Key[e.key], reference |-> m.reference, prefix |-> p]
      BY <3>2
    <3>4. [entry |-> e, mapping |-> m] \in With(p)
      BY DEF Rows
    <3>5. x \in Made(p)
      BY <3>3, <3>4
    <3> HIDE DEF Made
    <3> QED BY <2>6, <2>8, <3>5
  <2>10. ASSUME NEW p, NEW x \in Made(p) PROVE x \in Registered
    <3>1. PICK r \in With(p) : x = By(r, p)
      BY <2>10
    <3>2. /\ r.entry \in PerEntry /\ r.mapping \in Mappings(r.entry.template)
          /\ p \in SpecialFeeds(r.mapping)
      BY <1>1, RowType
    <3> QED BY <2>7, <3>1, <3>2 DEF Registered
  <2> HIDE DEF Made, With, By
  <2>11. ASSUME NEW x \in Announced PROVE x \in Registered
    BY <2>6, <2>10, <2>11
  <2> QED BY <2>9, <2>11
<1> QED BY <1>1, StartUpCorrect, PTL

-----------------------------------------------------------------------------
(* The registers of a mapping in the table, and their numbers. *)
LEMMA RegistersOfName ==
    ASSUME GenerationInvariant, StartUpInvariant, phase = "connect",
           NEW n \in DOMAIN registerMapping, NEW k \in DOMAIN registerMapping[n].registers
    PROVE  LET r == registerMapping[n].registers
               two == registerMapping[n].dataType \in TwoRegisters
           IN  /\ r[k] \in Int /\ Unsigned(r[k] - r[1], WordSize) = k - 1
               /\ ~two /\ r[k] < WordSize => r[k] = Unsigned(r[k], WordSize)
               /\ two => r[k] = Signed(Unsigned(r[k], WordSize), WordSize)
<1> DEFINE row == First(Rows, n)
           m == row.mapping
<1>1. registerMapping = RegisterMappings
  BY DEF StartUpInvariant, TablesOK
<1>2. n \in Names(Rows) /\ registerMapping[n] = RegisterMapping(row)
  BY <1>1 DEF RegisterMappings
<1>3. row \in Rows
  <2>1. \A r \in Rows : Rank[r.entry.template] \in Nat /\ r.entry.entry \in Nat
    BY RowType
  <2> QED BY <1>2, <2>1, FirstIsRow
<1> HIDE DEF row
<1>4. JsonMapping(m)
  <2>1. m \in Mappings(row.entry.template) /\ row.entry.template \in Templates
    BY <1>3, RowType
  <2>2. templates[row.entry.template] \in Seq(ModuleMappings)
    BY <2>1, TemplatesTriedAssumption DEF StartUpInvariant, StageOK
  <2> QED BY <2>1, <2>2, ModuleMappingsAssumption DEF Mappings
<1> DEFINE address == Unsigned(m.address, WordSize)
<1>5. /\ registerMapping[n].registers = Registers(m.dataType, address, m.addressCount)
      /\ registerMapping[n].dataType = m.dataType
  BY <1>2 DEF RegisterMapping
<1>6. m.dataType \in DataTypes /\ m.addressCount \in [is : Kinds, n : Int] /\ m.address \in Int
  BY <1>4 DEF JsonMapping
<1>7. address \in 0..WordSize - 1
  BY <1>6, Sizes DEF Unsigned
<1> HIDE DEF m, address
<1> QED BY <1>5, <1>6, <1>7, RegisterNumbers DEF DataTypes

(* Whatever the templates, addresses and counts, mappings of one device    *)
(* that share a register give it the same number, but for those of 32 bits *)
(* from half of the addresses on (fromJSONMapping()).                      *)
THEOREM RegistersAlwaysAgree == StartUpSpec => []RegistersAgree
<1>1. ASSUME GenerationInvariant, StartUpInvariant PROVE RegistersAgree
  <2> SUFFICES ASSUME phase = "connect",
                      NEW n \in DOMAIN registerMapping, NEW o \in DOMAIN registerMapping,
                      NEW k \in DOMAIN registerMapping[n].registers,
                      NEW l \in DOMAIN registerMapping[o].registers
               PROVE  LET m == registerMapping[n]
                          p == registerMapping[o]
                      IN  /\ Unsigned(m.registers[k] - m.registers[1], WordSize) = k - 1
                          /\ /\ Unsigned(m.registers[k], WordSize)
                                    = Unsigned(p.registers[l], WordSize)
                             /\ m.registers[k] < WordSize /\ p.registers[l] < WordSize
                             /\ \/ m.dataType \in TwoRegisters <=> p.dataType \in TwoRegisters
                                \/ Unsigned(m.registers[k], WordSize) < WordSize \div 2
                             => m.registers[k] = p.registers[l]
    BY Zenon DEF RegistersAgree
  <2> DEFINE m == registerMapping[n]
             p == registerMapping[o]
             x == m.registers[k]
             y == p.registers[l]
  <2>1. /\ x \in Int /\ Unsigned(x - m.registers[1], WordSize) = k - 1
        /\ m.dataType \notin TwoRegisters /\ x < WordSize => x = Unsigned(x, WordSize)
        /\ m.dataType \in TwoRegisters => x = Signed(Unsigned(x, WordSize), WordSize)
    BY <1>1, RegistersOfName
  <2>2. /\ y \in Int
        /\ p.dataType \notin TwoRegisters /\ y < WordSize => y = Unsigned(y, WordSize)
        /\ p.dataType \in TwoRegisters => y = Signed(Unsigned(y, WordSize), WordSize)
    BY <1>1, RegistersOfName
  <2>3. ASSUME Unsigned(x, WordSize) < WordSize \div 2
        PROVE  Signed(Unsigned(x, WordSize), WordSize) = Unsigned(x, WordSize)
    <3>1. Unsigned(x, WordSize) \in 0..WordSize - 1
      BY <2>1, Sizes DEF Unsigned
    <3>2. Unsigned(x, WordSize) % WordSize = Unsigned(x, WordSize)
      BY <3>1, Sizes, Remainders
    <3> QED BY <2>3, <3>2 DEF Signed
  <2> HIDE DEF m, p, x, y
  <2>4. ASSUME Unsigned(x, WordSize) = Unsigned(y, WordSize), x < WordSize, y < WordSize,
               \/ m.dataType \in TwoRegisters <=> p.dataType \in TwoRegisters
               \/ Unsigned(x, WordSize) < WordSize \div 2
        PROVE  x = y
    BY <2>1, <2>2, <2>3, <2>4
  <2> QED BY <2>1, <2>4 DEF m, p, x, y
<1> QED BY <1>1, StartUpCorrect, PTL
=============================================================================
