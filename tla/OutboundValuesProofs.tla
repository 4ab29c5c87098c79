------------------------ MODULE OutboundValuesProofs ------------------------
(***************************************************************************)
(* Proofs about OutboundValues, for any mappings README.md documents, any  *)
(* values and any lengths of the queues.                                   *)
(***************************************************************************)
EXTENDS OutboundValues, SequenceTheorems, TLAPS

(* The messages of a sequence that go to one of some places, by position,  *)
(* and the value of the last of them.                                      *)
Ones(s, to) == {i \in DOMAIN s : s[i].to \in to}
LastIs(s, to, v) ==
    \A i \in Ones(s, to) : (\A j \in Ones(s, to) : j <= i) => s[i].value = v

Picture == {"feed", "attribute"}
Default == {"DFV"}

InboxType == [to : {"feed", "DFV"}, value : Values]

-----------------------------------------------------------------------------
(* Sequences                                                               *)

(* What arrives is the first message; the last one stays the last.         *)
LEMMA TailOnes ==
    ASSUME NEW S, NEW s \in Seq(S), s # <<>>, NEW to, NEW v
    PROVE  /\ LastIs(s, to, v) =>
                /\ LastIs(Tail(s), to, v)
                /\ Ones(Tail(s), to) = {} /\ Head(s).to \in to => Head(s).value = v
           /\ Ones(Tail(s), to) = {} /\ Head(s).to \notin to => Ones(s, to) = {}
           /\ Ones(s, to) = {} => Ones(Tail(s), to) = {} /\ Head(s).to \notin to
<1> DEFINE t == Tail(s)
<1>1. /\ Len(s) \in Nat /\ Len(s) > 0 /\ DOMAIN s = 1..Len(s)
      /\ DOMAIN t = 1..Len(s) - 1 /\ Head(s) = s[1]
      /\ \A i \in 1..Len(s) - 1 : t[i] = s[i + 1]
  BY EmptySeq
<1> HIDE DEF t
<1>2. \A i \in 1..Len(s) - 1 : i \in Ones(t, to) <=> i + 1 \in Ones(s, to)
  BY <1>1 DEF Ones
<1>3. \A i \in Ones(s, to) : i = 1 \/ i - 1 \in Ones(t, to)
  <2> TAKE i \in Ones(s, to)
  <2>1. i \in 1..Len(s)
    BY <1>1 DEF Ones
  <2>2. i # 1 => i - 1 \in 1..Len(s) - 1 /\ i - 1 + 1 = i
    BY <1>1, <2>1
  <2> QED BY <1>2, <2>2
<1>4. ASSUME LastIs(s, to, v) PROVE LastIs(t, to, v)
  <2> SUFFICES ASSUME NEW i \in Ones(t, to), \A j \in Ones(t, to) : j <= i
               PROVE  t[i].value = v
    BY DEF LastIs
  <2>1. i \in 1..Len(s) - 1
    BY <1>1 DEF Ones
  <2>2. i + 1 \in Ones(s, to)
    BY <1>2, <2>1
  <2>3. ASSUME NEW j \in Ones(s, to) PROVE j <= i + 1
    <3>1. j \in 1..Len(s)
      BY <1>1 DEF Ones
    <3>2. j = 1 \/ j - 1 <= i
      BY <1>3
    <3> QED BY <1>1, <2>1, <3>1, <3>2
  <2>4. s[i + 1].value = v
    BY <1>4, <2>2, <2>3 DEF LastIs
  <2> QED BY <1>1, <2>1, <2>4
<1>5. ASSUME LastIs(s, to, v), Ones(t, to) = {}, Head(s).to \in to
      PROVE  Head(s).value = v
  <2>1. 1 \in Ones(s, to)
    BY <1>1, <1>5 DEF Ones
  <2>2. \A j \in Ones(s, to) : j <= 1
    BY <1>3, <1>5
  <2> QED BY <1>1, <1>5, <2>1, <2>2 DEF LastIs
<1>6. ASSUME Ones(t, to) = {}, Head(s).to \notin to PROVE Ones(s, to) = {}
  <2>1. 1 \notin Ones(s, to)
    BY <1>1, <1>6 DEF Ones
  <2> QED BY <1>3, <1>6, <2>1
<1>7. ASSUME Ones(s, to) = {} PROVE Ones(t, to) = {} /\ Head(s).to \notin to
  <2>1. \A i \in Ones(t, to) : i \in 1..Len(s) - 1
    BY <1>1 DEF Ones
  <2>2. Head(s).to \in to => 1 \in Ones(s, to)
    BY <1>1 DEF Ones
  <2> QED BY <1>2, <1>7, <2>1, <2>2
<1> QED BY <1>4, <1>5, <1>6, <1>7 DEF t

(* What is sent comes last. *)
LEMMA ConcatOnes ==
    ASSUME NEW S, NEW s \in Seq(S), NEW t \in Seq(S), NEW to, NEW v
    PROVE  /\ Ones(t, to) = {} /\ LastIs(s, to, v) => LastIs(s \o t, to, v)
           /\ Ones(t, to) # {} /\ LastIs(t, to, v) => LastIs(s \o t, to, v)
           /\ Ones(s \o t, to) = {} <=> Ones(s, to) = {} /\ Ones(t, to) = {}
<1> DEFINE u == s \o t
           m == Len(s)
           n == Len(t)
<1>1. /\ m \in Nat /\ n \in Nat /\ DOMAIN s = 1..m /\ DOMAIN t = 1..n
      /\ DOMAIN u = 1..m + n
  BY ConcatProperties
<1>2. /\ \A i \in 1..m : u[i] = s[i]
      /\ \A i \in 1..n : u[i + m] = t[i]
  <2>1. \A i \in 1..m + n : u[i] = IF i <= m THEN s[i] ELSE t[i - m]
    BY ConcatProperties
  <2> HIDE DEF u
  <2>2. ASSUME NEW i \in 1..n PROVE u[i + m] = t[i]
    <3>1. i + m \in 1..m + n /\ ~(i + m <= m) /\ i + m - m = i
      BY <1>1
    <3> QED BY <2>1, <3>1
  <2>3. ASSUME NEW i \in 1..m PROVE u[i] = s[i]
    <3>1. i \in 1..m + n /\ i <= m
      BY <1>1
    <3> QED BY <2>1, <3>1
  <2> QED BY <2>2, <2>3
<1> HIDE DEF u, m, n
<1>3. /\ \A i \in Ones(s, to) : i \in 1..m /\ i \in Ones(u, to)
      /\ \A i \in Ones(t, to) : i \in 1..n /\ i + m \in Ones(u, to)
  <2>1. ASSUME NEW i \in Ones(s, to) PROVE i \in 1..m /\ i \in Ones(u, to)
    <3>1. i \in 1..m /\ i \in 1..m + n /\ s[i].to \in to
      BY <1>1 DEF Ones
    <3> QED BY <1>1, <1>2, <3>1 DEF Ones
  <2>2. ASSUME NEW i \in Ones(t, to) PROVE i \in 1..n /\ i + m \in Ones(u, to)
    <3>1. i \in 1..n /\ t[i].to \in to
      BY <1>1 DEF Ones
    <3>2. i + m \in 1..m + n
      BY <1>1, <3>1
    <3> QED BY <1>1, <1>2, <3>1, <3>2 DEF Ones
  <2> QED BY <2>1, <2>2
<1>4. \A i \in Ones(u, to) :
        \/ i \in 1..m /\ i \in Ones(s, to) /\ u[i] = s[i]
        \/ i \in m + 1..m + n /\ i - m \in Ones(t, to) /\ u[i] = t[i - m]
  <2> TAKE i \in Ones(u, to)
  <2>1. i \in 1..m + n /\ u[i].to \in to
    BY <1>1 DEF Ones
  <2>2. CASE i <= m
    <3>1. i \in 1..m
      BY <1>1, <2>1, <2>2
    <3> QED BY <1>1, <1>2, <2>1, <3>1 DEF Ones
  <2>3. CASE ~(i <= m)
    <3>1. i \in m + 1..m + n /\ i - m \in 1..n /\ i - m + m = i
      BY <1>1, <2>1, <2>3
    <3> QED BY <1>1, <1>2, <2>1, <3>1 DEF Ones
  <2> QED BY <2>2, <2>3
<1>5. ASSUME Ones(t, to) = {}, LastIs(s, to, v) PROVE LastIs(u, to, v)
  <2> SUFFICES ASSUME NEW i \in Ones(u, to), \A j \in Ones(u, to) : j <= i
               PROVE  u[i].value = v
    BY DEF LastIs
  <2>1. i \in Ones(s, to) /\ u[i] = s[i]
    BY <1>4, <1>5
  <2>2. \A j \in Ones(s, to) : j <= i
    BY <1>3
  <2> QED BY <1>5, <2>1, <2>2 DEF LastIs
<1>6. ASSUME Ones(t, to) # {}, LastIs(t, to, v) PROVE LastIs(u, to, v)
  <2> SUFFICES ASSUME NEW i \in Ones(u, to), \A j \in Ones(u, to) : j <= i
               PROVE  u[i].value = v
    BY DEF LastIs
  <2>1. PICK k \in Ones(t, to) : TRUE
    BY <1>6
  <2>2. k \in 1..n /\ k + m <= i
    BY <1>3
  <2>3. i \in m + 1..m + n /\ i - m \in Ones(t, to) /\ u[i] = t[i - m]
    BY <1>1, <1>4, <2>2
  <2>4. ASSUME NEW j \in Ones(t, to) PROVE j <= i - m
    <3>1. j \in 1..n /\ j + m <= i
      BY <1>3
    <3> QED BY <1>1, <2>3, <3>1
  <2> QED BY <1>6, <2>3, <2>4 DEF LastIs
<1>7. Ones(u, to) = {} <=> Ones(s, to) = {} /\ Ones(t, to) = {}
  BY <1>3, <1>4
<1> QED BY <1>5, <1>6, <1>7 DEF u

-----------------------------------------------------------------------------
(* What is sent of a value: nothing, or one message with it. *)
LEMMA SendOutOne ==
    ASSUME NEW m \in ModuleMapping, NEW v, NEW messages \in SendOutMappingValue(m, v)
    PROVE  \/ messages = <<>>
           \/ \E to \in Picture, type \in {"BOOLEAN", "NUMERIC", "STRING"} :
                messages = Message(to, type, v)
<1>1. CASE m.dataType = "BOOL"
  BY <1>1 DEF SendOutMappingValue, SendOutBool, Picture
<1>2. CASE m.dataType # "BOOL" /\ m.mappingType # "Attribute"
  BY <1>2 DEF SendOutMappingValue, SendOutBytes, FormReadingForMappingValue, Picture
<1>3. CASE m.dataType # "BOOL" /\ m.mappingType = "Attribute"
  <2>1. PICK operation : messages = FormAttributeForMappingValue(m, operation, v)
    BY <1>3 DEF SendOutMappingValue, SendOutBytes
  <2> QED BY <2>1, Zenon DEF FormAttributeForMappingValue, Picture
<1> QED BY <1>1, <1>2, <1>3

(* Of a mapping README.md documents, it has the type that was registered;  *)
(* unless its attributes are not formed, there is a message, and for a     *)
(* place that was registered.                                              *)
Formed(m) == m.mappingType = "Attribute" => m.dataType \notin {"BOOL", "FLOAT"}

LEMMA SendOutAsRegistered ==
    ASSUME NEW m \in ModuleMapping, Documented(m), NEW v,
           NEW messages \in SendOutMappingValue(m, v)
    PROVE  /\ \A i \in DOMAIN messages : messages[i].type = GetDataTypeFromMapping(m)
           /\ Formed(m) => /\ messages # <<>>
                           /\ messages[1].to \in MakeRegistrationData(m)
<1> DEFINE Right(to, message) ==
            /\ message = <<[to |-> to, type |-> GetDataTypeFromMapping(m), value |-> v]>>
<1>1. \A to, message : Right(to, message) =>
        /\ \A i \in DOMAIN message : message[i].type = GetDataTypeFromMapping(m)
        /\ message # <<>> /\ message[1].to = to
  OBVIOUS
<1>2. \/ m.dataType = "BOOL" /\ GetDataTypeFromMapping(m) = "BOOLEAN"
      \/ m.dataType = "STRING" /\ GetDataTypeFromMapping(m) = "STRING"
      \/ m.dataType \notin {"BOOL", "STRING"} /\ GetDataTypeFromMapping(m) = "NUMERIC"
  <2>1. CASE m.registerType \in {"COIL", "INPUT_CONTACT"}
    <3>1. m.dataType = "BOOL"
      BY <2>1 DEF Documented
    <3> QED BY <2>1, <3>1 DEF GetDataTypeFromMapping
  <2>2. CASE m.registerType \notin {"COIL", "INPUT_CONTACT"} /\ m.operationType = "TAKE_BIT"
    <3>1. m.dataType = "BOOL"
      BY <2>2 DEF Documented
    <3> QED BY <2>2, <3>1 DEF GetDataTypeFromMapping
  <2>3. CASE m.registerType \notin {"COIL", "INPUT_CONTACT"} /\ m.operationType = "STRINGIFY"
    <3>1. m.dataType = "STRING"
      BY <2>3 DEF Documented
    <3> QED BY <2>3, <3>1 DEF GetDataTypeFromMapping
  <2>4. CASE /\ m.registerType \notin {"COIL", "INPUT_CONTACT"}
             /\ m.operationType \notin {"TAKE_BIT", "STRINGIFY"}
    <3>1. m.dataType \notin {"BOOL", "STRING"}
      BY <2>4 DEF Documented
    <3> QED BY <2>4, <3>1 DEF GetDataTypeFromMapping
  <2> QED BY <2>1, <2>2, <2>3, <2>4
<1>3. CASE m.dataType = "BOOL"
  <2>1. Right("feed", messages)
    BY <1>2, <1>3 DEF SendOutMappingValue, SendOutBool, Message
  <2>2. Formed(m) => "feed" \in MakeRegistrationData(m)
    BY <1>3 DEF Formed, MakeRegistrationData
  <2> HIDE DEF Right
  <2> QED BY <1>1, <2>1, <2>2
<1>4. CASE m.dataType # "BOOL" /\ m.mappingType # "Attribute"
  <2>1. Right("feed", messages)
    BY <1>2, <1>4 DEF SendOutMappingValue, SendOutBytes, FormReadingForMappingValue, Message
  <2>2. "feed" \in MakeRegistrationData(m)
    BY <1>4 DEF MakeRegistrationData
  <2> HIDE DEF Right
  <2> QED BY <1>1, <2>1, <2>2
<1>5. CASE m.dataType # "BOOL" /\ m.mappingType = "Attribute"
  <2>1. PICK operation \in FromJSONMapping(m).operationTypes :
            messages = FormAttributeForMappingValue(m, operation, v)
    BY <1>5 DEF SendOutMappingValue, SendOutBytes
  <2>2. "attribute" \in MakeRegistrationData(m)
    BY <1>5 DEF MakeRegistrationData
  <2>3. messages = <<>> \/ Right("attribute", messages)
    <3>1. m.dataType = "STRING" => \/ messages = <<>>
                                   \/ messages = Message("attribute", "STRING", v)
      BY <2>1, Zenon DEF FormAttributeForMappingValue
    <3>2. m.dataType # "STRING" => \/ messages = <<>>
                                   \/ messages = Message("attribute", "NUMERIC", v)
      BY <2>1, Zenon DEF FormAttributeForMappingValue
    <3> QED BY <1>2, <1>5, <3>1, <3>2 DEF Message
  <2>4. Formed(m) => messages # <<>>
    <3> SUFFICES ASSUME Formed(m) PROVE messages # <<>>
      OBVIOUS
    <3>1. m.dataType \in {"UINT16", "INT16", "UINT32", "INT32", "STRING"}
      BY <1>5 DEF Formed, ModuleMapping, DataTypes
    <3>2. Message("attribute", "NUMERIC", v) # <<>> /\ Message("attribute", "STRING", v) # <<>>
      BY DEF Message
    <3>3. CASE m.dataType \in {"UINT16", "INT16"}
      <4>1. messages = Message("attribute", "NUMERIC", v)
        BY <2>1, <3>3 DEF FormAttributeForMappingValue
      <4> QED BY <3>2, <4>1
    <3>4. CASE m.dataType \in {"UINT32", "INT32"}
      <4>1. m.operationType = "MERGE"
        BY <3>4 DEF Documented
      <4>2. operation = "MERGE"
        BY <2>1, <3>4, <4>1 DEF FromJSONMapping, FromTwoRegisters, MoreModbusMapping
      <4>3. messages = Message("attribute", "NUMERIC", v)
        BY <2>1, <3>4, <4>2 DEF FormAttributeForMappingValue
      <4> QED BY <3>2, <4>3
    <3>5. CASE m.dataType = "STRING"
      <4>1. m.operationType = "STRINGIFY"
        BY <3>5 DEF Documented
      <4>2. operation = "STRINGIFY"
        BY <2>1, <3>5, <4>1 DEF FromJSONMapping, FromRegisters, MoreModbusMapping
      <4>3. messages = Message("attribute", "STRING", v)
        BY <2>1, <3>5, <4>2 DEF FormAttributeForMappingValue
      <4> QED BY <3>2, <4>3
    <3> QED BY <3>1, <3>3, <3>4, <3>5
  <2>5. messages = <<>> => \A i \in DOMAIN messages : FALSE
    OBVIOUS
  <2> HIDE DEF Right
  <2> QED BY <1>1, <2>2, <2>3, <2>4, <2>5
<1> QED BY <1>3, <1>4, <1>5

-----------------------------------------------------------------------------
(* Type correctness                                                        *)

LEMMA SendOutType ==
    ASSUME TypeOK, NEW v \in Values, NEW messages \in SendOutMappingValue(mapping, v)
    PROVE  messages \in Seq(MessageType)
<1>1. mapping \in ModuleMapping
  BY MappingsAssumption DEF TypeOK
<1>2. CASE messages = <<>>
  BY <1>2
<1>3. ASSUME NEW to \in Picture, NEW type \in {"BOOLEAN", "NUMERIC", "STRING"},
             messages = Message(to, type, v)
      PROVE  messages \in Seq(MessageType)
  <2>1. [to |-> to, type |-> type, value |-> v] \in MessageType
    BY DEF MessageType, Picture
  <2> QED BY <1>3, <2>1 DEF Message
<1> QED BY <1>1, <1>2, <1>3, SendOutOne

LEMMA AddType ==
    ASSUME TypeOK, NEW messages \in Seq(MessageType), Add(messages)
    PROVE  queue' \in Seq(MessageType) /\ Len(queue') <= MaxQueue
<1>1. queue \in Seq(MessageType) /\ queue' = queue \o messages
  BY DEF TypeOK, Add
<1>2. Len(queue') = Len(queue) + Len(messages) /\ queue' \in Seq(MessageType)
  BY <1>1, ConcatProperties
<1> QED BY <1>2 DEF Add

LEMMA TypeInitially == Init => TypeOK
<1> SUFFICES ASSUME Init PROVE TypeOK
  OBVIOUS
<1>1. queue = <<>> /\ inbox = <<>> /\ sets = 0
  BY DEF Init
<1>2. queue \in Seq(MessageType) /\ Len(queue) <= MaxQueue
      /\ inbox \in Seq(InboxType) /\ sets \in 0..MaxSets
  BY <1>1, BoundsAssumption
<1>3. /\ mapping \in MappingsTried /\ register \in Values
      /\ local = Unread /\ running = FALSE /\ starting = "idle" /\ mustRead = FALSE
      /\ default \in Values /\ shown \in Values /\ shownDefault \in Values
      /\ undone = FALSE /\ overtaken = FALSE /\ announced = FALSE /\ copy = Unread
  BY DEF Init
<1> QED BY <1>2, <1>3 DEF TypeOK, Labels, InboxType

(* start() and stop() of the bridge. *)
LEMMA TypeStart ==
    ASSUME TypeOK,
           \/ Start \/ WriteDefault \/ TriggerGroupValueChange \/ SendOutCopy
           \/ Announce \/ Stop
    PROVE  TypeOK'
<1> USE DEF Labels, platformPart, history
<1>1. CASE Start
  BY <1>1 DEF TypeOK, Start
<1>2. CASE WriteDefault
  BY <1>2 DEF TypeOK, WriteDefault, Write
<1>3. CASE TriggerGroupValueChange
  <2>1. copy' \in Values
    BY <1>3 DEF TypeOK, TriggerGroupValueChange
  <2> QED BY <1>3, <2>1, ValuesAssumption DEF TypeOK, TriggerGroupValueChange
<1>6. CASE SendOutCopy
  <2>1. copy \in Values
    BY <1>6 DEF TypeOK, SendOutCopy
  <2>2. PICK messages \in SendOutMappingValue(mapping, copy) : Add(messages)
    BY <1>6 DEF SendOutCopy
  <2>3. queue' \in Seq(MessageType) /\ Len(queue') <= MaxQueue
    BY <2>1, <2>2, SendOutType, AddType
  <2> QED BY <1>6, <2>3 DEF TypeOK, SendOutCopy
<1>4. CASE Announce
  <2>1. MakeReadingsFromMap \in Seq(MessageType)
    <3>1. [to |-> "DFV", type |-> "STRING", value |-> default] \in MessageType
      BY DEF TypeOK, MessageType
    <3> QED BY <3>1 DEF MakeReadingsFromMap, Message
  <2>2. queue' \in Seq(MessageType) /\ Len(queue') <= MaxQueue
    BY <1>4, <2>1, AddType DEF Announce
  <2> QED BY <1>4, <2>2 DEF TypeOK, Announce
<1>5. CASE Stop
  BY <1>5 DEF TypeOK, Stop
<1> QED BY <1>1, <1>2, <1>3, <1>4, <1>5, <1>6

(* The reader, the device, handleUpdate(), main() and a relaunch. *)
LEMMA TypeRest ==
    ASSUME TypeOK,
           \/ ReadMapping \/ DeviceChanges \/ PlatformSets
           \/ HandleFeedReading \/ HandleDefaultValueReading
           \/ Publish \/ Relaunch
    PROVE  TypeOK'
<1> USE DEF Labels, platformPart, modulePart, history
<1>1. CASE ReadMapping
  <2>1. queue' \in Seq(MessageType) /\ Len(queue') <= MaxQueue
    <3>1. CASE register = local
      BY <1>1, <3>1 DEF TypeOK, ReadMapping
    <3>2. CASE register # local
      <4>1. PICK messages \in SendOutMappingValue(mapping, register) : Add(messages)
        BY <1>1, <3>2 DEF ReadMapping
      <4>2. messages \in Seq(MessageType)
        BY <4>1, SendOutType DEF TypeOK
      <4> QED BY <4>1, <4>2, AddType
    <3> QED BY <3>1, <3>2
  <2> QED BY <1>1, <2>1 DEF TypeOK, ReadMapping
<1>2. CASE DeviceChanges
  BY <1>2 DEF TypeOK, DeviceChanges
<1>3. CASE PlatformSets
  <2>1. PICK v \in Values :
            \/ shown' = v /\ UNCHANGED shownDefault
               /\ inbox' = Append(inbox, [to |-> "feed", value |-> v])
            \/ shownDefault' = v /\ UNCHANGED shown
               /\ inbox' = Append(inbox, [to |-> "DFV", value |-> v])
    BY <1>3 DEF PlatformSets
  <2>2. inbox' \in Seq([to : {"feed", "DFV"}, value : Values])
    <3>1. inbox \in Seq(InboxType)
      BY DEF TypeOK, InboxType
    <3>2. [to |-> "feed", value |-> v] \in InboxType /\ [to |-> "DFV", value |-> v] \in InboxType
      BY DEF InboxType
    <3>3. inbox' \in Seq(InboxType)
      BY <2>1, <3>1, <3>2, AppendProperties
    <3> QED BY <3>3 DEF InboxType
  <2>3. sets' \in 0..MaxSets
    BY <1>3, BoundsAssumption DEF TypeOK, PlatformSets
  <2>4. shown' \in Values /\ shownDefault' \in Values
    BY <2>1 DEF TypeOK
  <2> QED BY <1>3, <2>2, <2>3, <2>4 DEF TypeOK, PlatformSets
<1>4. CASE HandleFeedReading \/ HandleDefaultValueReading
  <2>1. inbox # <<>> /\ inbox \in Seq([to : {"feed", "DFV"}, value : Values])
        /\ inbox' = Tail(inbox)
    BY <1>4 DEF TypeOK, HandleFeedReading, HandleDefaultValueReading
  <2>2. inbox' \in Seq([to : {"feed", "DFV"}, value : Values]) /\ Head(inbox).value \in Values
    <3>1. Head(inbox) \in InboxType /\ Tail(inbox) \in Seq(InboxType)
      BY <2>1, HeadTailProperties DEF InboxType
    <3> QED BY <2>1, <3>1 DEF InboxType
  <2>3. CASE HandleFeedReading
    <3>1. mapping.autoReadAfterWrite \in BOOLEAN
      BY MappingsAssumption DEF TypeOK, ModuleMapping
    <3> QED BY <2>2, <2>3, <3>1 DEF TypeOK, HandleFeedReading, Write
  <2>4. CASE HandleDefaultValueReading
    BY <2>2, <2>4 DEF TypeOK, HandleDefaultValueReading
  <2> QED BY <1>4, <2>3, <2>4
<1>5. CASE Publish
  <2>1. queue # <<>> /\ queue \in Seq(MessageType) /\ queue' = Tail(queue)
    BY <1>5 DEF TypeOK, Publish
  <2>2. queue' \in Seq(MessageType) /\ Len(queue') <= MaxQueue /\ Head(queue).value \in Values
    <3>1. /\ Head(queue) \in MessageType /\ Tail(queue) \in Seq(MessageType)
          /\ Len(Tail(queue)) = Len(queue) - 1 /\ Len(queue) \in Nat
      BY <2>1, HeadTailProperties
    <3>2. Len(queue) <= MaxQueue
      BY DEF TypeOK
    <3> QED BY <2>1, <3>1, <3>2, BoundsAssumption DEF MessageType
  <2>3. shown' \in Values /\ shownDefault' \in Values
    BY <1>5, <2>2 DEF TypeOK, Publish
  <2> QED BY <1>5, <2>2, <2>3 DEF TypeOK, Publish
<1>6. CASE Relaunch
  <2>1. queue' \in Seq(MessageType) /\ Len(queue') <= MaxQueue
        /\ inbox' \in Seq([to : {"feed", "DFV"}, value : Values])
    BY <1>6, BoundsAssumption DEF Relaunch
  <2> QED BY <1>6, <2>1 DEF TypeOK, Relaunch
<1> QED BY <1>1, <1>2, <1>3, <1>4, <1>5, <1>6

LEMMA TypeStep == TypeOK /\ [Next]_vars => TypeOK'
<1> SUFFICES ASSUME TypeOK, [Next]_vars PROVE TypeOK'
  OBVIOUS
<1>1. CASE UNCHANGED vars
  BY <1>1 DEF TypeOK, vars
<1> QED BY <1>1, TypeStart, TypeRest DEF Next

(* The state has its type, for any mappings and values (ModbusBridge,      *)
(* main()).                                                                *)
THEOREM OutboundTypeCorrect == Spec => []TypeOK
BY TypeInitially, TypeStep, PTL DEF Spec

-----------------------------------------------------------------------------
(* The inductive invariant                                                 *)

(* A value that waits was formed as it was registered. *)
Sound(message) ==
    Documented(mapping) /\ message.to # "DFV" =>
        /\ message.type = GetDataTypeFromMapping(mapping)
        /\ Formed(mapping) => message.to \in MakeRegistrationData(mapping)

MessagesOK == \A i \in DOMAIN queue : Sound(queue[i])

(* The last value that waits is the local copy.  If none waits and the     *)
(* platform shows another one, the platform has set that: it is still on   *)
(* its way or in the register, or start() is about to send the local copy. *)
Sending == {"trigger", "send", "triggerAgain", "sendAgain"}

Awaited ==
    \/ starting \in Sending
    \/ Ones(inbox, Picture) # {} /\ LastIs(inbox, Picture, shown)
    \/ Ones(inbox, Picture) = {} /\ register = shown

Reported ==
    Followed /\ local # Unread /\ ~overtaken =>
        /\ LastIs(queue, Picture, local)
        /\ Ones(queue, Picture) = {} /\ ~undone /\ shown # local => Awaited

(* The last announcement that waits is the default value in force, or the  *)
(* platform shows it, as long as none is on its way to the module.         *)
DefaultKnown ==
    announced /\ mapping.defaultValue /\ Ones(inbox, Default) = {} =>
        /\ LastIs(queue, Default, default)
        /\ Ones(queue, Default) = {} => shownDefault = default

PictureOK == MessagesOK /\ Reported /\ DefaultKnown

(* No operation changes the options of the mapping. *)
LEMMA SameOptions ==
    ASSUME NEW m \in ModuleMapping
    PROVE  FromJSONMapping(m).autoLocalUpdate = m.autoLocalUpdate
<1>1. m.dataType \in DataTypes
  BY DEF ModuleMapping
<1>2. CASE m.dataType \in {"BOOL", "UINT16", "INT16"}
  BY <1>2 DEF FromJSONMapping, FromOneRegister, MoreModbusMapping
<1>3. CASE m.dataType \in {"UINT32", "INT32", "FLOAT"}
  <2>1. FromJSONMapping(m) = FromTwoRegisters(m)
    BY <1>3, Zenon DEF FromJSONMapping
  <2> QED BY <2>1 DEF FromTwoRegisters, MoreModbusMapping
<1>4. CASE m.dataType = "STRING"
  <2>1. FromJSONMapping(m) = FromRegisters(m)
    BY <1>4, Zenon DEF FromJSONMapping
  <2> QED BY <2>1 DEF FromRegisters, MoreModbusMapping
<1> QED BY <1>1, <1>2, <1>3, <1>4 DEF DataTypes

(* What SendOutMappingValue() sends of a value, by place. *)
LEMMA SentOnes ==
    ASSUME TypeOK, NEW v \in Values,
           NEW messages \in SendOutMappingValue(mapping, v)
    PROVE  /\ messages \in Seq(MessageType)
           /\ \A i \in DOMAIN messages : Sound(messages[i])
           /\ LastIs(messages, Picture, v) /\ Ones(messages, Default) = {}
           /\ Followed => Ones(messages, Picture) # {}
<1>1. mapping \in ModuleMapping
  BY MappingsAssumption DEF TypeOK
<1>2. messages \in Seq(MessageType)
  BY SendOutType
<1>3. Documented(mapping) =>
      /\ \A i \in DOMAIN messages : messages[i].type = GetDataTypeFromMapping(mapping)
      /\ Formed(mapping) => /\ messages # <<>>
                            /\ messages[1].to \in MakeRegistrationData(mapping)
  BY <1>1, SendOutAsRegistered
<1>4. Followed => Documented(mapping) /\ Formed(mapping)
  BY DEF Followed, Formed
<1>5. CASE messages = <<>>
  <2>1. DOMAIN messages = {}
    BY <1>5
  <2> QED BY <1>2, <1>3, <1>4, <1>5, <2>1 DEF Ones, LastIs
<1>6. ASSUME NEW to \in Picture, NEW type \in {"BOOLEAN", "NUMERIC", "STRING"},
             messages = Message(to, type, v)
      PROVE  /\ \A i \in DOMAIN messages : Sound(messages[i])
             /\ LastIs(messages, Picture, v) /\ Ones(messages, Default) = {}
             /\ Ones(messages, Picture) # {}
  <2>1. DOMAIN messages = {1} /\ messages[1].to = to /\ messages[1].value = v
    BY <1>6 DEF Message
  <2>2. to # "DFV"
    BY DEF Picture
  <2> QED BY <1>3, <2>1, <2>2 DEF Ones, LastIs, Sound, Picture, Default
<1> QED BY <1>1, <1>2, <1>5, <1>6, SendOutOne

(* A queue that grows by sound messages stays sound. *)
LEMMA SoundAdd ==
    ASSUME TypeOK, MessagesOK, mapping' = mapping,
           NEW messages \in Seq(MessageType), Add(messages),
           \A i \in DOMAIN messages : Sound(messages[i])
    PROVE  MessagesOK'
<1>1. queue \in Seq(MessageType) /\ queue' = queue \o messages
  BY DEF TypeOK, Add
<1>2. ASSUME NEW i \in DOMAIN queue' PROVE Sound(queue'[i])
  <2>1. /\ Len(queue) \in Nat /\ Len(messages) \in Nat
        /\ DOMAIN queue = 1..Len(queue) /\ DOMAIN messages = 1..Len(messages)
        /\ DOMAIN queue' = 1..Len(queue) + Len(messages)
        /\ queue'[i] = IF i <= Len(queue) THEN queue[i] ELSE messages[i - Len(queue)]
    BY <1>1, ConcatProperties
  <2>2. CASE i <= Len(queue)
    BY <1>2, <2>1, <2>2 DEF MessagesOK
  <2>3. CASE ~(i <= Len(queue))
    <3>1. i - Len(queue) \in DOMAIN messages
      BY <1>2, <2>1, <2>3
    <3> QED BY <2>1, <2>3, <3>1
  <2> QED BY <2>2, <2>3
<1> QED BY <1>2 DEF MessagesOK, Sound

LEMMA PictureInitially == Init => PictureOK
<1> SUFFICES ASSUME Init PROVE PictureOK
  OBVIOUS
<1>1. queue = <<>> /\ local = Unread /\ announced = FALSE
  BY DEF Init
<1>2. MessagesOK
  BY <1>1 DEF MessagesOK
<1> QED BY <1>1, <1>2 DEF PictureOK, Reported, DefaultKnown

(* Operations that send nothing: start() up to and after the write of the  *)
(* default value and when it reads the local copy, stop(), and what the    *)
(* device does.                                                            *)
LEMMA PictureUnsent ==
    ASSUME TypeOK, PictureOK,
           \/ Start \/ Stop \/ WriteDefault \/ TriggerGroupValueChange
           \/ DeviceChanges
    PROVE  PictureOK'
<1>1. UNCHANGED <<mapping, queue, inbox, default, shown, shownDefault, announced,
                  overtaken>>
  BY DEF Start, Stop, WriteDefault, TriggerGroupValueChange, DeviceChanges,
         platformPart, modulePart, history
<1>2. MessagesOK'
  BY <1>1 DEF PictureOK, MessagesOK, Sound
<1>3. DefaultKnown'
  BY <1>1 DEF PictureOK, DefaultKnown
<1>4. Followed' = Followed
  BY <1>1 DEF Followed
<1>5. CASE Start \/ Stop \/ TriggerGroupValueChange
  <2>1. /\ UNCHANGED <<register, local, undone>>
        /\ starting \in Sending => starting' \in Sending
    BY <1>5 DEF Start, Stop, TriggerGroupValueChange, platformPart, history, Sending
  <2>2. Reported'
    BY <1>1, <1>4, <2>1 DEF PictureOK, Reported, Awaited
  <2> QED BY <1>2, <1>3, <2>2 DEF PictureOK
<1>6. CASE WriteDefault
  <2>1. UNCHANGED undone /\ starting' \in Sending /\ (Followed => local' = local)
    <3>1. ~mapping.autoLocalUpdate => ~FromJSONMapping(mapping).autoLocalUpdate
      BY SameOptions, MappingsAssumption DEF TypeOK
    <3> QED BY <1>6, <3>1 DEF WriteDefault, Write, Followed, history, Sending
  <2>2. Reported'
    BY <1>1, <1>4, <2>1 DEF PictureOK, Reported, Awaited
  <2> QED BY <1>2, <1>3, <2>2 DEF PictureOK
<1>7. CASE DeviceChanges
  <2>1. UNCHANGED <<local, starting>> /\ (~undone' => ~undone /\ register = local)
    BY <1>7 DEF DeviceChanges, modulePart, TypeOK
  <2>2. Reported'
    BY <1>1, <1>4, <2>1 DEF PictureOK, Reported, Awaited
  <2> QED BY <1>2, <1>3, <2>2 DEF PictureOK
<1> QED BY <1>5, <1>6, <1>7

(* The local copy or the register goes out: what was sent last of it is    *)
(* the value itself, and the announcements stay as they are.               *)
LEMMA PictureSent ==
    ASSUME TypeOK, PictureOK, NEW v \in Values,
           NEW messages \in Seq(MessageType), Add(messages),
           \A i \in DOMAIN messages : Sound(messages[i]),
           LastIs(messages, Picture, v), Ones(messages, Default) = {},
           Followed => Ones(messages, Picture) # {},
           UNCHANGED <<mapping, inbox, default, shownDefault, announced>>,
           Followed /\ local' # Unread /\ ~overtaken' => local' = v
    PROVE  PictureOK'
<1>1. queue \in Seq(MessageType) /\ queue' = queue \o messages
  BY DEF TypeOK, Add
<1>2. MessagesOK'
  BY SoundAdd DEF PictureOK
<1>3. Followed' = Followed
  BY DEF Followed
<1>4. Followed => LastIs(queue', Picture, v) /\ Ones(queue', Picture) # {}
  BY <1>1, ConcatOnes
<1>5. Reported'
  BY <1>3, <1>4 DEF Reported
<1>6. /\ LastIs(queue, Default, default) => LastIs(queue', Default, default)
      /\ Ones(queue', Default) = {} => Ones(queue, Default) = {}
  BY <1>1, ConcatOnes
<1>7. DefaultKnown'
  BY <1>6 DEF PictureOK, DefaultKnown
<1> QED BY <1>2, <1>5, <1>7 DEF PictureOK

(* start() sends the copy it has read, or one that was overtaken, and it    *)
(* announces the default value; a read sends the register.                 *)
LEMMA PictureSending ==
    ASSUME TypeOK, PictureOK, SendOutCopy \/ Announce \/ ReadMapping
    PROVE  PictureOK'
<1> USE DEF platformPart, history
<1>1. CASE SendOutCopy
  <2>1. /\ copy \in Values /\ local' = local
        /\ local # Unread /\ ~overtaken' => local = copy
        /\ UNCHANGED <<mapping, inbox, default, shownDefault, announced>>
    BY <1>1 DEF SendOutCopy, TypeOK
  <2>2. PICK messages \in SendOutMappingValue(mapping, copy) : Add(messages)
    BY <1>1 DEF SendOutCopy
  <2>3. /\ messages \in Seq(MessageType)
        /\ \A i \in DOMAIN messages : Sound(messages[i])
        /\ LastIs(messages, Picture, copy) /\ Ones(messages, Default) = {}
        /\ Followed => Ones(messages, Picture) # {}
    BY <2>1, <2>2, SentOnes
  <2> QED BY <2>1, <2>2, <2>3, PictureSent
<1>2. CASE Announce
  <2> DEFINE messages == MakeReadingsFromMap
  <2>1. /\ messages \in Seq(MessageType)
        /\ \A i \in DOMAIN messages : Sound(messages[i])
        /\ Ones(messages, Picture) = {}
        /\ mapping.defaultValue => /\ LastIs(messages, Default, default)
                                   /\ Ones(messages, Default) # {}
    <3>1. CASE ~mapping.defaultValue
      <4>1. messages = <<>> /\ DOMAIN messages = {}
        BY <3>1 DEF MakeReadingsFromMap
      <4> QED BY <3>1, <4>1 DEF Ones
    <3>2. CASE mapping.defaultValue
      <4>1. messages = <<[to |-> "DFV", type |-> "STRING", value |-> default]>>
        BY <3>2 DEF MakeReadingsFromMap, Message
      <4> HIDE DEF messages
      <4>2. [to |-> "DFV", type |-> "STRING", value |-> default] \in MessageType
        BY DEF MessageType, TypeOK
      <4>3. /\ messages \in Seq(MessageType) /\ DOMAIN messages = {1}
            /\ messages[1].to = "DFV" /\ messages[1].value = default
        BY <4>1, <4>2
      <4> QED BY <4>3 DEF Ones, LastIs, Sound, Picture, Default
    <3> QED BY <3>1, <3>2
  <2>2. /\ UNCHANGED <<mapping, register, local, inbox, default, undone, overtaken,
                       shown, shownDefault>>
        /\ starting \notin Sending /\ Add(messages)
    BY <1>2 DEF Announce, Sending
  <2> HIDE DEF messages
  <2>3. queue \in Seq(MessageType) /\ queue' = queue \o messages
    BY <2>2 DEF TypeOK, Add
  <2>4. MessagesOK'
    BY <2>1, <2>2, SoundAdd DEF PictureOK
  <2>5. /\ LastIs(queue, Picture, local) => LastIs(queue', Picture, local)
        /\ Ones(queue', Picture) = {} => Ones(queue, Picture) = {}
    BY <2>1, <2>3, ConcatOnes
  <2>6. Followed' = Followed
    BY <2>2 DEF Followed
  <2>7. Reported'
    BY <2>2, <2>5, <2>6 DEF PictureOK, Reported, Awaited
  <2>8. mapping.defaultValue =>
            LastIs(queue', Default, default) /\ Ones(queue', Default) # {}
    BY <2>1, <2>3, ConcatOnes
  <2>9. DefaultKnown'
    BY <2>2, <2>8 DEF DefaultKnown
  <2> QED BY <2>4, <2>7, <2>9 DEF PictureOK
<1>3. CASE ReadMapping
  <2>1. /\ UNCHANGED <<mapping, register, inbox, default, shown, shownDefault, announced>>
        /\ UNCHANGED starting /\ local' = register /\ register \in Values
    BY <1>3 DEF ReadMapping, TypeOK
  <2>2. CASE register = local
    <3>1. UNCHANGED <<queue, undone, overtaken, local>>
      BY <1>3, <2>1, <2>2 DEF ReadMapping
    <3>2. MessagesOK' /\ DefaultKnown'
      BY <2>1, <3>1 DEF PictureOK, MessagesOK, Sound, DefaultKnown
    <3>3. Reported'
      BY <2>1, <3>1 DEF PictureOK, Reported, Followed, Awaited
    <3> QED BY <3>2, <3>3 DEF PictureOK
  <2>3. CASE register # local
    <3>1. PICK messages \in SendOutMappingValue(mapping, register) : Add(messages)
      BY <1>3, <2>3 DEF ReadMapping
    <3>2. /\ messages \in Seq(MessageType)
          /\ \A i \in DOMAIN messages : Sound(messages[i])
          /\ LastIs(messages, Picture, register) /\ Ones(messages, Default) = {}
          /\ Followed => Ones(messages, Picture) # {}
      BY <2>1, SentOnes
    <3> QED BY <2>1, <3>1, <3>2, PictureSent
  <2> QED BY <2>2, <2>3
<1> QED BY <1>1, <1>2, <1>3

(* The platform sets a value, and handleUpdate() applies one. *)
LEMMA PictureInbox ==
    ASSUME TypeOK, PictureOK,
           PlatformSets \/ HandleFeedReading \/ HandleDefaultValueReading
    PROVE  PictureOK'
<1> USE DEF modulePart, history
<1>1. UNCHANGED <<mapping, queue, starting, overtaken>> /\ inbox \in Seq(InboxType)
  BY DEF PlatformSets, HandleFeedReading, HandleDefaultValueReading, TypeOK, InboxType
<1>2. MessagesOK' /\ Followed' = Followed
  BY <1>1 DEF PictureOK, MessagesOK, Sound, Followed
<1>3. CASE PlatformSets
  <2>1. UNCHANGED <<register, local, default, undone, announced>>
    BY <1>3 DEF PlatformSets
  <2>2. PICK v \in Values :
            \/ /\ shown' = v /\ inbox' = Append(inbox, [to |-> "feed", value |-> v])
               /\ shownDefault' = shownDefault
            \/ /\ inbox' = Append(inbox, [to |-> "DFV", value |-> v])
               /\ shown' = shown
    BY <1>3 DEF PlatformSets
  <2>3. CASE /\ shown' = v /\ inbox' = Append(inbox, [to |-> "feed", value |-> v])
             /\ shownDefault' = shownDefault
    <3> DEFINE one == <<[to |-> "feed", value |-> v]>>
    <3>1. /\ one \in Seq(InboxType) /\ Ones(one, Picture) # {}
          /\ LastIs(one, Picture, v) /\ Ones(one, Default) = {}
      <4>1. [to |-> "feed", value |-> v] \in InboxType
        BY DEF InboxType
      <4>2. DOMAIN one = {1} /\ one[1].to = "feed" /\ one[1].value = v
        OBVIOUS
      <4>3. one \in Seq(InboxType)
        BY <4>1
      <4> HIDE DEF one
      <4> QED BY <4>2, <4>3 DEF Ones, LastIs, Picture, Default
    <3>2. inbox' = inbox \o one
      BY <1>1, <2>3, AppendIsConcat DEF InboxType
    <3> HIDE DEF one
    <3>3. /\ LastIs(inbox', Picture, v) /\ Ones(inbox', Picture) # {}
          /\ Ones(inbox', Default) = {} => Ones(inbox, Default) = {}
      BY <1>1, <3>1, <3>2, ConcatOnes
    <3>4. Reported' /\ DefaultKnown'
      BY <1>1, <1>2, <2>1, <2>3, <3>3 DEF PictureOK, Reported, Awaited, DefaultKnown
    <3> QED BY <1>2, <3>4 DEF PictureOK
  <2>4. CASE /\ inbox' = Append(inbox, [to |-> "DFV", value |-> v])
             /\ shown' = shown
    <3> DEFINE one == <<[to |-> "DFV", value |-> v]>>
    <3>1. one \in Seq(InboxType) /\ Ones(one, Picture) = {} /\ Ones(one, Default) # {}
      <4>1. [to |-> "DFV", value |-> v] \in InboxType
        BY DEF InboxType
      <4>2. DOMAIN one = {1} /\ one[1].to = "DFV"
        OBVIOUS
      <4>3. one \in Seq(InboxType)
        BY <4>1
      <4> HIDE DEF one
      <4> QED BY <4>2, <4>3 DEF Ones, Picture, Default
    <3>2. inbox' = inbox \o one
      BY <1>1, <2>4, AppendIsConcat DEF InboxType
    <3> HIDE DEF one
    <3>3. /\ LastIs(inbox, Picture, shown) => LastIs(inbox', Picture, shown)
          /\ Ones(inbox', Picture) = {} <=> Ones(inbox, Picture) = {}
          /\ Ones(inbox', Default) # {}
      BY <1>1, <3>1, <3>2, ConcatOnes
    <3>4. Reported'
      BY <1>1, <1>2, <2>1, <2>4, <3>3 DEF PictureOK, Reported, Awaited
    <3>5. DefaultKnown'
      BY <3>3 DEF DefaultKnown
    <3> QED BY <1>2, <3>4, <3>5 DEF PictureOK
  <2> QED BY <2>2, <2>3, <2>4
<1>4. CASE HandleFeedReading
  <2>1. /\ UNCHANGED <<default, shown, shownDefault, announced>>
        /\ inbox # <<>> /\ Head(inbox).to = "feed" /\ inbox' = Tail(inbox)
    BY <1>4 DEF HandleFeedReading
  <2>2. /\ Followed => local' = local
        /\ ~undone' => ~undone /\ register' = Head(inbox).value
    <3>1. ~mapping.autoLocalUpdate => ~FromJSONMapping(mapping).autoLocalUpdate
      BY SameOptions, MappingsAssumption DEF TypeOK
    <3> QED BY <1>4, <3>1 DEF HandleFeedReading, Write, Followed
  <2>3. Head(inbox).to \in Picture /\ Head(inbox).to \notin Default
    BY <2>1 DEF Picture, Default
  <2>4. /\ LastIs(inbox, Picture, shown) =>
                /\ LastIs(inbox', Picture, shown)
                /\ Ones(inbox', Picture) = {} => Head(inbox).value = shown
        /\ Ones(inbox, Picture) # {}
        /\ Ones(inbox', Default) = {} => Ones(inbox, Default) = {}
    BY <1>1, <2>1, <2>3, TailOnes
  <2>5. Reported'
    BY <1>1, <1>2, <2>1, <2>2, <2>4 DEF PictureOK, Reported, Awaited
  <2>6. DefaultKnown'
    BY <1>1, <2>1, <2>4 DEF PictureOK, DefaultKnown
  <2> QED BY <1>2, <2>5, <2>6 DEF PictureOK
<1>5. CASE HandleDefaultValueReading
  <2>1. /\ UNCHANGED <<register, local, shown, undone>> /\ announced' = FALSE
        /\ inbox # <<>> /\ Head(inbox).to = "DFV" /\ inbox' = Tail(inbox)
    BY <1>5 DEF HandleDefaultValueReading
  <2>2. Head(inbox).to \notin Picture
    BY <2>1 DEF Picture
  <2>3. /\ LastIs(inbox, Picture, shown) => LastIs(inbox', Picture, shown)
        /\ Ones(inbox', Picture) = {} <=> Ones(inbox, Picture) = {}
    BY <1>1, <2>1, <2>2, TailOnes
  <2>4. Reported'
    BY <1>1, <1>2, <2>1, <2>3 DEF PictureOK, Reported, Awaited
  <2>5. DefaultKnown'
    BY <2>1 DEF DefaultKnown
  <2> QED BY <1>2, <2>4, <2>5 DEF PictureOK
<1> QED BY <1>3, <1>4, <1>5

(* main() publishes the first of the queue: if that was the last of its    *)
(* kind, the platform shows it.                                            *)
LEMMA PicturePublished ==
    ASSUME TypeOK, PictureOK, Publish
    PROVE  PictureOK'
<1>1. /\ UNCHANGED <<mapping, register, inbox, undone, overtaken, local, starting,
                     default, announced>>
      /\ queue # <<>> /\ queue \in Seq(MessageType) /\ queue' = Tail(queue)
  BY DEF Publish, TypeOK, modulePart, history
<1> DEFINE message == Head(queue)
           known == message.to \in MakeRegistrationData(mapping)
<1>2. /\ shown' = IF known /\ message.to # "DFV" THEN message.value ELSE shown
      /\ shownDefault' = IF known /\ message.to = "DFV" THEN message.value
                         ELSE shownDefault
  BY DEF Publish
<1>3. message \in MessageType /\ Sound(message)
  <2>1. 1 \in DOMAIN queue /\ message = queue[1]
    BY <1>1, EmptySeq
  <2> QED BY <1>1, <2>1, HeadTailProperties DEF PictureOK, MessagesOK
<1>4. message.to \in Picture \/ message.to \in Default
  BY <1>3 DEF MessageType, Picture, Default
<1>5. /\ message.to \in Picture => message.to # "DFV"
      /\ message.to \in Default => message.to = "DFV" /\ message.to \notin Picture
  BY DEF Picture, Default
<1> HIDE DEF message
<1>6. MessagesOK'
  <2>1. ASSUME NEW i \in DOMAIN queue' PROVE Sound(queue'[i])
    <3>1. i + 1 \in DOMAIN queue /\ queue'[i] = queue[i + 1]
      BY <1>1, <2>1, EmptySeq
    <3> QED BY <3>1 DEF PictureOK, MessagesOK
  <2> QED BY <1>1, <2>1 DEF MessagesOK, Sound
<1>7. Followed' = Followed /\ (Followed => Documented(mapping) /\ Formed(mapping))
  BY <1>1 DEF Followed, Formed
<1>8. Reported'
  <2>1. /\ LastIs(queue, Picture, local) =>
                /\ LastIs(queue', Picture, local)
                /\ Ones(queue', Picture) = {} /\ message.to \in Picture =>
                        message.value = local
        /\ Ones(queue', Picture) = {} /\ message.to \notin Picture =>
                Ones(queue, Picture) = {}
    BY <1>1, TailOnes DEF message
  <2>2. Followed /\ message.to \in Picture => shown' = message.value
    BY <1>2, <1>3, <1>5, <1>7 DEF Sound
  <2>3. message.to \notin Picture => shown' = shown
    BY <1>2, <1>4, <1>5
  <2> QED BY <1>1, <1>7, <2>1, <2>2, <2>3 DEF PictureOK, Reported, Awaited
<1>9. DefaultKnown'
  <2>1. /\ LastIs(queue, Default, default) =>
                /\ LastIs(queue', Default, default)
                /\ Ones(queue', Default) = {} /\ message.to \in Default =>
                        message.value = default
        /\ Ones(queue', Default) = {} /\ message.to \notin Default =>
                Ones(queue, Default) = {}
    BY <1>1, TailOnes DEF message
  <2>2. mapping.defaultValue /\ message.to \in Default => shownDefault' = message.value
    BY <1>2, <1>5 DEF MakeRegistrationData
  <2>3. message.to \notin Default => shownDefault' = shownDefault
    BY <1>2 DEF Default
  <2> QED BY <1>1, <2>1, <2>2, <2>3 DEF PictureOK, DefaultKnown
<1> QED BY <1>6, <1>8, <1>9 DEF PictureOK

LEMMA PictureStep == TypeOK /\ PictureOK /\ [Next]_vars => PictureOK'
<1> SUFFICES ASSUME TypeOK, PictureOK, [Next]_vars PROVE PictureOK'
  OBVIOUS
<1>1. CASE UNCHANGED vars
  BY <1>1 DEF PictureOK, MessagesOK, Sound, Reported, Followed, Awaited, DefaultKnown,
             vars
<1>2. CASE Relaunch
  <2>1. queue' = <<>> /\ local' = Unread /\ announced' = FALSE
    BY <1>2 DEF Relaunch
  <2>2. MessagesOK'
    BY <2>1 DEF MessagesOK
  <2> QED BY <2>1, <2>2 DEF PictureOK, Reported, DefaultKnown
<1> QED BY <1>1, <1>2, PictureUnsent, PictureSending, PictureInbox, PicturePublished DEF Next

LEMMA PictureAlways == Spec => [](TypeOK /\ PictureOK)
<1>1. Init => TypeOK /\ PictureOK
  BY TypeInitially, PictureInitially
<1>2. TypeOK /\ PictureOK /\ [Next]_vars => (TypeOK /\ PictureOK)'
  BY TypeStep, PictureStep
<1> QED BY <1>1, <1>2, PTL DEF Spec

-----------------------------------------------------------------------------
(* The properties                                                          *)

(* Every value sent has the type that was registered for it                *)
(* (WolkaboutTemplateFactory and ModbusBridge), for any mappings README.md *)
(* documents.                                                              *)
THEOREM TypesAlwaysAgree == Spec => []TypesAgree
<1>1. PictureOK => TypesAgree
  BY DEF PictureOK, MessagesOK, Sound, TypesAgree, Waiting
<1> QED BY <1>1, PictureAlways, PTL

(* The platform's picture converges to the register, whatever the order in *)
(* which readings, actuations and the device's own changes cross           *)
(* (ModbusBridge::start(), handleUpdate(), the reader and main()), unless  *)
(* the last that was sent is a copy start() had read before a newer value. *)
THEOREM PictureConverges == Spec => []PlatformConverges
<1>1. TypeOK /\ PictureOK => PlatformConverges
  <2> SUFFICES ASSUME TypeOK, Reported, Quiet, Followed, ~undone, ~overtaken
               PROVE  shown = register
    BY DEF PictureOK, PlatformConverges
  <2>1. local = register /\ local # Unread /\ starting = "idle"
    BY ValuesAssumption DEF Quiet, TypeOK
  <2>2. Ones(queue, Picture) = {} /\ Ones(inbox, Picture) = {}
    BY DEF Quiet, Ones
  <2> QED BY <2>1, <2>2 DEF Reported, Awaited, Sending
<1> QED BY <1>1, PictureAlways, PTL

(* The default value start() announced is the one in force, once nothing   *)
(* is under way (ModbusBridge::start(), handleUpdate()).                   *)
THEOREM DefaultAlwaysAnnounced == Spec => []DefaultAnnounced
<1>1. PictureOK => DefaultAnnounced
  <2> SUFFICES ASSUME DefaultKnown, announced, mapping.defaultValue,
                      queue = <<>>, inbox = <<>>
               PROVE  shownDefault = default
    BY DEF PictureOK, DefaultAnnounced
  <2>1. Ones(queue, Default) = {} /\ Ones(inbox, Default) = {}
    BY DEF Ones
  <2> QED BY <2>1 DEF DefaultKnown
<1> QED BY <1>1, PictureAlways, PTL
=============================================================================
