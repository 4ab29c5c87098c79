--------------------------- MODULE OutboundValues ---------------------------
(***************************************************************************)
(* How the platform's picture of one mapping follows its register: the     *)
(* reader that compares the register with a local copy, the values sent by *)
(* start() after it wrote the default value, the announcement of the       *)
(* default value, the SDK's queue that main() publishes, and the values    *)
(* the platform sets in the meantime.                                      *)
(*                                                                         *)
(* External, modelled from their use: the register, the local copy of      *)
(* MoreModbus (Unread until the first read, which always reports; reads    *)
(* report one after the other, in the order they were made), the           *)
(* SDK's queue and the messages from the platform, both in order, and the  *)
(* platform's picture, which the last message in either direction makes.   *)
(***************************************************************************)
EXTENDS Mappings, Sequences

CONSTANTS
    MappingsTried,   \* mappings of the configuration
    Values,          \* values a register can hold
    Unread,          \* a local copy that was never read
    MaxQueue,        \* bound: messages in the SDK's queue
    MaxSets          \* bound: values the platform sets in a behaviour

ASSUME MappingsAssumption == MappingsTried \subseteq ModuleMapping
ASSUME ValuesAssumption == Values # {} /\ Unread \notin Values
ASSUME BoundsAssumption == MaxQueue \in Nat /\ MaxSets \in Nat

VARIABLES
    mapping,       \* the mapping, chosen once
    register,      \* external: content of the register
    local,         \* external: MoreModbus' local copy
    running,       \* the reader runs
    starting,      \* where start() is
    copy,          \* the local copy start() has read and not yet sent
    mustRead,      \* forceReadOfMapping() is to be called
    default,       \* entry of m_defaultValueMappingByReference
    queue,         \* readings and attributes waiting for wolk->publish()
    inbox,         \* external: what the platform set, not yet delivered
    shown,         \* external: the platform's value of the mapping
    shownDefault,  \* external: the platform's value of DFV(mapping)
    undone,        \* history: a value the platform set was refused, or undone
                   \* by the device, and nothing has been reported since
    overtaken,     \* history: start() sent a copy older than what the reader
                   \* sent meanwhile, and nothing has been sent since
    announced,     \* history: no default value was received since start()
    sets           \* values the platform has set

vars == <<mapping, register, local, running, starting, copy, mustRead, default,
          queue, inbox, shown, shownDefault, undone, overtaken, announced, sets>>

(* What the bridge itself keeps, and what only the platform knows. *)
modulePart == <<local, running, starting, copy, mustRead, default, announced>>
platformPart == <<inbox, shown, shownDefault, sets>>
history == <<undone, overtaken>>

Labels == {"idle", "write", "trigger", "send", "triggerAgain", "sendAgain",
           "announce"}

Init ==
    /\ mapping \in MappingsTried
    /\ register \in Values
    /\ local = Unread /\ running = FALSE /\ starting = "idle"
    /\ copy = Unread /\ mustRead = FALSE
    /\ default \in Values
    /\ queue = <<>> /\ inbox = <<>>
    /\ shown \in Values /\ shownDefault \in Values
    /\ undone = FALSE /\ overtaken = FALSE /\ announced = FALSE
    /\ sets = 0

(* addReadings() and addAttribute() of the SDK. *)
Add(messages) ==
    /\ Len(queue) + Len(messages) <= MaxQueue
    /\ queue' = queue \o messages

-----------------------------------------------------------------------------
(* ModbusBridge::start(), stop()                                           *)

Start ==
    /\ starting = "idle"
    /\ running' = TRUE
    /\ starting' = IF mapping.defaultValue THEN "write" ELSE "announce"
    /\ UNCHANGED <<mapping, register, local, copy, mustRead, default, queue,
                   history, announced, platformPart>>

(* The write on the wire: it may fail, it does for a read-only register.   *)
(* The local copy follows only if the mapping says so.                     *)
Write(v, written) ==
    /\ written => Writable(mapping)
    /\ register' = IF written THEN v ELSE register
    /\ local' = IF written /\ FromJSONMapping(mapping).autoLocalUpdate
                THEN v ELSE local

(* writeAMapOfValues(): writeToMapping() ... *)
WriteDefault ==
    /\ starting = "write"
    /\ \E written \in BOOLEAN : Write(default, written)
    /\ starting' = "trigger"
    /\ UNCHANGED <<mapping, running, copy, mustRead, default, queue, history,
                   announced, platformPart>>

(* Mutant: the copy goes out although the register was never read. *)
TriggerUnread ==
    /\ starting \in {"trigger", "triggerAgain"}
    /\ copy' = local
    /\ starting' = IF starting = "trigger" THEN "send" ELSE "sendAgain"
    /\ UNCHANGED <<mapping, register, local, running, mustRead, default, queue,
                   history, announced, platformPart>>

(* ... then triggerGroupValueChange..(), which reads the local copy for the *)
(* device's callback and once more for the bridge itself ...               *)
TriggerGroupValueChange ==
    /\ starting \in {"trigger", "triggerAgain"}
    /\ copy' \in IF local = Unread THEN Values ELSE {local}
    /\ starting' = IF starting = "trigger" THEN "send" ELSE "sendAgain"
    /\ UNCHANGED <<mapping, register, local, running, mustRead, default, queue,
                   history, announced, platformPart>>

(* Mutant: nothing goes out. *)
SendNothing ==
    /\ starting \in {"send", "sendAgain"}
    /\ copy' = Unread
    /\ starting' = IF starting = "send" THEN "triggerAgain" ELSE "announce"
    /\ UNCHANGED <<mapping, register, local, running, mustRead, default, queue,
                   history, announced, platformPart>>

(* ... and sends it out, both times without a lock: the reader may have    *)
(* sent a newer value since.                                               *)
SendOutCopy ==
    /\ starting \in {"send", "sendAgain"}
    /\ \E messages \in SendOutMappingValue(mapping, copy) : Add(messages)
    /\ overtaken' = (local \notin {Unread, copy})
    /\ copy' = Unread
    /\ starting' = IF starting = "send" THEN "triggerAgain" ELSE "announce"
    /\ UNCHANGED <<mapping, register, local, running, mustRead, default,
                   undone, announced, platformPart>>

(* Mutant: the default value is not announced. *)
AnnounceNothing ==
    /\ starting = "announce"
    /\ announced' = TRUE
    /\ starting' = "idle"
    /\ UNCHANGED <<mapping, register, local, running, copy, mustRead, default,
                   queue, history, platformPart>>

(* makeReadingsFromMap(): the value is sent as text. *)
MakeReadingsFromMap ==
    IF mapping.defaultValue THEN Message("DFV", "STRING", default) ELSE <<>>

Announce ==
    /\ starting = "announce"
    /\ Add(MakeReadingsFromMap)
    /\ announced' = TRUE
    /\ starting' = "idle"
    /\ UNCHANGED <<mapping, register, local, running, copy, mustRead, default,
                   history, platformPart>>

Stop ==
    /\ starting = "idle"
    /\ running' = FALSE
    /\ UNCHANGED <<mapping, register, local, starting, copy, mustRead, default,
                   queue, history, announced, platformPart>>

-----------------------------------------------------------------------------
(* The reader and the device                                               *)

(* A read, of the cycle or forced by an update: a value other than the     *)
(* local copy goes to the callback of initializeSetUpDeviceCallback().     *)
ReadMapping ==
    /\ mustRead \/ (running /\ ~FromJSONMapping(mapping).readRestricted)
    /\ mustRead' = FALSE
    /\ local' = register
    /\ IF register # local
       THEN /\ \E messages \in SendOutMappingValue(mapping, register) : Add(messages)
            /\ undone' = FALSE /\ overtaken' = FALSE
       ELSE UNCHANGED <<queue, history>>
    /\ UNCHANGED <<mapping, register, running, starting, copy, default, announced,
                   platformPart>>

(* The device changes its register; that undoes a write not yet read. *)
DeviceChanges ==
    /\ \E v \in Values \ {register} : register' = v
    /\ undone' = (undone \/ register # local)
    /\ UNCHANGED <<mapping, queue, overtaken, modulePart, platformPart>>

-----------------------------------------------------------------------------
(* The platform and handleUpdate()                                         *)

PlatformSets ==
    /\ sets < MaxSets /\ sets' = sets + 1
    /\ \E v \in Values :
        \/ /\ mapping.mappingType # "Attribute"
           /\ GetFeedTypeFromMapping(mapping) = "IN_OUT"
           /\ shown' = v /\ UNCHANGED shownDefault
           /\ inbox' = Append(inbox, [to |-> "feed", value |-> v])
        \/ /\ mapping.defaultValue
           /\ shownDefault' = v /\ UNCHANGED shown
           /\ inbox' = Append(inbox, [to |-> "DFV", value |-> v])
    /\ UNCHANGED <<mapping, register, queue, history, modulePart>>

HandleFeedReading ==
    /\ inbox # <<>> /\ Head(inbox).to = "feed" /\ ~mustRead
    /\ \E written \in BOOLEAN :
        /\ Write(Head(inbox).value, written)
        /\ undone' = (undone \/ ~written)
    /\ mustRead' = mapping.autoReadAfterWrite
    /\ inbox' = Tail(inbox)
    /\ UNCHANGED <<mapping, running, starting, copy, default, queue, shown,
                   shownDefault, overtaken, announced, sets>>

HandleDefaultValueReading ==
    /\ inbox # <<>> /\ Head(inbox).to = "DFV" /\ ~mustRead
    /\ default' = Head(inbox).value
    /\ announced' = FALSE
    /\ inbox' = Tail(inbox)
    /\ UNCHANGED <<mapping, register, local, running, starting, copy, mustRead,
                   queue, shown, shownDefault, history, sets>>

(* The loop of main(): the platform keeps what it has a feed for. *)
Publish ==
    /\ queue # <<>>
    /\ queue' = Tail(queue)
    /\ LET message == Head(queue)
           known == message.to \in MakeRegistrationData(mapping)
       IN  /\ shown' = IF known /\ message.to # "DFV" THEN message.value ELSE shown
           /\ shownDefault' = IF known /\ message.to = "DFV" THEN message.value
                              ELSE shownDefault
    /\ UNCHANGED <<mapping, register, inbox, history, sets, modulePart>>

(* The process is replaced: its queue and what was on the way are lost. *)
Relaunch ==
    /\ local' = Unread /\ running' = FALSE /\ starting' = "idle"
    /\ copy' = Unread /\ mustRead' = FALSE
    /\ queue' = <<>> /\ inbox' = <<>>
    /\ undone' = FALSE /\ overtaken' = FALSE /\ announced' = FALSE
    /\ UNCHANGED <<mapping, register, default, shown, shownDefault, sets>>

Next ==
    \/ Start \/ WriteDefault \/ TriggerGroupValueChange \/ SendOutCopy
    \/ Announce \/ Stop
    \/ ReadMapping \/ DeviceChanges
    \/ PlatformSets \/ HandleFeedReading \/ HandleDefaultValueReading
    \/ Publish
    \/ Relaunch

Spec == Init /\ [][Next]_vars

-----------------------------------------------------------------------------
MessageType ==
    [to : {"feed", "attribute", "DFV"}, type : {"BOOLEAN", "NUMERIC", "STRING"},
     value : Values]

TypeOK ==
    /\ mapping \in MappingsTried
    /\ register \in Values /\ local \in Values \cup {Unread}
    /\ running \in BOOLEAN /\ starting \in Labels /\ mustRead \in BOOLEAN
    /\ copy \in Values \cup {Unread}
    /\ starting \in {"send", "sendAgain"} <=> copy # Unread
    /\ default \in Values
    /\ queue \in Seq(MessageType) /\ Len(queue) <= MaxQueue
    /\ inbox \in Seq([to : {"feed", "DFV"}, value : Values])
    /\ shown \in Values /\ shownDefault \in Values
    /\ undone \in BOOLEAN /\ overtaken \in BOOLEAN /\ announced \in BOOLEAN
    /\ sets \in 0..MaxSets

Waiting == {queue[i] : i \in DOMAIN queue}

(***************************************************************************)
(* The type of every value sent is the one registered for it, although     *)
(* WolkaboutTemplateFactory goes by register and operation type, and the   *)
(* bridge by data type.  Holds of the combinations README.md documents.    *)
(***************************************************************************)
TypesAgree ==
    Documented(mapping) =>
        \A message \in Waiting :
            message.to # "DFV" => message.type = GetDataTypeFromMapping(mapping)

(***************************************************************************)
(* The platform's picture converges: once everything sent has arrived in   *)
(* both directions and the register was read, the platform shows what the  *)
(* register holds, whatever the order in which readings, actuations, the   *)
(* writes of start() and the device's own changes crossed.  Except where a *)
(* value the platform set was refused or undone by the device before it    *)
(* was read (a read that finds no change reports nothing), where start()   *)
(* sent a copy it had read before the reader sent a newer value (then the  *)
(* picture is wrong until the register changes again), and for mappings    *)
(* that README.md does not document, that are never read (WriteOnly), that *)
(* update the local copy unread (autoLocalUpdate), or whose attributes are *)
(* not formed.                                                             *)
(***************************************************************************)
Followed ==
    /\ Documented(mapping)
    /\ mapping.mappingType # "WriteOnly" /\ ~mapping.autoLocalUpdate
    /\ mapping.mappingType = "Attribute" => mapping.dataType \notin {"BOOL", "FLOAT"}

Quiet == queue = <<>> /\ inbox = <<>> /\ local = register /\ starting = "idle"

PlatformConverges ==
    Quiet /\ Followed /\ ~undone /\ ~overtaken => shown = register

(***************************************************************************)
(* Once start() has announced the default value and nothing is under way,  *)
(* the platform shows the one in force, unless one was received later: the *)
(* announcement may then be older and yet the last to arrive.              *)
(***************************************************************************)
DefaultAnnounced ==
    announced /\ mapping.defaultValue /\ queue = <<>> /\ inbox = <<>>
        => shownDefault = default

(***************************************************************************)
(* ModbusBridge.h, sendOutMappingValue for a bool: it invokes "either the  *)
(* feed value callback or the attribute callback"; every reading sent      *)
(* should be of a feed the template factory registered.                    *)
(***************************************************************************)
ReadingsHaveFeeds ==
    \A message \in Waiting : message.to \in MakeRegistrationData(mapping)
=============================================================================
