---------------------------- MODULE ModbusBridge ----------------------------
(***************************************************************************)
(* ModbusBridge: the settings of the mappings (default value, repeat       *)
(* period, safe mode value), the files that keep what the platform changed *)
(* of them, and the writes into the devices' registers that start(),       *)
(* platformStatus() and handleUpdate() make.                               *)
(*                                                                         *)
(* A key stands for "<device key>.<reference>".  A map keyed by them is a  *)
(* function on Keys, Absent where the map has no entry.  Keys the platform *)
(* may still know from an older configuration are Stale: the device exists *)
(* but no mapping does.  A text received, configured or stored is a number *)
(* or NotANumber; the mappings are of type UINT16, the one whose           *)
(* conversion keeps the low 16 bits of what std::stoul returns.            *)
(*                                                                         *)
(* The SDK calls in from Threads; the maps have no lock.  The loop of      *)
(* writeAMapOfValues takes one step per entry, each of them a write on the *)
(* wire; a reading to be stored takes one to assign the map and then those  *)
(* of JsonFilePersistence::storeValue(); the other calls are one step.     *)
(*                                                                         *)
(* disk[s] is what initialize() would find in the file of setting s: a     *)
(* file that is missing, empty or cut short holds no values (the module    *)
(* FilePersistence tells these apart).                                     *)
(***************************************************************************)
EXTENDS Integers

CONSTANTS
    Threads,        \* SDK threads
    Mappings,       \* keys of the configured mappings
    Stale,          \* keys of feeds whose mapping was removed
    Numbers,        \* numbers a text can stand for
    NotANumber,     \* a text that does not parse
    Absent,         \* no entry, no configured value
    Configured,     \* the devices configuration: Configured[s][k]
    Inputs,         \* texts the platform sends
    Received,       \* kinds of readings the platform sends
    WriteOutcomes,  \* does a write on the wire succeed?  {TRUE}: always
    StoreOutcomes,  \* does a read, open or write of a file succeed?
    MaxUpdates      \* bound: readings handled in a behaviour

Keys == Mappings \cup Stale
Texts == Numbers \cup {NotANumber}

(* The three settings, named by the prefix of the feeds that carry them. *)
Settings == {"DFV", "RPW", "SMV"}

ASSUME KeysAssumption == Mappings \cap Stale = {}
ASSUME NumbersAssumption ==
    /\ Numbers \subseteq Nat /\ 0 \in Numbers
    /\ NotANumber \notin Nat /\ Absent \notin Nat /\ Absent # NotANumber
ASSUME ConfiguredAssumption ==
    /\ Configured \in [Settings -> [Mappings -> Texts \cup {Absent}]]
    /\ \A k \in Mappings : Configured["RPW"][k] \in (Numbers \ {0}) \cup {Absent}
ASSUME InputsAssumption ==
    /\ Inputs \subseteq Texts
    /\ Received \subseteq Settings \cup {"FEED"}
ASSUME OutcomesAssumption ==
    WriteOutcomes \subseteq BOOLEAN /\ StoreOutcomes \subseteq BOOLEAN
ASSUME MaxUpdatesAssumption == MaxUpdates \in Nat

VARIABLES
    process,   \* "up", "crashed" by a null mapping or a race, or "killed"
    running,   \* the ModbusReader runs
    status,    \* m_connectivityStatus
    memory,    \* m_defaultValue-, m_repeatedWrite-, m_safeModeMappingByReference
    disk,      \* what the three persistence files hold
    written,   \* external: last value written to a mapping's register
    job,       \* thread -> call of the bridge it is inside, step of storeValue()
    call,      \* thread -> setting, key and value of its storeValue()
    json,      \* thread -> local j of its storeValue()
    todo,      \* thread -> entries its writeAMapOfValues has not visited
    endangered, \* history: a reading met a hazard since the launch
    unsaved,   \* history: <<setting, key>> that a file may not have as last
               \* set, nor the text on its way into it
    overlapped, \* history: settings with two readings handled at once
    refused,   \* history: mappings whose last write on the wire failed
    updates    \* readings handled so far

(* What happened since the launch.  Only the properties look at it. *)
history == <<endangered, unsaved, overlapped, refused>>

(* What a storeValue() has of its own. *)
locals == <<call, json>>

bridgeVars == <<process, running, status, memory, disk, written, job, locals,
                todo, history, updates>>

(* The values of ConnectivityStatus this repository names. *)
Statuses == {"NONE", "CONNECTED", "OFFLINE"}
Jobs == {"none", "start", "safe", "done", "read", "open", "write"}

NoCall == <<>>
NoValues == [k \in Keys |-> Absent]

(* static_cast<std::uint16_t>(std::stoul(value)) *)
Word(text) == text % 65536
Words == 0..65535
RegisterValues == Words \cup {Absent}

(* Mutants: the files are not used; the files are used for every key.      *)
LoadWithoutFile(s, file) ==
    [k \in Keys |-> IF k \in Mappings THEN Configured[s][k] ELSE Absent]

LoadOfEveryKey(s, file) ==
    [k \in Keys |->
        IF file[k] # Absent THEN file[k]
        ELSE IF k \in Mappings THEN Configured[s][k]
        ELSE Absent]

(* initialize(): a stored value replaces a configured one; what is stored  *)
(* for a key that is not configured has no effect.                         *)
Load(s, file) ==
    [k \in Keys |->
        IF k \notin Mappings \/ Configured[s][k] = Absent THEN Absent
        ELSE IF file[k] = Absent THEN Configured[s][k]
        ELSE file[k]]

Effective(s) == Load(s, disk[s])

Entries(s) == {k \in Keys : memory[s][k] # Absent}

(* The map writeAMapOfValues goes through in a job. *)
MapOf(j) == IF j = "start" THEN "DFV" ELSE "SMV"
InLoop(t) == job[t] \in {"start", "safe"}
Storing(t) == job[t] \in {"read", "open", "write"}

(* A thread has the file of setting s open. *)
Writers(s) == {t \in Threads : job[t] = "write" /\ call[t][1] = s}

(* Another thread iterates over the map that is about to be assigned:      *)
(* start() goes through the three of them, platformStatus() through one.   *)
Iterated(s) ==
    \E u \in Threads : job[u] = "start" \/ (job[u] = "safe" /\ s = "SMV")

Init ==
    /\ process = "up" /\ running = FALSE /\ status = "NONE"
    /\ disk = [s \in Settings |-> [k \in Keys |-> Absent]]
    /\ memory = [s \in Settings |-> Effective(s)]
    /\ written = [k \in Mappings |-> Absent]
    /\ job = [t \in Threads |-> "none"]
    /\ call = [t \in Threads |-> NoCall]
    /\ json = [t \in Threads |-> NoValues]
    /\ todo = [t \in Threads |-> {}]
    /\ endangered = FALSE /\ unsaved = {} /\ overlapped = {} /\ refused = {}
    /\ updates = 0

-----------------------------------------------------------------------------
(* start() and stop()                                                      *)

(* Mutant: a register that was written before is not written again. *)
StartOnlyUnwritten(t) ==
    /\ process = "up" /\ job[t] = "none"
    /\ running' = TRUE
    /\ job' = [job EXCEPT ![t] = "start"]
    /\ todo' = [todo EXCEPT ![t] =
                    {k \in Entries("DFV") : k \in Stale \/ written[k] = Absent}]
    /\ UNCHANGED <<process, status, memory, disk, written, locals, history,
                   updates>>

(* The reader starts, then writeAMapOfValues(m_defaultValueMapping...). *)
Start(t) ==
    /\ process = "up" /\ job[t] = "none"
    /\ running' = TRUE
    /\ job' = [job EXCEPT ![t] = "start"]
    /\ todo' = [todo EXCEPT ![t] = Entries("DFV")]
    /\ UNCHANGED <<process, status, memory, disk, written, locals, history,
                   updates>>

StartReturn(t) ==
    /\ process = "up" /\ job[t] = "start" /\ todo[t] = {}
    /\ job' = [job EXCEPT ![t] = "none"]
    /\ UNCHANGED <<process, running, status, memory, disk, written, locals, todo,
                   history, updates>>

Stop(t) ==
    /\ process = "up" /\ job[t] = "none"
    /\ running' = FALSE
    /\ UNCHANGED <<process, status, memory, disk, written, job, locals, todo,
                   history, updates>>

(* Mutant: the number is not cut to the width of a register. *)
WriteToMappingUncut(k, text) ==
    IF text = NotANumber THEN UNCHANGED <<written, refused>>
    ELSE \E success \in WriteOutcomes :
            /\ written' = IF success THEN [written EXCEPT ![k] = text] ELSE written
            /\ refused' = IF success THEN refused \ {k} ELSE refused \cup {k}

(* writeToMapping(): a text that does not parse and a write that fails are *)
(* logged, the register keeps its value.                                   *)
WriteToMapping(k, text) ==
    IF text = NotANumber THEN UNCHANGED <<written, refused>>
    ELSE \E success \in WriteOutcomes :
            /\ written' = IF success THEN [written EXCEPT ![k] = Word(text)] ELSE written
            /\ refused' = IF success THEN refused \ {k} ELSE refused \cup {k}

(* writeAMapOfValues(), one entry: the value is the one the map has now.   *)
(* The lookup by operator[] yields a null mapping for an unknown key.      *)
WriteEntry(t, k) ==
    /\ process = "up" /\ InLoop(t) /\ k \in todo[t]
    /\ todo' = [todo EXCEPT ![t] = @ \ {k}]
    /\ \/ k \in Mappings
          /\ WriteToMapping(k, memory[MapOf(job[t])][k])
          /\ UNCHANGED process
       \/ k \notin Mappings
          /\ process' = "crashed"
          /\ UNCHANGED <<written, refused>>
    /\ UNCHANGED <<running, status, memory, disk, job, locals, endangered,
                   unsaved, overlapped, updates>>

-----------------------------------------------------------------------------
(* platformStatus()                                                        *)

(* Mutant: the status is assigned before it is compared. *)
PlatformStatusAssignedFirst(t, s) ==
    /\ process = "up" /\ job[t] = "none"
    /\ status' = s
    /\ job' = [job EXCEPT ![t] = "done"]
    /\ UNCHANGED <<process, running, memory, disk, written, locals, todo, history,
                   updates>>

PlatformStatus(t, s) ==
    /\ process = "up" /\ job[t] = "none"
    /\ status' = s
    /\ IF s = "OFFLINE" /\ status # s
       THEN /\ job' = [job EXCEPT ![t] = "safe"]
            /\ todo' = [todo EXCEPT ![t] = Entries("SMV")]
       ELSE /\ job' = [job EXCEPT ![t] = "done"]
            /\ UNCHANGED todo
    /\ UNCHANGED <<process, running, memory, disk, written, locals, history,
                   updates>>

StatusReturn(t) ==
    /\ process = "up" /\ job[t] \in {"safe", "done"} /\ todo[t] = {}
    /\ job' = [job EXCEPT ![t] = "none"]
    /\ UNCHANGED <<process, running, status, memory, disk, written, locals, todo,
                   history, updates>>

-----------------------------------------------------------------------------
(* handleUpdate(), one reading                                             *)

Handle(t, kind) ==
    /\ process = "up" /\ job[t] = "none"
    /\ kind \in Received
    /\ updates < MaxUpdates /\ updates' = updates + 1
    /\ UNCHANGED <<running, status, disk, json>>

(* A map entry that is new may or may not be reached by a loop under way. *)
Insert(s, k, text) ==
    /\ memory' = [memory EXCEPT ![s][k] = text]
    /\ \E reached \in SUBSET {u \in Threads :
                                InLoop(u) /\ MapOf(job[u]) = s /\ k \notin Entries(s)} :
            todo' = [u \in Threads |->
                        IF u \in reached THEN todo[u] \cup {k} ELSE todo[u]]

(* The call of storeValue(), which the thread makes with no lock on map or  *)
(* file: another may be in the same file.                                  *)
StoreValue(t, s, k, text) ==
    /\ job' = [job EXCEPT ![t] = "read"]
    /\ call' = [call EXCEPT ![t] = <<s, k, text>>]
    /\ unsaved' = unsaved \cup {<<s, k>>}
    /\ overlapped' = IF \E u \in Threads : Storing(u) /\ call[u][1] = s
                     THEN overlapped \cup {s} ELSE overlapped

(* The unlocked assignment of a map another thread iterates over: it works, *)
(* or the iteration meets a string that is gone.                            *)
RaceOutcome(s) ==
    process' \in IF Iterated(s) THEN {"up", "crashed"} ELSE {"up"}

(* A setting for a feed without a mapping, or of a map in use.  *)
Endanger(s, k) ==
    endangered' = (endangered \/ k \notin Mappings \/ Iterated(s))

(* handleDefaultValueReading() and handleSafeModeValueReading(): neither   *)
(* the key nor the value is looked at.                                     *)
HandleValueReading(t, s, k, text) ==
    /\ Handle(t, s)
    /\ s \in {"DFV", "SMV"}
    /\ Insert(s, k, text)
    /\ StoreValue(t, s, k, text)
    /\ RaceOutcome(s)
    /\ Endanger(s, k)
    /\ UNCHANGED <<written, refused>>

(* handleRepeatWriteReading(): a number is stored, but `milliseconds{}' is *)
(* what the map and the mapping get; without a mapping it ends there.      *)
HandleRepeatWriteReading(t, k, text) ==
    /\ Handle(t, "RPW")
    /\ \/ /\ text = NotANumber
          /\ UNCHANGED <<process, memory, job, call, todo, endangered, unsaved,
                         overlapped>>
       \/ /\ text # NotANumber /\ k \in Mappings
          /\ Insert("RPW", k, 0)
          /\ StoreValue(t, "RPW", k, text)
          /\ RaceOutcome("RPW")
          /\ Endanger("RPW", k)
       \/ /\ text # NotANumber /\ k \notin Mappings
          /\ Insert("RPW", k, 0)
          /\ process' = "crashed"
          /\ Endanger("RPW", k)
          /\ UNCHANGED <<job, call, unsaved, overlapped>>
    /\ UNCHANGED <<written, refused>>

(* A normal feed: an unknown one is logged and ignored. *)
HandleFeedReading(t, k, text) ==
    /\ Handle(t, "FEED")
    /\ IF k \in Mappings THEN WriteToMapping(k, text)
       ELSE UNCHANGED <<written, refused>>
    /\ UNCHANGED <<process, memory, job, call, todo, endangered, unsaved,
                   overlapped>>

-----------------------------------------------------------------------------
(* storeValue(), called with a reading: the whole file is read, one key is *)
(* changed and the whole file written; FileSystemUtils is external.        *)

InStore(t, step) == process = "up" /\ job[t] = step

(* Back from handleUpdate(); the result of storeValue() is not looked at. *)
StoreReturn(t) ==
    /\ job' = [job EXCEPT ![t] = "none"]
    /\ call' = [call EXCEPT ![t] = NoCall]
    /\ json' = [json EXCEPT ![t] = NoValues]

StoreFrame ==
    UNCHANGED <<process, running, status, memory, written, todo, endangered,
                overlapped, refused, updates>>

(* Mutant: the old content is not read. *)
ReadFileSkipped(t) ==
    /\ InStore(t, "read")
    /\ job' = [job EXCEPT ![t] = "open"]
    /\ json' = [json EXCEPT ![t] = [NoValues EXCEPT ![call[t][2]] = call[t][3]]]
    /\ UNCHANGED <<disk, call, unsaved>> /\ StoreFrame

(* When the file cannot be read j is empty but for the key. *)
ReadFile(t) ==
    /\ InStore(t, "read")
    /\ job' = [job EXCEPT ![t] = "open"]
    /\ \E readable \in StoreOutcomes :
        /\ json' = [json EXCEPT ![t] =
                [(IF readable THEN disk[call[t][1]] ELSE NoValues)
                    EXCEPT ![call[t][2]] = call[t][3]]]
        /\ unsaved' = IF readable THEN unsaved
                      ELSE unsaved \cup ({call[t][1]} \X Keys)
    /\ UNCHANGED <<disk, call>> /\ StoreFrame

(* createFileWithContent() opens the file, which empties it, or fails. *)
OpenFile(t) ==
    /\ InStore(t, "open")
    /\ \/ /\ TRUE \in StoreOutcomes
          /\ job' = [job EXCEPT ![t] = "write"]
          /\ disk' = [disk EXCEPT ![call[t][1]] = NoValues]
          /\ unsaved' = unsaved \ {<<call[t][1], call[t][2]>>}
          /\ UNCHANGED locals
       \/ /\ FALSE \in StoreOutcomes
          /\ StoreReturn(t)
          /\ UNCHANGED <<disk, unsaved>>
    /\ StoreFrame

(* What another thread wrote meanwhile is no JSON once part of this text is *)
(* over it.                                                                *)
WriteInPart(t) ==
    /\ InStore(t, "write")
    /\ disk[call[t][1]] # NoValues
    /\ disk' = [disk EXCEPT ![call[t][1]] = NoValues]
    /\ UNCHANGED <<job, locals, unsaved>> /\ StoreFrame

(* The text arrives, or not all of it; the tail of a longer one that       *)
(* another thread wrote meanwhile stays behind it.                         *)
WriteFile(t) ==
    /\ InStore(t, "write")
    /\ \/ /\ TRUE \in StoreOutcomes
          /\ disk' = [disk EXCEPT ![call[t][1]] = json[t]]
          /\ UNCHANGED unsaved
       \/ /\ FALSE \in StoreOutcomes \/ disk[call[t][1]] # NoValues
          /\ disk' = [disk EXCEPT ![call[t][1]] = NoValues]
          /\ unsaved' = unsaved \cup ({call[t][1]} \X Keys)
    /\ StoreReturn(t)
    /\ StoreFrame

Store(t) == ReadFile(t) \/ OpenFile(t) \/ WriteInPart(t) \/ WriteFile(t)

-----------------------------------------------------------------------------
(* The process is killed; the service manager launches it again: main()    *)
(* builds a new bridge and initialize() loads the files.  A file that was  *)
(* open for writing is left empty or cut short.                            *)

Kill ==
    /\ process = "up"
    /\ process' = "killed"
    /\ UNCHANGED <<running, status, memory, disk, written, job, locals, todo,
                   history, updates>>

Initialize ==
    /\ process # "up"
    /\ process' = "up" /\ running' = FALSE /\ status' = "NONE"
    /\ memory' = [s \in Settings |-> Effective(s)]
    /\ job' = [t \in Threads |-> "none"]
    /\ call' = [t \in Threads |-> NoCall]
    /\ json' = [t \in Threads |-> NoValues]
    /\ todo' = [t \in Threads |-> {}]
    /\ endangered' = FALSE /\ unsaved' = {} /\ overlapped' = {} /\ refused' = {}
    /\ UNCHANGED <<disk, written, updates>>

HandleUpdate(t) ==
    \E k \in Keys, text \in Inputs :
        \/ \E s \in Settings : HandleValueReading(t, s, k, text)
        \/ HandleRepeatWriteReading(t, k, text)
        \/ HandleFeedReading(t, k, text)

Next ==
    \/ \E t \in Threads :
        \/ Start(t) \/ StartReturn(t) \/ Stop(t)
        \/ \E k \in Keys : WriteEntry(t, k)
        \/ \E s \in Statuses \ {"NONE"} : PlatformStatus(t, s)
        \/ StatusReturn(t)
        \/ HandleUpdate(t)
        \/ Store(t)
    \/ Kill
    \/ Initialize

Spec == Init /\ [][Next]_bridgeVars

-----------------------------------------------------------------------------
TypeOK ==
    /\ process \in {"up", "crashed", "killed"}
    /\ running \in BOOLEAN /\ status \in Statuses
    /\ memory \in [Settings -> [Keys -> Texts \cup {Absent}]]
    /\ disk \in [Settings -> [Keys -> Texts \cup {Absent}]]
    /\ \A k \in Keys : disk["RPW"][k] # NotANumber
    /\ written \in [Mappings -> RegisterValues]
    /\ job \in [Threads -> Jobs]
    /\ call \in [Threads -> (Settings \X Keys \X Texts) \cup {NoCall}]
    /\ \A t \in Threads : Storing(t) => call[t] # NoCall
    /\ json \in [Threads -> [Keys -> Texts \cup {Absent}]]
    /\ todo \in [Threads -> SUBSET Keys]
    /\ endangered \in BOOLEAN /\ unsaved \subseteq Settings \X Keys
    /\ overlapped \subseteq Settings /\ refused \subseteq Mappings /\ updates \in 0..MaxUpdates

(***************************************************************************)
(* Default and safe mode values survive a restart: what initialize() would *)
(* load for a configured mapping is what the maps hold                     *)
(* (handleDefaultValueReading, handleSafeModeValueReading and storeValue() *)
(* against initialize()), dead or alive, but for                           *)
(*   - the settings whose file is open for writing: a death there costs    *)
(*     every value of the setting;                                         *)
(*   - those two readings were handled for at once;                        *)
(*   - a value its file could not be opened for, or not yet, and every     *)
(*     other value of a file that could not be read or was written in part. *)
(***************************************************************************)
RestartKeepsValues ==
    \A s \in {"DFV", "SMV"} \ overlapped :
        Writers(s) = {} =>
            \A k \in Mappings :
                Configured[s][k] # Absent /\ <<s, k>> \notin unsaved =>
                    memory[s][k] = Effective(s)[k]

(***************************************************************************)
(* A key without a mapping takes the process down (the null mapping of     *)
(* writeAMapOfValues and of handleRepeatWriteReading), and it is written to *)
(* a file; still the service does not crash over and over: a process       *)
(* crashes only when, since its own launch, a setting came for such a key  *)
(* or for a map that another thread was going through.                     *)
(***************************************************************************)
NoCrashLoop == process = "crashed" => endangered

(***************************************************************************)
(* writeAMapOfValues: when start() returns, each default value that parses *)
(* is in its register, and when a platformStatus() that found the status   *)
(* changed to OFFLINE returns, each safe mode value is; until then those   *)
(* already visited are.  A write the wire refuses keeps its own register   *)
(* from it and no other.  Needs callbacks that do not overlap.             *)
(***************************************************************************)
VisitedHoldsValue ==
    process = "up" =>
        \A t \in Threads : InLoop(t) =>
            \A k \in Mappings \ (todo[t] \cup refused) :
                LET text == memory[MapOf(job[t])][k]
                IN  text \notin {Absent, NotANumber} => written[k] = Word(text)

(***************************************************************************)
(* ModbusBridge.h, handleRepeatWriteReading: the reading "contains a new   *)
(* value for a RepeatWrite of a feed", so the period in force is the one   *)
(* the platform sent, which is the one stored once no store is under way.  *)
(***************************************************************************)
RepeatFollowsReading ==
    process = "up" /\ (\A t \in Threads : ~Storing(t)) =>
        \A k \in Mappings :
            Configured["RPW"][k] # Absent => memory["RPW"][k] = Effective("RPW")[k]
=============================================================================
