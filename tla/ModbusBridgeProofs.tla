------------------------- MODULE ModbusBridgeProofs -------------------------
(***************************************************************************)
(* Proofs about ModbusBridge, for any sets of threads, mappings, removed   *)
(* feeds and texts and any configuration.                                  *)
(***************************************************************************)
EXTENDS SettingsRefinement, TLAPS

-----------------------------------------------------------------------------
(* Facts about the operators                                               *)

(* A number cut to 16 bits is a register word. *)
LEMMA WordInRange == \A n \in Nat : Word(n) \in Words
BY DEF Word, Words

SettingMaps == [Settings -> [Keys -> Texts \cup {Absent}]]

ValueMaps == [Keys -> Texts \cup {Absent}]

(* What initialize() takes from a typed file is typed. *)
LEMMA LoadType ==
    ASSUME NEW s \in Settings, NEW file \in ValueMaps
    PROVE  Load(s, file) \in ValueMaps
<1> SUFFICES ASSUME NEW k \in Keys PROVE Load(s, file)[k] \in Texts \cup {Absent}
  BY DEF ValueMaps, Load
<1>1. file[k] \in Texts \cup {Absent}
  BY DEF ValueMaps
<1>2. k \in Mappings => Configured[s][k] \in Texts \cup {Absent}
  BY ConfiguredAssumption
<1> QED BY <1>1, <1>2 DEF Load

(* What initialize() loads is typed when the files are. *)
LEMMA EffectiveType ==
    ASSUME disk \in SettingMaps
    PROVE  [s \in Settings |-> Effective(s)] \in SettingMaps
BY LoadType DEF SettingMaps, ValueMaps, Effective

(* A write leaves a typed register map. *)
LEMMA WriteType ==
    ASSUME written \in [Mappings -> RegisterValues],
           refused \subseteq Mappings,
           NEW k \in Mappings, NEW text \in Texts,
           WriteToMapping(k, text)
    PROVE  /\ written' \in [Mappings -> RegisterValues]
           /\ refused' \subseteq Mappings
<1>1. CASE text = NotANumber
  BY <1>1 DEF WriteToMapping
<1>2. CASE text # NotANumber
  <2>1. Word(text) \in Words
    BY <1>2, NumbersAssumption, WordInRange DEF Texts
  <2> QED BY <2>1 DEF WriteToMapping, RegisterValues
<1> QED BY <1>1, <1>2

(* Assigning an entry leaves typed maps. *)
LEMMA InsertType ==
    ASSUME TypeOK, NEW s \in Settings, NEW k \in Keys, NEW text \in Texts,
           Insert(s, k, text)
    PROVE  /\ memory' \in SettingMaps
           /\ todo' \in [Threads -> SUBSET Keys]
<1>1. memory' \in SettingMaps
  BY DEF TypeOK, SettingMaps, Insert
<1>2. todo' \in [Threads -> SUBSET Keys]
  BY DEF TypeOK, Insert
<1> QED BY <1>1, <1>2

(* A map without values, and one with a value changed, are typed. *)
LEMMA ChangedType ==
    /\ NoValues \in ValueMaps
    /\ \A file \in ValueMaps, k \in Keys, text \in Texts :
            [file EXCEPT ![k] = text] \in ValueMaps
BY DEF NoValues, ValueMaps

(* The calls a thread can be in, and what they are about. *)
Calls == (Settings \X Keys \X Texts) \cup {NoCall}

LEMMA CallType ==
    ASSUME TypeOK, NEW t \in Threads, Storing(t)
    PROVE  /\ call[t][1] \in Settings /\ call[t][2] \in Keys /\ call[t][3] \in Texts
           /\ call[t] = <<call[t][1], call[t][2], call[t][3]>>
BY DEF TypeOK

(* Calling storeValue() leaves the locals typed. *)
LEMMA StoreValueType ==
    ASSUME TypeOK, NEW t \in Threads, NEW s \in Settings, NEW k \in Keys,
           NEW text \in Texts, StoreValue(t, s, k, text)
    PROVE  /\ job' \in [Threads -> Jobs]
           /\ call' \in [Threads -> Calls]
           /\ \A u \in Threads : Storing(u)' => call'[u] # NoCall
           /\ unsaved' \subseteq Settings \X Keys
           /\ overlapped' \subseteq Settings
<1>1. job' = [job EXCEPT ![t] = "read"] /\ call' = [call EXCEPT ![t] = <<s, k, text>>]
  BY DEF StoreValue
<1>2. <<s, k, text>> \in Settings \X Keys \X Texts /\ <<s, k, text>> # NoCall
  BY DEF NoCall
<1>3. job' \in [Threads -> Jobs]
  BY <1>1 DEF TypeOK, Jobs
<1>4. call' \in [Threads -> Calls]
  BY <1>1, <1>2 DEF TypeOK, Calls
<1>5. ASSUME NEW u \in Threads, Storing(u)' PROVE call'[u] # NoCall
  <2>1. CASE u = t
    BY <1>1, <1>2, <2>1 DEF TypeOK
  <2>2. CASE u # t
    BY <1>1, <1>5, <2>2 DEF TypeOK, Storing
  <2> QED BY <2>1, <2>2
<1>6. unsaved' \subseteq Settings \X Keys /\ overlapped' \subseteq Settings
  BY DEF StoreValue, TypeOK
<1> QED BY <1>3, <1>4, <1>5, <1>6

-----------------------------------------------------------------------------
(* Type correctness.  An entry still to be written is one of the map that  *)
(* is being written: that is what makes the value written a text.  And a    *)
(* period is stored as a number by one thread from its call to its write.  *)

TodoPresent ==
    \A t \in Threads : InLoop(t) =>
        \A k \in todo[t] : memory[MapOf(job[t])][k] # Absent

RepeatNumbers ==
    \A t \in Threads : Storing(t) /\ call[t][1] = "RPW" =>
        /\ call[t][3] # NotANumber
        /\ job[t] # "read" => \A k \in Keys : json[t][k] # NotANumber

IInv == TypeOK /\ TodoPresent /\ RepeatNumbers

(* Init establishes the invariant. *)
LEMMA InitIInv == Init => IInv
<1> SUFFICES ASSUME Init PROVE IInv
  OBVIOUS
<1>1. disk \in SettingMaps /\ \A k \in Keys : disk["RPW"][k] # NotANumber
  BY NumbersAssumption DEF Init, SettingMaps, Settings
<1>2. memory \in SettingMaps
  BY <1>1, EffectiveType DEF Init
<1>3. written \in [Mappings -> RegisterValues]
  BY DEF Init, RegisterValues
<1>4. /\ job \in [Threads -> Jobs] /\ todo \in [Threads -> SUBSET Keys]
      /\ call \in [Threads -> Calls] /\ json \in [Threads -> ValueMaps]
      /\ \A t \in Threads : ~Storing(t)
  BY ChangedType DEF Init, Jobs, Calls, Storing
<1>5. /\ process = "up" /\ running \in BOOLEAN /\ status \in Statuses
      /\ endangered \in BOOLEAN /\ unsaved = {} /\ overlapped = {} /\ refused = {}
      /\ updates \in 0..MaxUpdates
  <2>1. process = "up" /\ running = FALSE /\ status = "NONE"
    BY DEF Init
  <2>2. /\ endangered = FALSE /\ unsaved = {} /\ overlapped = {} /\ refused = {}
        /\ updates = 0
    BY DEF Init
  <2>3. 0 \in 0..MaxUpdates
    BY MaxUpdatesAssumption
  <2> QED BY <2>1, <2>2, <2>3, Zenon DEF Statuses
<1>6. TypeOK
  BY <1>1, <1>2, <1>3, <1>4, <1>5 DEF TypeOK, SettingMaps, ValueMaps, Calls
<1>7. TodoPresent
  BY DEF Init, TodoPresent, InLoop
<1>8. RepeatNumbers
  BY <1>4 DEF RepeatNumbers
<1> QED BY <1>6, <1>7, <1>8 DEF IInv

(* start(), stop(), platformStatus() and their returns. *)
LEMMA CallsIInv ==
    ASSUME IInv, NEW t \in Threads,
           \/ Start(t) \/ StartReturn(t) \/ Stop(t) \/ StatusReturn(t)
           \/ \E s \in Statuses \ {"NONE"} : PlatformStatus(t, s)
    PROVE  IInv'
<1> USE DEF IInv, TypeOK, TodoPresent, InLoop, MapOf, Jobs, history, locals, Storing
<1>1. CASE Start(t)
  <2>1. TypeOK'
    BY <1>1 DEF Start, Entries
  <2>2. TodoPresent'
    BY <1>1 DEF Start, Entries
  <2>3. RepeatNumbers'
    BY <1>1 DEF Start, RepeatNumbers
  <2> QED BY <2>1, <2>2, <2>3
<1>2. CASE StartReturn(t)
  BY <1>2 DEF StartReturn, RepeatNumbers
<1>3. CASE Stop(t)
  BY <1>3 DEF Stop, RepeatNumbers
<1>4. CASE StatusReturn(t)
  BY <1>4 DEF StatusReturn, RepeatNumbers
<1>5. ASSUME NEW s \in Statuses \ {"NONE"}, PlatformStatus(t, s) PROVE IInv'
  <2>1. TypeOK'
    <3>1. todo' \in [Threads -> SUBSET Keys] /\ job' \in [Threads -> Jobs]
      BY <1>5 DEF PlatformStatus, Entries
    <3>2. \A u \in Threads : Storing(u)' => Storing(u)
      BY <1>5 DEF PlatformStatus
    <3> QED BY <1>5, <3>1, <3>2 DEF PlatformStatus
  <2>2. TodoPresent'
    BY <1>5 DEF PlatformStatus, Entries
  <2>3. RepeatNumbers'
    BY <1>5 DEF PlatformStatus, RepeatNumbers
  <2> QED BY <2>1, <2>2, <2>3
<1> QED BY <1>1, <1>2, <1>3, <1>4, <1>5

(* One entry of writeAMapOfValues(). *)
LEMMA EntryIInv ==
    ASSUME IInv, NEW t \in Threads, NEW k \in Keys, WriteEntry(t, k)
    PROVE  IInv'
<1> DEFINE text == memory[MapOf(job[t])][k]
<1>1. text \in Texts
  BY DEF IInv, TypeOK, TodoPresent, WriteEntry, MapOf, Settings
<1>2. written' \in [Mappings -> RegisterValues] /\ refused' \subseteq Mappings
  BY <1>1, WriteType DEF IInv, TypeOK, WriteEntry
<1>3. TypeOK'
  BY <1>2 DEF IInv, TypeOK, WriteEntry, locals, Storing
<1>4. TodoPresent'
  BY DEF IInv, TypeOK, TodoPresent, WriteEntry, InLoop
<1>5. RepeatNumbers'
  BY DEF IInv, RepeatNumbers, WriteEntry, locals, Storing
<1> QED BY <1>3, <1>4, <1>5 DEF IInv

(* An assignment in a map leaves the entries the loops have to visit. *)
LEMMA InsertPresent ==
    ASSUME IInv, NEW s \in Settings, NEW k \in Keys, NEW text \in Texts,
           Insert(s, k, text), NEW t \in Threads, ~InLoop(t),
           job' = job \/ job' = [job EXCEPT ![t] = "read"]
    PROVE  TodoPresent'
<1>1. text # Absent
  BY NumbersAssumption DEF Texts
<1> SUFFICES ASSUME NEW u \in Threads, InLoop(u)', NEW j \in todo'[u]
             PROVE  memory'[MapOf(job'[u])][j] # Absent
  BY DEF TodoPresent
<1>2. job'[u] = job[u] /\ InLoop(u)
  BY DEF InLoop, IInv, TypeOK
<1>3. todo' \in [Threads -> SUBSET Keys]
  BY InsertType DEF IInv
<1>4. j \in Keys /\ MapOf(job[u]) \in Settings
  BY <1>3 DEF MapOf, Settings
<1>5. CASE j \in todo[u]
  <2>1. memory[MapOf(job[u])][j] # Absent
    BY <1>2, <1>5 DEF IInv, TodoPresent
  <2> QED BY <1>1, <1>2, <1>4, <2>1 DEF IInv, TypeOK, Insert
<1>6. CASE j \notin todo[u]
  <2>1. j = k /\ MapOf(job[u]) = s
    BY <1>6 DEF Insert
  <2> QED BY <1>1, <1>2, <1>4, <2>1 DEF IInv, TypeOK, Insert
<1> QED BY <1>5, <1>6

(* A reading that is to be stored: the assignment and the call. *)
LEMMA AssignIInv ==
    ASSUME IInv, NEW t \in Threads, NEW kind, Handle(t, kind),
           NEW s \in Settings, NEW k \in Keys, NEW value \in Texts,
           NEW text \in Texts, s = "RPW" => text # NotANumber,
           Insert(s, k, value), StoreValue(t, s, k, text),
           RaceOutcome(s), Endanger(s, k), UNCHANGED <<written, refused>>
    PROVE  IInv'
<1>1. /\ job[t] = "none" /\ UNCHANGED <<running, status, disk, json>>
      /\ updates' \in 0..MaxUpdates
  BY MaxUpdatesAssumption DEF Handle, IInv, TypeOK
<1>2. TodoPresent'
  BY <1>1, InsertPresent DEF StoreValue, InLoop
<1>3. process' \in {"up", "crashed"} /\ endangered' \in BOOLEAN
  BY DEF RaceOutcome, Endanger
<1>4. memory' \in SettingMaps /\ todo' \in [Threads -> SUBSET Keys]
  BY InsertType DEF IInv
<1>5. /\ job' \in [Threads -> Jobs]
      /\ call' \in [Threads -> Calls]
      /\ \A u \in Threads : Storing(u)' => call'[u] # NoCall
      /\ unsaved' \subseteq Settings \X Keys
      /\ overlapped' \subseteq Settings
  BY StoreValueType DEF IInv
<1>6. TypeOK'
  BY <1>1, <1>3, <1>4, <1>5 DEF IInv, TypeOK, SettingMaps, Calls
<1>7. RepeatNumbers'
  <2> SUFFICES ASSUME NEW u \in Threads, Storing(u)', call'[u][1] = "RPW"
               PROVE  /\ call'[u][3] # NotANumber
                      /\ job'[u] # "read" =>
                           \A j \in Keys : json'[u][j] # NotANumber
    BY DEF RepeatNumbers
  <2>1. CASE u = t
    <3>1. call'[u] = <<s, k, text>> /\ job'[u] = "read"
      BY <2>1 DEF StoreValue, IInv, TypeOK
    <3> QED BY <3>1
  <2>2. CASE u # t
    <3>1. call'[u] = call[u] /\ Storing(u) /\ json' = json /\ job'[u] = job[u]
      BY <1>1, <2>2 DEF StoreValue, IInv, TypeOK, Storing
    <3> QED BY <3>1 DEF IInv, RepeatNumbers
  <2> QED BY <2>1, <2>2
<1> QED BY <1>2, <1>6, <1>7 DEF IInv

(* handleUpdate(). *)
LEMMA UpdateIInv ==
    ASSUME IInv, NEW t \in Threads, HandleUpdate(t)
    PROVE  IInv'
<1> PICK k \in Keys, text \in Inputs :
        \/ \E s \in Settings : HandleValueReading(t, s, k, text)
        \/ HandleRepeatWriteReading(t, k, text)
        \/ HandleFeedReading(t, k, text)
  BY DEF HandleUpdate
<1> text \in Texts
  BY InputsAssumption
<1>1. ASSUME NEW kind, Handle(t, kind)
      PROVE  /\ updates' \in 0..MaxUpdates /\ UNCHANGED <<running, status, disk, json>>
             /\ job[t] = "none"
  BY <1>1, MaxUpdatesAssumption DEF Handle, IInv, TypeOK
<1>2. ASSUME NEW s \in Settings, HandleValueReading(t, s, k, text) PROVE IInv'
  BY <1>2, AssignIInv DEF HandleValueReading
<1>3. CASE HandleRepeatWriteReading(t, k, text)
  <2> "RPW" \in Settings /\ 0 \in Texts
    BY NumbersAssumption DEF Settings, Texts
  <2>1. CASE text = NotANumber
    BY <1>1, <1>3, <2>1
       DEF HandleRepeatWriteReading, IInv, TypeOK, TodoPresent, RepeatNumbers,
           InLoop, Storing
  <2>2. CASE text # NotANumber /\ k \in Mappings
    BY <1>3, <2>2, AssignIInv DEF HandleRepeatWriteReading
  <2>3. CASE text # NotANumber /\ k \notin Mappings
    <3>1. /\ Insert("RPW", k, 0) /\ process' = "crashed" /\ endangered' \in BOOLEAN
          /\ UNCHANGED <<job, call, unsaved, overlapped, written, refused>>
      BY <1>3, <2>3 DEF HandleRepeatWriteReading, Endanger
    <3>2. TodoPresent'
      BY <1>1, <1>3, <3>1, InsertPresent DEF HandleRepeatWriteReading, InLoop
    <3>3. memory' \in SettingMaps /\ todo' \in [Threads -> SUBSET Keys]
      BY <3>1, InsertType DEF IInv
    <3>4. TypeOK'
      BY <1>1, <1>3, <3>1, <3>3
         DEF HandleRepeatWriteReading, IInv, TypeOK, SettingMaps, Storing
    <3>5. RepeatNumbers'
      BY <1>1, <1>3, <3>1 DEF HandleRepeatWriteReading, IInv, RepeatNumbers, Storing
    <3> QED BY <3>2, <3>4, <3>5 DEF IInv
  <2> QED BY <2>1, <2>2, <2>3
<1>4. CASE HandleFeedReading(t, k, text)
  <2>1. written' \in [Mappings -> RegisterValues] /\ refused' \subseteq Mappings
    BY <1>4, WriteType DEF HandleFeedReading, IInv, TypeOK
  <2> QED
    BY <1>1, <1>4, <2>1
       DEF HandleFeedReading, IInv, TypeOK, TodoPresent, RepeatNumbers, InLoop, Storing
<1> QED BY <1>2, <1>3, <1>4

(* What the steps of storeValue() do to the invariant: they leave the maps  *)
(* alone, and read and write typed files.                                   *)
LEMMA StoreIInv ==
    ASSUME IInv, NEW t \in Threads, Store(t)
    PROVE  IInv'
<1> DEFINE s == call[t][1]
           k == call[t][2]
           text == call[t][3]
<1>1. job[t] \in {"read", "open", "write"} /\ Storing(t) /\ StoreFrame
  BY DEF Store, ReadFile, OpenFile, WriteInPart, WriteFile, InStore, Storing
<1>2. s \in Settings /\ k \in Keys /\ text \in Texts
  BY <1>1, CallType DEF IInv
<1>3. ASSUME job' \in [Threads -> Jobs],
             call' \in [Threads -> Calls],
             json' \in [Threads -> ValueMaps],
             disk' \in SettingMaps,
             unsaved' \subseteq Settings \X Keys,
             \A u \in Threads : (u # t \/ Storing(u)') => call'[u] = call[u],
             \A u \in Threads : u # t => job'[u] = job[u],
             Storing(t)' \/ job'[t] = "none",
             \A j \in Keys : disk'["RPW"][j] # NotANumber
      PROVE  TypeOK' /\ TodoPresent'
  <2>1. TypeOK'
    BY <1>1, <1>3 DEF StoreFrame, IInv, TypeOK, SettingMaps, ValueMaps, Calls, Storing
  <2>2. TodoPresent'
    BY <1>1, <1>3 DEF StoreFrame, IInv, TodoPresent, InLoop, Storing
  <2> QED BY <2>1, <2>2
<1>4. ASSUME \A u \in Threads : Storing(u)' => Storing(u) /\ call'[u] = call[u],
             \A u \in Threads : Storing(u)' =>
                 \/ json'[u] = json[u] /\ (job[u] = "read" => job'[u] = "read")
                 \/ u = t /\ (s = "RPW" => \A j \in Keys : json'[u][j] # NotANumber)
      PROVE  RepeatNumbers'
  BY <1>4 DEF IInv, RepeatNumbers
<1>5. disk \in SettingMaps /\ json \in [Threads -> ValueMaps]
  BY DEF IInv, TypeOK, SettingMaps, ValueMaps
<1>6. CASE ReadFile(t)
  <2> PICK readable \in StoreOutcomes :
          /\ json' = [json EXCEPT ![t] =
                [(IF readable THEN disk[s] ELSE NoValues) EXCEPT ![k] = text]]
          /\ unsaved' = IF readable THEN unsaved ELSE unsaved \cup ({s} \X Keys)
    BY <1>6 DEF ReadFile
  <2> DEFINE old == IF readable THEN disk[s] ELSE NoValues
  <2>1. /\ job' = [job EXCEPT ![t] = "open"] /\ UNCHANGED <<disk, call>>
        /\ json' = [json EXCEPT ![t] = [old EXCEPT ![k] = text]]
    BY <1>6 DEF ReadFile
  <2>2. old \in ValueMaps
    BY <1>2, <1>5, ChangedType DEF SettingMaps, ValueMaps
  <2>3. [old EXCEPT ![k] = text] \in ValueMaps
    BY <1>2, <2>2, ChangedType
  <2>4. json' \in [Threads -> ValueMaps] /\ json'[t] = [old EXCEPT ![k] = text]
    BY <1>5, <2>1, <2>3
  <2>5. unsaved' \subseteq Settings \X Keys
    BY <1>2 DEF IInv, TypeOK
  <2>6. TypeOK' /\ TodoPresent'
    BY <1>1, <1>3, <1>5, <2>1, <2>4, <2>5 DEF IInv, TypeOK, SettingMaps, Jobs, Storing, Calls
  <2>7. s = "RPW" => \A j \in Keys : json'[t][j] # NotANumber
    <3>1. s = "RPW" => text # NotANumber
      BY <1>1 DEF IInv, RepeatNumbers
    <3>2. s = "RPW" => \A j \in Keys : old[j] # NotANumber
      BY NumbersAssumption DEF IInv, TypeOK, NoValues
    <3> QED BY <2>2, <2>4, <3>1, <3>2 DEF ValueMaps
  <2>8. RepeatNumbers'
    BY <1>1, <1>4, <1>5, <2>1, <2>7 DEF IInv, TypeOK, Storing
  <2> QED BY <2>6, <2>8 DEF IInv
<1>7. CASE OpenFile(t)
  <2>1. CASE /\ job' = [job EXCEPT ![t] = "write"]
             /\ disk' = [disk EXCEPT ![s] = NoValues]
             /\ unsaved' = unsaved \ {<<s, k>>}
             /\ UNCHANGED locals
    <3>1. disk' \in SettingMaps
      BY <1>5, <2>1, ChangedType DEF SettingMaps, ValueMaps
    <3>2. \A j \in Keys : disk'["RPW"][j] # NotANumber
      BY <1>2, <1>5, <2>1, NumbersAssumption DEF IInv, TypeOK, NoValues, Settings
    <3>3. TypeOK' /\ TodoPresent'
      BY <1>1, <1>3, <1>5, <2>1, <3>1, <3>2 DEF IInv, TypeOK, Jobs, Storing, Calls, locals
    <3>4. RepeatNumbers'
      BY <1>1, <1>4, <1>7, <2>1 DEF IInv, TypeOK, Storing, locals, OpenFile, InStore
    <3> QED BY <3>3, <3>4 DEF IInv
  <2>2. CASE StoreReturn(t) /\ UNCHANGED <<disk, unsaved>>
    <3>1. json' \in [Threads -> ValueMaps] /\ call' \in [Threads -> Calls]
      BY <1>5, <2>2, ChangedType DEF StoreReturn, Calls, IInv, TypeOK
    <3>2. TypeOK' /\ TodoPresent'
      BY <1>1, <1>3, <1>5, <2>2, <3>1
         DEF StoreReturn, IInv, TypeOK, Jobs, Storing, SettingMaps
    <3>3. RepeatNumbers'
      BY <1>1, <1>4, <2>2 DEF StoreReturn, IInv, TypeOK, Storing
    <3> QED BY <3>2, <3>3 DEF IInv
  <2> QED BY <1>7, <2>1, <2>2 DEF OpenFile
<1>8. CASE WriteInPart(t)
  <2>1. disk' = [disk EXCEPT ![s] = NoValues] /\ UNCHANGED <<job, locals, unsaved>>
    BY <1>8 DEF WriteInPart
  <2>2. disk' \in SettingMaps
    BY <1>5, <2>1, ChangedType DEF SettingMaps, ValueMaps
  <2>3. \A j \in Keys : disk'["RPW"][j] # NotANumber
    BY <1>2, <1>5, <2>1, NumbersAssumption DEF IInv, TypeOK, NoValues, Settings
  <2>4. TypeOK' /\ TodoPresent'
    BY <1>1, <1>3, <1>5, <2>1, <2>2, <2>3 DEF IInv, TypeOK, Jobs, Storing, Calls, locals
  <2>5. RepeatNumbers'
    BY <1>1, <1>4, <2>1 DEF IInv, TypeOK, Storing, locals
  <2> QED BY <2>4, <2>5 DEF IInv
<1>9. CASE WriteFile(t)
  <2>1. PICK new \in {json[t], NoValues} :
            /\ disk' = [disk EXCEPT ![s] = new]
            /\ unsaved' \in {unsaved, unsaved \cup ({s} \X Keys)}
    BY <1>9 DEF WriteFile
  <2>2. StoreReturn(t)
    BY <1>9 DEF WriteFile
  <2>3. new \in ValueMaps /\ (s = "RPW" => \A j \in Keys : new[j] # NotANumber)
    BY <1>1, <1>5, <1>9, <2>1, ChangedType, NumbersAssumption
       DEF IInv, RepeatNumbers, NoValues, WriteFile, InStore
  <2>4. disk' \in SettingMaps
    BY <1>5, <2>1, <2>3 DEF SettingMaps, ValueMaps
  <2>5. \A j \in Keys : disk'["RPW"][j] # NotANumber
    BY <1>2, <1>5, <2>1, <2>3 DEF IInv, TypeOK, Settings, SettingMaps
  <2>6. json' \in [Threads -> ValueMaps] /\ call' \in [Threads -> Calls]
    BY <1>5, <2>2, ChangedType DEF StoreReturn, Calls, IInv, TypeOK
  <2>7. unsaved' \subseteq Settings \X Keys
    BY <1>2, <2>1 DEF IInv, TypeOK
  <2>8. TypeOK' /\ TodoPresent'
    BY <1>1, <1>3, <2>2, <2>4, <2>5, <2>6, <2>7
       DEF StoreReturn, IInv, TypeOK, Jobs, Storing
  <2>9. RepeatNumbers'
    BY <1>1, <1>4, <2>2 DEF StoreReturn, IInv, TypeOK, Storing
  <2> QED BY <2>8, <2>9 DEF IInv
<1> QED BY <1>6, <1>7, <1>8, <1>9 DEF Store

(* Every step preserves the invariant. *)
LEMMA NextIInv == IInv /\ [Next]_bridgeVars => IInv'
<1> SUFFICES ASSUME IInv, [Next]_bridgeVars PROVE IInv'
  OBVIOUS
<1>1. CASE Kill
  BY <1>1 DEF Kill, history, locals, IInv, TypeOK, TodoPresent, RepeatNumbers,
              InLoop, Storing
<1>2. CASE Initialize
  <2>1. memory' \in SettingMaps
    BY <1>2, EffectiveType DEF Initialize, IInv, TypeOK, SettingMaps
  <2>2. /\ job' \in [Threads -> Jobs] /\ todo' \in [Threads -> SUBSET Keys]
        /\ call' \in [Threads -> Calls] /\ json' \in [Threads -> ValueMaps]
        /\ \A t \in Threads : ~Storing(t)'
    BY <1>2, ChangedType DEF Initialize, Jobs, Calls, Storing
  <2>3. TypeOK'
    BY <1>2, <2>1, <2>2
       DEF Initialize, IInv, TypeOK, SettingMaps, ValueMaps, Calls, Statuses
  <2>4. TodoPresent'
    BY <1>2 DEF Initialize, TodoPresent, InLoop
  <2>5. RepeatNumbers'
    BY <2>2 DEF RepeatNumbers
  <2> QED BY <2>3, <2>4, <2>5 DEF IInv
<1>3. CASE UNCHANGED bridgeVars
  BY <1>3 DEF bridgeVars, history, locals, IInv, TypeOK, TodoPresent,
              RepeatNumbers, InLoop, Storing
<1> QED
  BY <1>1, <1>2, <1>3, CallsIInv, EntryIInv, UpdateIInv, StoreIInv DEF Next

(* The bridge's state always has its type, and its loops only visit        *)
(* entries that exist.                                                     *)
THEOREM BridgeInvariant == Spec => []IInv
BY InitIInv, NextIInv, PTL DEF Spec

(* The bridge's state always has its type. *)
THEOREM BridgeTypeCorrect == Spec => []TypeOK
<1>1. IInv => TypeOK
  BY DEF IInv
<1> QED BY <1>1, BridgeInvariant, PTL
-----------------------------------------------------------------------------
(* Why a crash takes a setting for a feed without a mapping, or for a map  *)
(* in use: until then the maps hold configured keys only, whatever the      *)
(* files hold, and so do the loops.                                         *)

OnlyMapped ==
    ~endangered =>
        /\ process # "crashed"
        /\ \A s \in Settings, k \in Stale : memory[s][k] = Absent
        /\ \A t \in Threads : todo[t] \subseteq Mappings

(* What initialize() loads has no key without a mapping. *)
LEMMA EffectiveMapped ==
    \A s \in Settings, k \in Stale : Effective(s)[k] = Absent
BY KeysAssumption DEF Effective, Load, Keys

(* Assigning the entry of a mapping adds no other key. *)
LEMMA InsertMapped ==
    ASSUME TypeOK, OnlyMapped, ~endangered,
           NEW s \in Settings, NEW k \in Mappings, NEW text, Insert(s, k, text)
    PROVE  /\ \A r \in Settings, j \in Stale : memory'[r][j] = Absent
           /\ \A t \in Threads : todo'[t] \subseteq Mappings
<1>1. \A r \in Settings, j \in Stale : memory'[r][j] = memory[r][j]
  BY KeysAssumption DEF Insert, TypeOK, Keys
<1>2. \A t \in Threads : todo'[t] \subseteq todo[t] \cup {k}
  BY DEF Insert, TypeOK
<1> QED BY <1>1, <1>2 DEF OnlyMapped

(* Every step preserves it. *)
LEMMA NextOnlyMapped ==
    IInv /\ OnlyMapped /\ [Next]_bridgeVars => OnlyMapped'
<1> SUFFICES ASSUME IInv, OnlyMapped, [Next]_bridgeVars, ~endangered'
             PROVE  OnlyMapped'
  BY DEF OnlyMapped
<1> USE DEF IInv, TypeOK, OnlyMapped, history
<1>1. ASSUME NEW t \in Threads,
             \/ Start(t)
             \/ \E s \in Statuses \ {"NONE"} : PlatformStatus(t, s)
      PROVE  OnlyMapped'
  <2>1. ~endangered
    BY <1>1 DEF Start, PlatformStatus
  <2>2. Entries("DFV") \subseteq Mappings /\ Entries("SMV") \subseteq Mappings
    BY <2>1 DEF Entries, Keys, Settings
  <2> QED BY <1>1, <2>1, <2>2 DEF Start, PlatformStatus
<1>2. ASSUME NEW t \in Threads, StartReturn(t) \/ Stop(t) \/ StatusReturn(t)
      PROVE  OnlyMapped'
  BY <1>2 DEF StartReturn, Stop, StatusReturn
<1>3. ASSUME NEW t \in Threads, NEW k \in Keys, WriteEntry(t, k)
      PROVE  OnlyMapped'
  BY <1>3 DEF WriteEntry
<1>4. ASSUME NEW t \in Threads, NEW k \in Keys, NEW text \in Inputs,
             NEW s \in Settings, Insert(s, k, text) \/ Insert(s, k, 0),
             RaceOutcome(s), Endanger(s, k)
      PROVE  OnlyMapped'
  <2>1. ~endangered /\ k \in Mappings /\ process' = "up"
    BY <1>4 DEF Endanger, RaceOutcome
  <2> QED BY <1>4, <2>1, InsertMapped
<1>5. ASSUME NEW t \in Threads, HandleUpdate(t) PROVE OnlyMapped'
  <2> PICK k \in Keys, text \in Inputs :
          \/ \E s \in Settings : HandleValueReading(t, s, k, text)
          \/ HandleRepeatWriteReading(t, k, text)
          \/ HandleFeedReading(t, k, text)
    BY <1>5 DEF HandleUpdate
  <2>1. CASE \E s \in Settings : HandleValueReading(t, s, k, text)
    BY <1>4, <2>1 DEF HandleValueReading
  <2>2. CASE HandleRepeatWriteReading(t, k, text)
    <3>1. CASE text = NotANumber
      BY <2>2, <3>1 DEF HandleRepeatWriteReading, Handle
    <3>2. CASE text # NotANumber
      <4>1. Insert("RPW", k, 0) /\ Endanger("RPW", k) /\ k \in Mappings
        BY <2>2, <3>2 DEF HandleRepeatWriteReading, Endanger
      <4> QED BY <1>4, <2>2, <3>2, <4>1 DEF HandleRepeatWriteReading, Settings
    <3> QED BY <3>1, <3>2
  <2>3. CASE HandleFeedReading(t, k, text)
    BY <2>3 DEF HandleFeedReading, Handle
  <2> QED BY <2>1, <2>2, <2>3
<1>6. ASSUME NEW t \in Threads, Store(t) PROVE OnlyMapped'
  BY <1>6 DEF Store, ReadFile, OpenFile, WriteInPart, WriteFile, StoreFrame
<1>7. CASE Kill
  BY <1>7 DEF Kill
<1>8. CASE Initialize
  BY <1>8, EffectiveMapped DEF Initialize
<1>9. CASE UNCHANGED bridgeVars
  BY <1>9 DEF bridgeVars
<1> QED BY <1>1, <1>2, <1>3, <1>5, <1>6, <1>7, <1>8, <1>9 DEF Next

(* No crash loop, whatever keys the files hold and however callbacks       *)
(* overlap: a process crashes only if, since its launch, a setting came for *)
(* a feed without a mapping or for a map another thread went through.      *)
THEOREM CrashTakesSetting == Spec => []NoCrashLoop
<1>1. Init => OnlyMapped
  BY EffectiveMapped DEF Init, OnlyMapped
<1>2. OnlyMapped => NoCrashLoop
  BY DEF OnlyMapped, NoCrashLoop
<1> QED BY <1>1, <1>2, NextOnlyMapped, BridgeInvariant, PTL DEF Spec

-----------------------------------------------------------------------------
(* Why a restart keeps the values.  Of a setting that no two readings were  *)
(* handled for at once, the file (while it is written: the text on its way) *)
(* has every value in force that is not unsaved; and the one store under    *)
(* way has read what the file holds, and is about the value in force.       *)

SoundStore(t, s, k, text) ==
    /\ \A u \in Threads \ {t} : ~(Storing(u) /\ call[u][1] = s)
    /\ s \in PlatformSettings => memory[s][k] = text
    /\ job[t] # "write" => <<s, k>> \in unsaved
    /\ job[t] = "open" =>
        /\ json[t][k] = text
        /\ \A j \in Keys \ {k} :
            \/ json[t][j] = disk[s][j]
            \/ json[t][j] = Absent /\ <<s, j>> \in unsaved
    /\ job[t] = "write" => disk[s] = NoValues

Coherent(s) ==
    \A k \in Mappings :
        Configured[s][k] # Absent /\ <<s, k>> \notin unsaved =>
            memory[s][k] = Load(s, FileOf(s))[k]

Sound(s) ==
    Apart(s) =>
        /\ \A t \in Threads :
            Storing(t) /\ call[t][1] = s => SoundStore(t, s, call[t][2], call[t][3])
        /\ s \in PlatformSettings => Coherent(s)

AllSound == \A s \in Settings : Sound(s)

(* What a setting depends on is as it was. *)
SameStores(s) ==
    \A u \in Threads :
        \/ ~(Storing(u) /\ call[u][1] = s) /\ ~(Storing(u)' /\ call'[u][1] = s)
        \/ /\ job'[u] = job[u] /\ call'[u] = call[u] /\ json'[u] = json[u]
           /\ Storing(u)' <=> Storing(u)

SameSetting(s) ==
    /\ s \in PlatformSettings => memory'[s] = memory[s]
    /\ disk'[s] = disk[s]
    /\ \A k \in Keys : <<s, k>> \in unsaved' <=> <<s, k>> \in unsaved
    /\ s \in overlapped' <=> s \in overlapped
    /\ SameStores(s)

(* The file of a setting one thread writes, and of one none writes. *)
LEMMA FileOfOne ==
    ASSUME NEW s, NEW t, Writers(s) = {t}
    PROVE  FileOf(s) = json[t]
BY DEF FileOf

LEMMA FileOfNone ==
    ASSUME NEW s, Writers(s) = {}
    PROVE  FileOf(s) = disk[s]
BY DEF FileOf

LEMMA SameWriters ==
    ASSUME NEW s, SameStores(s)
    PROVE  /\ Writers(s)' = Writers(s)
           /\ \A t \in Writers(s) : json'[t] = json[t]
BY DEF SameStores, Writers, Storing

LEMMA SameFileOf ==
    ASSUME NEW s, SameStores(s), disk'[s] = disk[s]
    PROVE  FileOf(s)' = FileOf(s)
<1>1. CASE Writers(s) = {}
  BY <1>1, SameWriters DEF FileOf
<1>2. CASE Writers(s) # {}
  <2> DEFINE w == CHOOSE t \in Writers(s) : TRUE
  <2>1. w \in Writers(s)
    BY <1>2
  <2>2. json'[w] = json[w]
    BY <2>1, SameWriters
  <2>3. FileOf(s) = json[w]
    BY <1>2 DEF FileOf
  <2>4. FileOf(s)' = json'[w]
    BY <1>2, SameWriters DEF FileOf
  <2> QED BY <2>2, <2>3, <2>4
<1> QED BY <1>1, <1>2

(* A setting a step leaves alone stays sound. *)
LEMMA SameSound ==
    ASSUME NEW s \in Settings, Sound(s), SameSetting(s), TypeOK
    PROVE  Sound(s)'
<1> SUFFICES ASSUME Apart(s)'
             PROVE  /\ \A t \in Threads :
                        Storing(t)' /\ call'[t][1] = s
                            => SoundStore(t, s, call[t][2], call[t][3])'
                    /\ s \in PlatformSettings => Coherent(s)'
  BY DEF Sound
<1>1. Apart(s)
  BY DEF Apart, SameSetting
<1>2. ASSUME NEW t \in Threads, Storing(t)', call'[t][1] = s
      PROVE  SoundStore(t, s, call[t][2], call[t][3])'
  <2>1. /\ Storing(t) /\ call'[t] = call[t] /\ json'[t] = json[t] /\ job'[t] = job[t]
        /\ call[t][1] = s
    BY <1>2 DEF SameSetting, SameStores
  <2>2. SoundStore(t, s, call[t][2], call[t][3])
    BY <1>1, <2>1 DEF Sound
  <2>3. call[t][2] \in Keys
    BY <2>1, CallType
  <2>4. \A u \in Threads \ {t} : ~(Storing(u)' /\ call'[u][1] = s)
    BY <2>2 DEF SoundStore, SameSetting, SameStores
  <2> QED BY <2>1, <2>2, <2>3, <2>4 DEF SoundStore, SameSetting
<1>3. ASSUME s \in PlatformSettings PROVE Coherent(s)'
  <2>1. FileOf(s)' = FileOf(s)
    BY SameFileOf DEF SameSetting
  <2>2. Coherent(s)
    BY <1>1, <1>3 DEF Sound
  <2> QED BY <1>3, <2>1, <2>2 DEF Coherent, SameSetting, Load, Keys
<1> QED BY <1>2, <1>3

(* Calls of the bridge other than handleUpdate() touch no setting. *)
LEMMA QuietSame ==
    ASSUME TypeOK, NEW s \in Settings,
           UNCHANGED <<memory, disk, locals, unsaved, overlapped>>,
           \A u \in Threads : job'[u] = job[u] \/ (~Storing(u) /\ ~Storing(u)')
    PROVE  SameSetting(s)
BY DEF SameSetting, SameStores, locals, Storing

(* A reading that is to be stored leaves the other settings alone, *)
LEMMA AssignOthers ==
    ASSUME TypeOK, NEW t \in Threads, ~Storing(t), UNCHANGED <<disk, json>>,
           NEW s \in Settings, NEW k \in Keys, NEW value, NEW text,
           Insert(s, k, value), StoreValue(t, s, k, text),
           NEW r \in Settings, r # s
    PROVE  SameSetting(r)
<1>1. memory'[r] = memory[r]
  BY DEF TypeOK, Insert
<1>2. /\ \A j \in Keys : <<r, j>> \in unsaved' <=> <<r, j>> \in unsaved
      /\ r \in overlapped' <=> r \in overlapped
  BY DEF StoreValue
<1>3. SameStores(r)
  <2> SUFFICES ASSUME NEW u \in Threads
               PROVE  \/ ~(Storing(u) /\ call[u][1] = r) /\ ~(Storing(u)' /\ call'[u][1] = r)
                      \/ /\ job'[u] = job[u] /\ call'[u] = call[u] /\ json'[u] = json[u]
                         /\ Storing(u)' <=> Storing(u)
    BY DEF SameStores
  <2>1. CASE u = t
    BY <2>1 DEF TypeOK, StoreValue
  <2>2. CASE u # t
    BY <2>2 DEF TypeOK, StoreValue, Storing
  <2> QED BY <2>1, <2>2
<1> QED BY <1>1, <1>2, <1>3 DEF SameSetting

(* and its own sound: the value is in force, and unsaved. *)
LEMMA AssignSound ==
    ASSUME IInv, AllSound, NEW t \in Threads, ~Storing(t), UNCHANGED <<disk, json>>,
           NEW s \in Settings, NEW k \in Keys, NEW value, NEW text,
           s \in PlatformSettings => value = text,
           Insert(s, k, value), StoreValue(t, s, k, text)
    PROVE  AllSound'
<1> SUFFICES ASSUME NEW r \in Settings PROVE Sound(r)'
  BY DEF AllSound
<1>1. CASE r # s
  BY <1>1, AssignOthers, SameSound DEF IInv, AllSound
<1>2. CASE r = s
  <2> SUFFICES ASSUME Apart(s)'
               PROVE  /\ \A u \in Threads :
                          Storing(u)' /\ call'[u][1] = s
                              => SoundStore(u, s, call[u][2], call[u][3])'
                      /\ s \in PlatformSettings => Coherent(s)'
    BY <1>2 DEF Sound
  <2>1. Apart(s) /\ \A u \in Threads : ~(Storing(u) /\ call[u][1] = s)
    BY DEF StoreValue, Apart
  <2>2. /\ job'[t] = "read" /\ call'[t] = <<s, k, text>>
        /\ \A u \in Threads \ {t} : job'[u] = job[u] /\ call'[u] = call[u]
    BY DEF StoreValue, IInv, TypeOK
  <2>3. \A u \in Threads \ {t} : ~(Storing(u)' /\ call'[u][1] = s)
    BY <2>1, <2>2 DEF Storing
  <2>4. s \in PlatformSettings => memory'[s][k] = text
    BY DEF Insert, IInv, TypeOK
  <2>5. SoundStore(t, s, call[t][2], call[t][3])'
    <3>1. <<s, k>> \in unsaved'
      BY DEF StoreValue
    <3> QED BY <2>2, <2>3, <2>4, <3>1 DEF SoundStore
  <2>6. ASSUME s \in PlatformSettings PROVE Coherent(s)'
    <3>1. Writers(s) = {} /\ Writers(s)' = {}
      BY <2>1, <2>2, <2>3 DEF Writers, Storing
    <3>2. FileOf(s) = disk[s] /\ FileOf(s)' = disk[s]
      BY <3>1 DEF FileOf
    <3>3. Coherent(s)
      BY <2>1, <2>6 DEF AllSound, Sound
    <3> SUFFICES ASSUME NEW j \in Mappings, Configured[s][j] # Absent,
                        <<s, j>> \notin unsaved'
                 PROVE  memory'[s][j] = Load(s, disk[s])[j]
      BY <3>2 DEF Coherent, Load
    <3>4. j # k /\ <<s, j>> \notin unsaved
      BY DEF StoreValue
    <3>5. memory'[s][j] = memory[s][j]
      BY <3>4 DEF Insert, IInv, TypeOK, Keys
    <3> QED BY <3>2, <3>3, <3>4, <3>5 DEF Coherent
  <2> QED BY <2>3, <2>5, <2>6
<1> QED BY <1>1, <1>2

(* A step of storeValue() leaves the other settings alone, *)
LEMMA StoreOthers ==
    ASSUME TypeOK, NEW t \in Threads, Store(t),
           NEW r \in Settings, r # call[t][1]
    PROVE  SameSetting(r)
<1> DEFINE s == call[t][1]
<1>1. Storing(t) /\ s \in Settings /\ StoreFrame
  BY CallType DEF Store, ReadFile, OpenFile, WriteInPart, WriteFile, InStore, Storing
<1>2. memory' = memory /\ overlapped' = overlapped
  BY <1>1 DEF StoreFrame
<1>3. disk'[r] = disk[r]
  BY <1>1 DEF TypeOK, Store, ReadFile, OpenFile, WriteInPart, WriteFile
<1>4. \A j \in Keys : <<r, j>> \in unsaved' <=> <<r, j>> \in unsaved
  <2>1. unsaved' \in {unsaved, unsaved \cup ({s} \X Keys),
                      unsaved \ {<<s, call[t][2]>>}}
    BY DEF Store, ReadFile, OpenFile, WriteInPart, WriteFile
  <2> QED BY <2>1
<1>5. \A u \in Threads \ {t} :
          job'[u] = job[u] /\ call'[u] = call[u] /\ json'[u] = json[u]
  BY DEF TypeOK, Store, ReadFile, OpenFile, WriteInPart, WriteFile, StoreReturn, locals
<1>6. Storing(t)' => call'[t] = call[t]
  BY DEF TypeOK, Store, ReadFile, OpenFile, WriteInPart, WriteFile, StoreReturn,
         locals, Storing
<1>7. SameStores(r)
  BY <1>1, <1>5, <1>6 DEF SameStores, Storing
<1> QED BY <1>2, <1>3, <1>4, <1>7 DEF SameSetting

(* and its own sound. *)
LEMMA StoreSound ==
    ASSUME IInv, AllSound, NEW t \in Threads, Store(t)
    PROVE  AllSound'
<1>0. /\ Storing(t) /\ StoreFrame
      /\ disk \in SettingMaps /\ json[t] \in ValueMaps
  BY DEF Store, ReadFile, OpenFile, WriteInPart, WriteFile, InStore, Storing,
         IInv, TypeOK, SettingMaps, ValueMaps
<1> PICK s \in Settings, k \in Keys, text \in Texts : call[t] = <<s, k, text>>
  BY <1>0, CallType DEF IInv
<1>1. /\ Storing(t) /\ StoreFrame /\ disk \in SettingMaps /\ json[t] \in ValueMaps
      /\ call[t][1] = s /\ call[t][2] = k /\ call[t][3] = text
  BY <1>0
<1>2. memory' = memory /\ overlapped' = overlapped
  BY <1>1 DEF StoreFrame
<1> SUFFICES ASSUME NEW r \in Settings PROVE Sound(r)'
  BY DEF AllSound
<1>3. CASE r # s
  BY <1>3, StoreOthers, SameSound DEF IInv, AllSound
<1>4. CASE r = s
  <2> SUFFICES ASSUME Apart(s)'
               PROVE  /\ \A u \in Threads :
                          Storing(u)' /\ call'[u][1] = s
                              => SoundStore(u, s, call[u][2], call[u][3])'
                      /\ s \in PlatformSettings => Coherent(s)'
    BY <1>4 DEF Sound
  <2>1. Apart(s) /\ SoundStore(t, s, k, text)
    BY <1>1, <1>2 DEF AllSound, Sound, Apart
  <2>2. s \in PlatformSettings => Coherent(s)
    BY <1>1, <2>1 DEF AllSound, Sound
  <2>3. \A u \in Threads \ {t} : ~(Storing(u) /\ call[u][1] = s)
    BY <2>1 DEF SoundStore
  <2>4. \A u \in Threads \ {t} :
            job'[u] = job[u] /\ call'[u] = call[u] /\ json'[u] = json[u]
    BY DEF IInv, TypeOK, Store, ReadFile, OpenFile, WriteInPart, WriteFile,
           StoreReturn, locals
  <2>5. \A u \in Threads \ {t} : ~(Storing(u)' /\ call'[u][1] = s)
    BY <2>3, <2>4 DEF Storing
  <2>6. CASE ReadFile(t)
    <3>1. /\ job[t] = "read" /\ job'[t] = "open" /\ UNCHANGED <<disk, call>>
          /\ \E readable \in StoreOutcomes :
                /\ json'[t] = [(IF readable THEN disk[s] ELSE NoValues)
                                  EXCEPT ![k] = text]
                /\ unsaved' = IF readable THEN unsaved
                              ELSE unsaved \cup ({s} \X Keys)
      BY <2>6 DEF ReadFile, InStore, IInv, TypeOK
    <3>2. /\ json'[t][k] = text
          /\ \A j \in Keys \ {k} :
                \/ json'[t][j] = disk[s][j]
                \/ json'[t][j] = Absent /\ <<s, j>> \in unsaved'
          /\ unsaved \subseteq unsaved'
      BY <1>1, <3>1 DEF SettingMaps, NoValues
    <3>3. SoundStore(t, s, call[t][2], call[t][3])'
      BY <1>2, <2>1, <2>5, <3>1, <3>2 DEF SoundStore
    <3>4. ASSUME s \in PlatformSettings PROVE Coherent(s)'
      <4>1. Writers(s) = {} /\ Writers(s)' = {}
        BY <2>3, <2>5, <3>1 DEF Writers, Storing
      <4>2. FileOf(s) = disk[s] /\ FileOf(s)' = disk[s]
        BY <3>1, <4>1 DEF FileOf
      <4> QED BY <1>2, <2>2, <3>2, <3>4, <4>2 DEF Coherent, Load
    <3> QED BY <2>5, <3>3, <3>4
  <2>7. CASE OpenFile(t)
    <3>0. job[t] = "open" /\ Writers(s) = {} /\ FileOf(s) = disk[s]
      <4>1. job[t] = "open"
        BY <2>7 DEF OpenFile, InStore
      <4>2. Writers(s) = {}
        BY <2>3, <4>1 DEF Writers, Storing
      <4> QED BY <4>1, <4>2 DEF FileOf
    <3>1. CASE /\ job'[t] = "write" /\ disk'[s] = NoValues
               /\ unsaved' = unsaved \ {<<s, k>>} /\ UNCHANGED locals
      <4>1. SoundStore(t, s, call[t][2], call[t][3])'
        BY <1>2, <2>1, <2>5, <3>1 DEF SoundStore, locals
      <4>2. ASSUME s \in PlatformSettings PROVE Coherent(s)'
        <5>1. Writers(s)' = {t} /\ FileOf(s)' = json[t]
          <6>1. Writers(s)' = {t}
            BY <1>1, <2>5, <3>1 DEF Writers, Storing, locals
          <6> QED BY <3>1, <6>1 DEF FileOf, locals
        <5> SUFFICES ASSUME NEW j \in Mappings, Configured[s][j] # Absent,
                            <<s, j>> \notin unsaved'
                     PROVE  memory[s][j] = Load(s, json[t])[j]
          BY <1>2, <5>1 DEF Coherent, Load
        <5>2. CASE j = k
          <6>1. json[t][j] = text /\ memory[s][j] = text /\ text # Absent
            BY <1>1, <2>1, <3>0, <4>2, <5>2, NumbersAssumption DEF SoundStore, Texts
          <6> QED BY <6>1 DEF Load, Keys
        <5>3. CASE j # k
          <6>1. <<s, j>> \notin unsaved /\ j \in Keys
            BY <3>1, <5>3 DEF Keys
          <6>2. json[t][j] = disk[s][j]
            BY <2>1, <3>0, <5>3, <6>1 DEF SoundStore
          <6>3. memory[s][j] = Load(s, disk[s])[j]
            BY <2>2, <3>0, <4>2, <6>1 DEF Coherent
          <6> QED BY <6>1, <6>2, <6>3 DEF Load
        <5> QED BY <5>2, <5>3
      <4> QED BY <2>5, <4>1, <4>2
    <3>2. CASE StoreReturn(t) /\ UNCHANGED <<disk, unsaved>>
      <4>1. ~Storing(t)' /\ Writers(s)' = {}
        BY <2>5, <3>2 DEF StoreReturn, Storing, Writers, IInv, TypeOK
      <4>2. ASSUME s \in PlatformSettings PROVE Coherent(s)'
        <5>1. FileOf(s)' = disk[s]
          BY <3>2, <4>1 DEF FileOf
        <5> QED BY <1>2, <2>2, <3>0, <3>2, <4>2, <5>1 DEF Coherent, Load
      <4> QED BY <2>5, <4>1, <4>2
    <3> QED BY <1>1, <2>7, <3>1, <3>2 DEF OpenFile, IInv, TypeOK
  <2>8. ~WriteInPart(t)
    BY <2>1 DEF WriteInPart, InStore, SoundStore
  <2>9. CASE WriteFile(t)
    <3>1. job[t] = "write" /\ StoreReturn(t)
      BY <2>9 DEF WriteFile, InStore
    <3>2. ~Storing(t)' /\ Writers(s)' = {} /\ FileOf(s)' = disk'[s]
      <4>1. ~Storing(t)' /\ Writers(s)' = {}
        BY <2>5, <3>1 DEF StoreReturn, Storing, Writers, IInv, TypeOK
      <4> QED BY <4>1 DEF FileOf
    <3>3. FileOf(s) = json[t]
      <4>1. Writers(s) = {t}
        BY <1>1, <2>3, <3>1 DEF Writers, Storing
      <4> QED BY <4>1 DEF FileOf
    <3>4. \/ disk'[s] = json[t] /\ unsaved' = unsaved
          \/ unsaved' = unsaved \cup ({s} \X Keys)
      BY <1>1, <2>9 DEF WriteFile, SettingMaps
    <3>5. ASSUME s \in PlatformSettings PROVE Coherent(s)'
      <4>1. CASE disk'[s] = json[t] /\ unsaved' = unsaved
        BY <1>2, <2>2, <3>2, <3>3, <3>5, <4>1 DEF Coherent, Load
      <4>2. CASE unsaved' = unsaved \cup ({s} \X Keys)
        BY <4>2 DEF Coherent, Keys
      <4> QED BY <3>4, <4>1, <4>2
    <3> QED BY <2>5, <3>2, <3>5
  <2> QED BY <2>6, <2>7, <2>8, <2>9 DEF Store
<1> QED BY <1>3, <1>4

(* So do all steps. *)
LEMMA NextSound ==
    ASSUME IInv, AllSound, [Next]_bridgeVars
    PROVE  AllSound'
<1>1. ASSUME \A s \in Settings : SameSetting(s) PROVE AllSound'
  BY <1>1, SameSound DEF AllSound, IInv
<1>2. ASSUME UNCHANGED <<memory, disk, locals, unsaved, overlapped>>,
             \A u \in Threads : job'[u] = job[u] \/ (~Storing(u) /\ ~Storing(u)')
      PROVE  AllSound'
  BY <1>1, <1>2, QuietSame DEF IInv
<1>3. ASSUME NEW t \in Threads,
             \/ Start(t) \/ StartReturn(t) \/ Stop(t) \/ StatusReturn(t)
             \/ \E s \in Statuses \ {"NONE"} : PlatformStatus(t, s)
             \/ \E k \in Keys : WriteEntry(t, k)
      PROVE  AllSound'
  <2>1. UNCHANGED <<memory, disk, locals, unsaved, overlapped>>
    BY <1>3 DEF Start, StartReturn, Stop, StatusReturn, PlatformStatus, WriteEntry,
                history
  <2>2. \A u \in Threads : job'[u] = job[u] \/ (~Storing(u) /\ ~Storing(u)')
    BY <1>3 DEF Start, StartReturn, Stop, StatusReturn, PlatformStatus, WriteEntry,
                Storing, IInv, TypeOK
  <2> QED BY <1>2, <2>1, <2>2
<1>4. ASSUME NEW t \in Threads, HandleUpdate(t) PROVE AllSound'
  <2> PICK k \in Keys, text \in Inputs :
          \/ \E s \in Settings : HandleValueReading(t, s, k, text)
          \/ HandleRepeatWriteReading(t, k, text)
          \/ HandleFeedReading(t, k, text)
    BY <1>4 DEF HandleUpdate
  <2>1. ASSUME NEW s \in Settings, HandleValueReading(t, s, k, text) PROVE AllSound'
    BY <2>1, AssignSound DEF HandleValueReading, Handle, Storing
  <2>2. CASE HandleRepeatWriteReading(t, k, text)
    <3>1. CASE Insert("RPW", k, 0) /\ StoreValue(t, "RPW", k, text)
      BY <2>2, <3>1, AssignSound
         DEF HandleRepeatWriteReading, Handle, Storing, Settings, PlatformSettings
    <3>2. CASE UNCHANGED <<job, call, unsaved, overlapped>>
      <4>1. \A r \in PlatformSettings : memory'[r] = memory[r]
        BY <2>2 DEF HandleRepeatWriteReading, Insert, IInv, TypeOK, PlatformSettings,
                    Settings
      <4>2. UNCHANGED <<disk, json>>
        BY <2>2 DEF HandleRepeatWriteReading, Handle
      <4> QED BY <1>1, <3>2, <4>1, <4>2 DEF SameSetting, SameStores, Storing
    <3> QED BY <2>2, <3>1, <3>2 DEF HandleRepeatWriteReading
  <2>3. CASE HandleFeedReading(t, k, text)
    BY <1>2, <2>3 DEF HandleFeedReading, Handle, locals
  <2> QED BY <2>1, <2>2, <2>3
<1>5. ASSUME NEW t \in Threads, Store(t) PROVE AllSound'
  BY <1>5, StoreSound
<1>6. CASE Kill
  BY <1>2, <1>6 DEF Kill, history
<1>7. CASE Initialize
  <2>1. \A t \in Threads : ~Storing(t)'
    BY <1>7 DEF Initialize, Storing
  <2>2. \A s \in Settings : FileOf(s)' = disk[s]
    BY <1>7 DEF Initialize, FileOf, Writers
  <2>3. \A s \in Settings : Coherent(s)'
    BY <1>7, <2>2 DEF Initialize, Coherent, Effective, Load
  <2> QED BY <2>1, <2>3 DEF AllSound, Sound
<1>8. CASE UNCHANGED bridgeVars
  BY <1>2, <1>8 DEF bridgeVars, history
<1> QED BY <1>3, <1>4, <1>5, <1>6, <1>7, <1>8 DEF Next

LEMMA InitSound == Init => AllSound
<1> SUFFICES ASSUME Init, NEW s \in Settings PROVE Sound(s)
  BY DEF AllSound
<1>1. ASSUME NEW t \in Threads PROVE ~Storing(t)
  <2>1. job[t] = "none"
    BY DEF Init
  <2> QED BY <2>1 DEF Storing
<1>2. FileOf(s) = disk[s]
  BY <1>1 DEF FileOf, Writers, Storing
<1> QED BY <1>1, <1>2 DEF Init, Sound, Coherent, Effective

(* Whatever stores fail, in whichever of their steps, however calls        *)
(* overlap and whenever the process dies: what a restart would load of a   *)
(* setting is in force, but for what RestartKeepsValues excepts.           *)
THEOREM RestartKeepsValuesAlways == Spec => []RestartKeepsValues
<1>1. IInv /\ AllSound /\ [Next]_bridgeVars => AllSound'
  BY NextSound
<1>2. AllSound => RestartKeepsValues
  BY FileOfNone
     DEF AllSound, Sound, Coherent, RestartKeepsValues, PlatformSettings, Settings,
         Apart, Effective
<1> QED BY <1>1, <1>2, InitSound, BridgeInvariant, PTL DEF Spec
-----------------------------------------------------------------------------
(* Why writeAMapOfValues leaves its values in the registers: with one       *)
(* thread nothing changes the map or a register while it goes through it.   *)

Serial == \A t, u \in Threads : t = u

(* Every step preserves it. *)
LEMMA NextVisited ==
    ASSUME Serial, IInv, VisitedHoldsValue, [Next]_bridgeVars
    PROVE  VisitedHoldsValue'
<1> USE DEF IInv, TypeOK, VisitedHoldsValue, InLoop, MapOf, history
<1>1. ASSUME NEW t \in Threads, Start(t) PROVE VisitedHoldsValue'
  BY <1>1 DEF Start, Entries, Serial, Keys
<1>2. ASSUME NEW t \in Threads, StartReturn(t) \/ StatusReturn(t)
      PROVE  VisitedHoldsValue'
  BY <1>2 DEF StartReturn, StatusReturn, Serial
<1>3. ASSUME NEW t \in Threads, Stop(t) PROVE VisitedHoldsValue'
  BY <1>3 DEF Stop
<1>4. ASSUME NEW t \in Threads, NEW k \in Keys, WriteEntry(t, k)
      PROVE  VisitedHoldsValue'
  <2> SUFFICES ASSUME process' = "up", NEW u \in Threads, InLoop(u)',
                      NEW j \in Mappings \ (todo'[u] \cup refused'),
                      memory'[MapOf(job'[u])][j] \notin {Absent, NotANumber}
               PROVE  written'[j] = Word(memory'[MapOf(job'[u])][j])
    OBVIOUS
  <2>1. u = t /\ InLoop(u) /\ process = "up" /\ UNCHANGED <<memory, job>>
        /\ k \in Mappings /\ WriteToMapping(k, memory[MapOf(job[t])][k])
        /\ todo'[u] = todo[u] \ {k}
    BY <1>4 DEF WriteEntry, Serial
  <2>2. CASE j = k
    BY <2>1, <2>2 DEF WriteToMapping
  <2>3. CASE j # k
    <3>1. written'[j] = written[j] /\ j \notin refused
      BY <2>1, <2>3 DEF WriteToMapping
    <3> QED BY <2>1, <2>3, <3>1
  <2> QED BY <2>2, <2>3
<1>5. ASSUME NEW t \in Threads, NEW s \in Statuses, PlatformStatus(t, s)
      PROVE  VisitedHoldsValue'
  BY <1>5 DEF PlatformStatus, Entries, Serial, Keys
<1>6. ASSUME NEW t \in Threads, HandleUpdate(t) PROVE VisitedHoldsValue'
  <2>1. job[t] = "none" /\ job' \in {job, [job EXCEPT ![t] = "read"]}
    BY <1>6 DEF HandleUpdate, HandleValueReading, HandleRepeatWriteReading,
                HandleFeedReading, Handle, StoreValue
  <2> QED BY <2>1 DEF Serial
<1>7. ASSUME NEW t \in Threads, Store(t) PROVE VisitedHoldsValue'
  <2>1. Storing(t) /\ (Storing(t)' \/ job'[t] = "none")
    BY <1>7 DEF Store, ReadFile, OpenFile, WriteInPart, WriteFile, StoreReturn,
                InStore, Storing
  <2> QED BY <2>1 DEF Serial, Storing
<1>8. CASE Kill
  BY <1>8 DEF Kill
<1>9. CASE Initialize
  BY <1>9 DEF Initialize
<1>10. CASE UNCHANGED bridgeVars
  BY <1>10 DEF bridgeVars
<1> QED
  BY <1>1, <1>2, <1>3, <1>4, <1>5, <1>6, <1>7, <1>8, <1>9, <1>10 DEF Next

(* When start() returns the default values are in the registers, when a    *)
(* first OFFLINE has been handled the safe mode values are, if callbacks   *)
(* do not overlap; a write that is refused costs its own register only.    *)
THEOREM ValuesAreWritten ==
    ASSUME Serial
    PROVE  Spec => []VisitedHoldsValue
<1>1. Init => VisitedHoldsValue
  BY DEF Init, VisitedHoldsValue, InLoop
<1>2. IInv /\ VisitedHoldsValue /\ [Next]_bridgeVars => VisitedHoldsValue'
  BY NextVisited
<1> QED BY <1>1, <1>2, BridgeInvariant, PTL DEF Spec

(* The removed feeds and the overlapping callbacks are the only hazards:    *)
(* without both of them no sequence of readings, calls, refused writes and  *)
(* relaunches takes the process down (handleUpdate(), writeAMapOfValues()). *)
THEOREM NeverCrashesWithoutHazard ==
    ASSUME Serial, Stale = {}
    PROVE  Spec => [](process # "crashed")
<1>1. Init => ~endangered
  BY DEF Init
<1>2. ASSUME ~endangered, [Next]_bridgeVars PROVE ~endangered'
  <2>1. ASSUME NEW t \in Threads, NEW k \in Keys, NEW s \in Settings,
               job[t] = "none", Endanger(s, k)
        PROVE  ~endangered'
    BY <1>2, <2>1 DEF Endanger, Iterated, Serial, Keys
  <2>2. ASSUME NEW t \in Threads, HandleUpdate(t) PROVE ~endangered'
    <3> PICK k \in Keys, text \in Inputs :
            \/ \E s \in Settings : HandleValueReading(t, s, k, text)
            \/ HandleRepeatWriteReading(t, k, text)
            \/ HandleFeedReading(t, k, text)
      BY <2>2 DEF HandleUpdate
    <3>1. CASE \E s \in Settings : HandleValueReading(t, s, k, text)
      BY <2>1, <3>1 DEF HandleValueReading, Handle
    <3>2. CASE HandleRepeatWriteReading(t, k, text)
      BY <1>2, <2>1, <3>2 DEF HandleRepeatWriteReading, Handle, Settings
    <3>3. CASE HandleFeedReading(t, k, text)
      BY <1>2, <3>3 DEF HandleFeedReading
    <3> QED BY <3>1, <3>2, <3>3
  <2>3. ASSUME NEW t \in Threads, Store(t) PROVE ~endangered'
    BY <1>2, <2>3 DEF Store, ReadFile, OpenFile, WriteInPart, WriteFile, StoreFrame
  <2> QED
    BY <1>2, <2>2, <2>3
       DEF Next, Start, StartReturn, Stop, WriteEntry, PlatformStatus, StatusReturn,
           Kill, Initialize, bridgeVars, history
<1>3. NoCrashLoop /\ ~endangered => process # "crashed"
  BY DEF NoCrashLoop
<1> QED BY <1>1, <1>2, <1>3, CrashTakesSetting, PTL DEF Spec

-----------------------------------------------------------------------------
(* ModbusBridge implements SettingsStore: with AllSound, what is being      *)
(* written into a file is in force, and what is not unsaved is kept.        *)

Mixed == overlapped \cap PlatformSettings

(* Changing one entry of a map changes one entry of what the platform sees  *)
(* of it, changing one map changes one of its settings.                     *)
IsView(f) ==
    f = [r \in PlatformSettings |-> [j \in Having(r) |-> f[r][j]]]

LEMMA OneSettingChanged ==
    ASSUME NEW f, NEW g, IsView(f), IsView(g), NEW s \in PlatformSettings,
           \A r \in PlatformSettings \ {s} : g[r] = f[r]
    PROVE  g = [f EXCEPT ![s] = g[s]]
<1>1. ASSUME NEW h, IsView(h) PROVE h = [r \in PlatformSettings |-> h[r]]
  <2>1. h = [r \in PlatformSettings |-> [j \in Having(r) |-> h[r][j]]]
    BY <1>1 DEF IsView
  <2>2. \A r \in PlatformSettings : h[r] = [j \in Having(r) |-> h[r][j]]
    BY <2>1
  <2> QED BY <2>1, <2>2
<1>2. f = [r \in PlatformSettings |-> f[r]] /\ g = [r \in PlatformSettings |-> g[r]]
  BY <1>1
<1> QED BY <1>2

LEMMA OneEntryChanged ==
    ASSUME NEW f, NEW g, IsView(f), IsView(g),
           NEW s \in PlatformSettings, NEW k \in Having(s), NEW text,
           \A r \in PlatformSettings : \A j \in Having(r) :
               g[r][j] = IF r = s /\ j = k THEN text ELSE f[r][j]
    PROVE  g = [f EXCEPT ![s][k] = text]
<1>1. \A r \in PlatformSettings :
          /\ f[r] = [j \in Having(r) |-> f[r][j]]
          /\ g[r] = [j \in Having(r) |-> g[r][j]]
  BY DEF IsView
<1>2. g[s] = [f[s] EXCEPT ![k] = text]
  BY <1>1
<1>3. \A r \in PlatformSettings \ {s} : g[r] = f[r]
  BY <1>1
<1>4. g = [f EXCEPT ![s] = g[s]]
  BY <1>3, OneSettingChanged
<1> QED BY <1>2, <1>4

LEMMA Views == IsView(ValueInForce) /\ IsView(ValueKept) /\ IsView(ConfiguredValue)
BY DEF IsView, ValueInForce, ValueKept, ConfiguredValue

LEMMA ViewsPrimed == IsView(ValueInForce') /\ IsView(ValueKept')
BY DEF IsView, ValueInForce, ValueKept, Having

(* Two sets of pairs with the same pairs are the same. *)
LEMMA PairsEqual ==
    ASSUME NEW X \in SUBSET (PlatformSettings \X Keys),
           NEW Y \in SUBSET (PlatformSettings \X Keys),
           \A r \in PlatformSettings, k \in Keys : <<r, k>> \in X <=> <<r, k>> \in Y
    PROVE  X = Y
OBVIOUS

LEMMA UnsavedPairs ==
    ASSUME TypeOK
    PROVE  /\ UnsavedHere \in SUBSET (PlatformSettings \X Keys)
           /\ \A r \in PlatformSettings, k \in Keys :
                  <<r, k>> \in UnsavedHere <=>
                      Apart(r) /\ k \in Having(r) /\ <<r, k>> \in unsaved
<1>1. unsaved \subseteq Settings \X Keys
  BY DEF TypeOK
<1> QED BY <1>1 DEF UnsavedHere

LEMMA UnsavedPairsPrimed ==
    ASSUME TypeOK'
    PROVE  /\ UnsavedHere' \in SUBSET (PlatformSettings \X Keys)
           /\ \A r \in PlatformSettings, k \in Keys :
                  <<r, k>> \in UnsavedHere' <=>
                      Apart(r)' /\ k \in Having(r) /\ <<r, k>> \in unsaved'
<1>1. unsaved' \subseteq Settings \X Keys
  BY DEF TypeOK
<1> QED BY <1>1 DEF UnsavedHere, Having

(* What a step leaves alone of a setting, the platform sees unchanged. *)
LEMMA SameView ==
    ASSUME NEW r \in PlatformSettings, SameSetting(r)
    PROVE  /\ ValueInForce'[r] = ValueInForce[r]
           /\ ValueKept'[r] = ValueKept[r]
           /\ r \in SavingHere' <=> r \in SavingHere
           /\ r \in Mixed' <=> r \in Mixed
           /\ Apart(r)' <=> Apart(r)
<1>1. memory'[r] = memory[r] /\ disk'[r] = disk[r] /\ SameStores(r)
  BY DEF SameSetting
<1>2. Apart(r)' <=> Apart(r)
  BY DEF SameSetting, Apart
<1>3. FileOf(r)' = FileOf(r) /\ Writers(r)' = Writers(r)
  BY <1>1, SameFileOf, SameWriters
<1>4. ValueInForce'[r] = ValueInForce[r]
  BY <1>1 DEF ValueInForce, Having
<1>5. ValueKept'[r] = ValueKept[r]
  BY <1>2, <1>3 DEF ValueKept, Having, Load
<1>6. r \in SavingHere' <=> r \in SavingHere
  BY <1>2, <1>3 DEF SavingHere
<1> QED BY <1>2, <1>4, <1>5, <1>6 DEF SameSetting, Mixed

(* A step that leaves every setting but one alone. *)
OthersSame(s) == \A r \in PlatformSettings \ {s} : SameSetting(r)

LEMMA OthersView ==
    ASSUME NEW s \in PlatformSettings, OthersSame(s), TypeOK, TypeOK'
    PROVE  /\ ValueInForce' = [ValueInForce EXCEPT ![s] = ValueInForce'[s]]
           /\ ValueKept' = [ValueKept EXCEPT ![s] = ValueKept'[s]]
           /\ SavingHere' \ {s} = SavingHere \ {s}
           /\ Mixed' \ {s} = Mixed \ {s}
           /\ \A r \in PlatformSettings \ {s}, k \in Keys :
                  <<r, k>> \in UnsavedHere' <=> <<r, k>> \in UnsavedHere
<1>1. ValueInForce' = [ValueInForce EXCEPT ![s] = ValueInForce'[s]]
  BY SameView, Views, ViewsPrimed, OneSettingChanged DEF OthersSame
<1>2. ValueKept' = [ValueKept EXCEPT ![s] = ValueKept'[s]]
  BY SameView, Views, ViewsPrimed, OneSettingChanged DEF OthersSame
<1>3. SavingHere' \ {s} = SavingHere \ {s} /\ Mixed' \ {s} = Mixed \ {s}
  BY SameView DEF OthersSame, SavingHere, Mixed
<1>4. ASSUME NEW r \in PlatformSettings \ {s}, NEW k \in Keys
      PROVE  <<r, k>> \in UnsavedHere' <=> <<r, k>> \in UnsavedHere
  BY SameView, UnsavedPairs, UnsavedPairsPrimed DEF OthersSame, SameSetting
<1> QED BY <1>1, <1>2, <1>3, <1>4

(* What is unsaved after such a step, from what is of that setting. *)
LEMMA UnsavedBecomes ==
    ASSUME TypeOK, TypeOK', NEW s \in PlatformSettings, OthersSame(s),
           NEW X \in SUBSET (PlatformSettings \X Keys),
           \A r \in PlatformSettings \ {s}, j \in Keys :
               <<r, j>> \in X <=> <<r, j>> \in UnsavedHere,
           \A j \in Keys : <<s, j>> \in X <=>
               Apart(s)' /\ j \in Having(s) /\ <<s, j>> \in unsaved'
    PROVE  UnsavedHere' = X
<1>1. ASSUME NEW r \in PlatformSettings, NEW j \in Keys
      PROVE  <<r, j>> \in UnsavedHere' <=> <<r, j>> \in X
  <2>1. CASE r = s
    BY <2>1, UnsavedPairsPrimed
  <2>2. CASE r # s
    BY <2>2, OthersView
  <2> QED BY <2>1, <2>2
<1>2. UnsavedHere' \in SUBSET (PlatformSettings \X Keys)
  BY UnsavedPairsPrimed
<1> QED BY <1>1, <1>2, PairsEqual

LEMMA AllSameView ==
    ASSUME TypeOK, TypeOK', \A r \in PlatformSettings : SameSetting(r)
    PROVE  UNCHANGED <<ValueInForce, ValueKept, UnsavedHere, SavingHere, Mixed>>
<1>1. \A s \in PlatformSettings : OthersSame(s)
  BY DEF OthersSame
<1>2. UnsavedHere' = UnsavedHere
  BY UnsavedPairs, UnsavedPairsPrimed, SameView, PairsEqual DEF SameSetting
<1>3. SavingHere' = SavingHere /\ Mixed' = Mixed
  BY SameView DEF SavingHere, Mixed
<1>4. "DFV" \in PlatformSettings
  BY DEF PlatformSettings
<1>5. /\ ValueInForce' = [ValueInForce EXCEPT !["DFV"] = ValueInForce'["DFV"]]
      /\ ValueKept' = [ValueKept EXCEPT !["DFV"] = ValueKept'["DFV"]]
  BY <1>1, <1>4, OthersView
<1>6. /\ ValueInForce = [r \in PlatformSettings |-> ValueInForce[r]]
      /\ ValueKept = [r \in PlatformSettings |-> ValueKept[r]]
  BY DEF ValueInForce, ValueKept
<1>7. ValueInForce'["DFV"] = ValueInForce["DFV"] /\ ValueKept'["DFV"] = ValueKept["DFV"]
  BY <1>4, SameView
<1>8. ValueInForce' = ValueInForce /\ ValueKept' = ValueKept
  BY <1>4, <1>5, <1>6, <1>7
<1> QED BY <1>2, <1>3, <1>8

(* The initial state maps to the initial state of the store. *)
LEMMA PromiseInit == Init => Promise!Init
<1> SUFFICES ASSUME Init PROVE Promise!Init
  OBVIOUS
<1>1. ASSUME NEW s \in PlatformSettings PROVE Writers(s) = {} /\ FileOf(s) = disk[s]
  <2>1. ASSUME NEW t \in Threads PROVE job[t] = "none"
    BY DEF Init
  <2> QED BY <2>1 DEF Writers, FileOf
<1>2. \A s \in PlatformSettings : \A k \in Having(s) :
        Effective(s)[k] = Configured[s][k] /\ memory[s][k] = Effective(s)[k]
  BY DEF Init, PlatformSettings, Settings, Having, Effective, Load, Keys
<1>3. UnsavedHere = {} /\ overlapped = {} /\ updates = 0
  BY DEF Init, UnsavedHere
<1>4. SavingHere = {}
  BY <1>1 DEF SavingHere
<1>5. ValueInForce = ConfiguredValue /\ ValueKept = ConfiguredValue
  BY <1>1, <1>2 DEF ValueInForce, ValueKept, ConfiguredValue, Effective
<1> QED BY <1>3, <1>4, <1>5 DEF Promise!Init

(* What the platform sees of one setting in a state. *)
LEMMA Seen ==
    ASSUME NEW s \in PlatformSettings
    PROVE  /\ DOMAIN ConfiguredValue[s] = Having(s)
           /\ ConfiguredValue[s] = [k \in Having(s) |-> Configured[s][k]]
           /\ Promise!Pairs(s) = {s} \X Having(s)
           /\ ~Apart(s) => ValueKept[s] = ConfiguredValue[s]
           /\ s \in SavingHere <=> Apart(s) /\ Writers(s) # {}
           /\ s \in Mixed <=> ~Apart(s)
           /\ Apart(s) => \A k \in Having(s) : ValueKept[s][k] = Load(s, FileOf(s))[k]
           /\ ValueKept[s] = [k \in Having(s) |-> ValueKept[s][k]]
           /\ s \in Settings /\ Having(s) \subseteq Keys
BY DEF ConfiguredValue, ValueKept, SavingHere, Mixed, Apart, Promise!Pairs, Having,
       PlatformSettings, Settings, Keys

LEMMA SeenPrimed ==
    ASSUME NEW s \in PlatformSettings
    PROVE  /\ ~Apart(s)' => ValueKept'[s] = ConfiguredValue[s]
           /\ s \in SavingHere' <=> Apart(s)' /\ Writers(s)' # {}
           /\ s \in Mixed' <=> ~Apart(s)'
           /\ Apart(s)' =>
                  \A k \in Having(s) : ValueKept'[s][k] = Load(s, FileOf(s)')[k]
           /\ ValueKept'[s] = [k \in Having(s) |-> ValueKept'[s][k]]
BY DEF ConfiguredValue, ValueKept, SavingHere, Mixed, Apart, Having, Load

(* A step that leaves every value of a setting unsaved. *)
LEMMA UnsavedFilled ==
    ASSUME TypeOK, TypeOK', NEW s \in PlatformSettings, OthersSame(s),
           Apart(s), Apart(s)', unsaved' = unsaved \cup ({s} \X Keys)
    PROVE  UnsavedHere' = UnsavedHere \cup Promise!Pairs(s)
<1> DEFINE All == UnsavedHere \cup ({s} \X Having(s))
<1>1. All \in SUBSET (PlatformSettings \X Keys)
  BY UnsavedPairs, Seen
<1>2. \A j \in Keys : <<s, j>> \in All <=>
          Apart(s)' /\ j \in Having(s) /\ <<s, j>> \in unsaved'
  BY UnsavedPairs
<1>3. \A r \in PlatformSettings \ {s}, j \in Keys :
          <<r, j>> \in All <=> <<r, j>> \in UnsavedHere
  OBVIOUS
<1>4. UnsavedHere' = All
  <2> HIDE DEF All
  <2> QED BY <1>1, <1>2, <1>3, UnsavedBecomes
<1> QED BY <1>4, Seen

(* A reading that is to be stored. *)
LEMMA PromiseAssign ==
    ASSUME IInv, IInv', AllSound, NEW t \in Threads, ~Storing(t),
           UNCHANGED <<disk, json>>, updates' = updates + 1,
           NEW s \in PlatformSettings, NEW k \in Keys, NEW text \in Inputs,
           Insert(s, k, text), StoreValue(t, s, k, text)
    PROVE  Promise!Next
<1> s \in Settings /\ text \in Texts
  BY Seen, InputsAssumption
<1>1. OthersSame(s)
  BY AssignOthers DEF OthersSame, PlatformSettings, Settings, IInv
<1>2. /\ ValueKept' = [ValueKept EXCEPT ![s] = ValueKept'[s]]
      /\ SavingHere' \ {s} = SavingHere \ {s} /\ Mixed' \ {s} = Mixed \ {s}
      /\ \A r \in PlatformSettings \ {s}, j \in Keys :
             <<r, j>> \in UnsavedHere' <=> <<r, j>> \in UnsavedHere
  BY <1>1, OthersView DEF IInv
<1>3. /\ k \in Having(s) => ValueInForce' = [ValueInForce EXCEPT ![s][k] = text]
      /\ k \notin Having(s) => ValueInForce' = ValueInForce
  <2>1. \A r \in PlatformSettings : \A j \in Having(r) :
            memory'[r][j] = IF r = s /\ j = k THEN text ELSE memory[r][j]
    BY DEF Insert, Having, Keys, PlatformSettings, Settings, IInv, TypeOK
  <2>2. \A r \in PlatformSettings : \A j \in Having(r) :
            ValueInForce'[r][j] = IF r = s /\ j = k THEN text ELSE ValueInForce[r][j]
    BY <2>1 DEF ValueInForce, Having
  <2>3. ASSUME k \in Having(s)
        PROVE  ValueInForce' = [ValueInForce EXCEPT ![s][k] = text]
    <3>1. IsView(ValueInForce) /\ IsView(ValueInForce')
      BY Views, ViewsPrimed
    <3> HIDE DEF IsView
    <3> QED BY <2>2, <2>3, <3>1, OneEntryChanged
  <2>4. k \notin Having(s) => ValueInForce' = ValueInForce
    BY <2>1 DEF ValueInForce, Having
  <2> QED BY <2>3, <2>4
<1>4. Writers(s)' = Writers(s)
  BY DEF StoreValue, Storing, Writers, IInv, TypeOK
<1>5. CASE Apart(s)'
  <2>1. Apart(s) /\ Writers(s) = {}
    BY <1>5 DEF StoreValue, Apart, Writers, Storing
  <2>2. FileOf(s)' = FileOf(s)
    BY <1>4, <2>1 DEF FileOf
  <2>3. SavingHere' = SavingHere /\ Mixed' = Mixed
    <3>1. s \notin SavingHere /\ s \notin Mixed
      BY <2>1, Seen
    <3>2. s \notin SavingHere' /\ s \notin Mixed'
      BY <1>4, <1>5, <2>1, SeenPrimed
    <3> QED BY <1>2, <3>1, <3>2
  <2>4. ValueKept' = ValueKept
    <3>1. ValueKept'[s] = ValueKept[s]
      BY <1>5, <2>1, <2>2 DEF ValueKept, Having, Load
    <3>2. ValueKept = [r \in PlatformSettings |-> ValueKept[r]]
      BY DEF ValueKept
    <3> QED BY <1>2, <3>1, <3>2
  <2>5. ASSUME k \in Having(s) PROVE UnsavedHere' = UnsavedHere \cup {<<s, k>>}
    <3>1. UnsavedHere \cup {<<s, k>>} \in SUBSET (PlatformSettings \X Keys)
      BY UnsavedPairs DEF IInv
    <3>2. \A j \in Keys : <<s, j>> \in UnsavedHere \cup {<<s, k>>} <=>
              Apart(s)' /\ j \in Having(s) /\ <<s, j>> \in unsaved'
      BY <1>5, <2>1, <2>5, UnsavedPairs DEF StoreValue, IInv
    <3>3. \A r \in PlatformSettings \ {s}, j \in Keys :
              <<r, j>> \in UnsavedHere \cup {<<s, k>>} <=> <<r, j>> \in UnsavedHere
      OBVIOUS
    <3> QED BY <1>1, <3>1, <3>2, <3>3, UnsavedBecomes DEF IInv
  <2>6. ASSUME k \notin Having(s) PROVE UnsavedHere' = UnsavedHere
    <3>1. \A j \in Keys : <<s, j>> \in UnsavedHere <=>
              Apart(s)' /\ j \in Having(s) /\ <<s, j>> \in unsaved'
      BY <1>5, <2>1, <2>6, UnsavedPairs DEF StoreValue, IInv
    <3> QED BY <1>1, <3>1, UnsavedPairs, UnsavedBecomes DEF IInv
  <2>7. CASE k \in Having(s)
    <3>1. k \in DOMAIN ConfiguredValue[s]
      BY <2>7, Seen
    <3>2. Promise!Receive
      BY <1>3, <2>3, <2>4, <2>5, <2>7, <3>1 DEF Promise!Receive, Mixed
    <3> QED BY <3>2 DEF Promise!Next
  <2>8. CASE k \notin Having(s)
    BY <1>3, <2>3, <2>4, <2>6, <2>8 DEF Promise!Next, Promise!Receive, Mixed
  <2> QED BY <2>7, <2>8
<1>6. CASE ~Apart(s)'
  <2>1. Mixed' = Mixed \cup {s} /\ SavingHere' = SavingHere \ {s}
    BY <1>2, <1>6, SeenPrimed
  <2>2. ValueKept' = [ValueKept EXCEPT ![s] = ConfiguredValue[s]]
    BY <1>2, <1>6, SeenPrimed
  <2>3. UnsavedHere' = UnsavedHere \ Promise!Pairs(s)
    <3> DEFINE Rest == UnsavedHere \ ({s} \X Having(s))
    <3>1. Rest \in SUBSET (PlatformSettings \X Keys)
      BY UnsavedPairs DEF IInv
    <3>2. \A j \in Keys : <<s, j>> \in Rest <=>
              Apart(s)' /\ j \in Having(s) /\ <<s, j>> \in unsaved'
      BY <1>6, UnsavedPairs DEF IInv
    <3>3. \A r \in PlatformSettings \ {s}, j \in Keys :
              <<r, j>> \in Rest <=> <<r, j>> \in UnsavedHere
      OBVIOUS
    <3>4. UnsavedHere' = Rest
      <4> HIDE DEF Rest
      <4> QED BY <1>1, <3>1, <3>2, <3>3, UnsavedBecomes DEF IInv
    <3> QED BY <3>4, Seen
  <2>4. Promise!Overlap(s)
    BY <2>1, <2>2, <2>3 DEF Promise!Overlap, Mixed
  <2>5. CASE k \in Having(s)
    <3>1. k \in DOMAIN ConfiguredValue[s]
      BY <2>5, Seen
    <3>2. Promise!Receive
      BY <1>3, <2>4, <2>5, <3>1 DEF Promise!Receive
    <3> QED BY <3>2 DEF Promise!Next
  <2>6. CASE k \notin Having(s)
    BY <1>3, <2>4, <2>6 DEF Promise!Next, Promise!Receive
  <2> QED BY <2>5, <2>6
<1> QED BY <1>5, <1>6

(* Nothing of the settings changes, with or without a reading. *)
LEMMA PromiseOther ==
    ASSUME IInv, IInv', \A r \in PlatformSettings : SameSetting(r),
           updates' \in {updates, updates + 1}
    PROVE  [Promise!Next]_Promise!vars
<1>1. UNCHANGED <<ValueInForce, ValueKept, UnsavedHere, SavingHere, Mixed>>
  BY AllSameView DEF IInv
<1>2. CASE updates' = updates
  BY <1>1, <1>2 DEF Promise!vars, Mixed
<1>3. CASE updates' = updates + 1
  BY <1>1, <1>3 DEF Promise!Next, Promise!Receive, Mixed
<1> QED BY <1>2, <1>3

(* What a step that is about one setting leaves alone, if it does of that. *)
LEMMA OneSettingSame ==
    ASSUME TypeOK, TypeOK', NEW s \in PlatformSettings, OthersSame(s)
    PROVE  /\ (\A j \in Having(s) : ValueKept'[s][j] = ValueKept[s][j])
                  => ValueKept' = ValueKept
           /\ (s \in SavingHere' <=> s \in SavingHere) => SavingHere' = SavingHere
<1>1. ASSUME \A j \in Having(s) : ValueKept'[s][j] = ValueKept[s][j]
      PROVE  ValueKept' = ValueKept
  <2>1. /\ ValueKept[s] = [j \in Having(s) |-> ValueKept[s][j]]
        /\ ValueKept'[s] = [j \in Having(s) |-> ValueKept'[s][j]]
    BY Seen, SeenPrimed
  <2>2. ValueKept'[s] = ValueKept[s]
    BY <1>1, <2>1
  <2>3. ValueKept = [r \in PlatformSettings |-> ValueKept[r]]
    BY DEF ValueKept
  <2> QED BY <2>2, <2>3, OthersView
<1>2. ASSUME s \in SavingHere' <=> s \in SavingHere PROVE SavingHere' = SavingHere
  <2>1. SavingHere' \ {s} = SavingHere \ {s}
    BY OthersView
  <2> QED BY <1>2, <2>1
<1> QED BY <1>1, <1>2

(* A step of storeValue() for a setting of the platform's. *)
LEMMA PromiseStoreStep ==
    ASSUME IInv, IInv', AllSound, NEW t \in Threads, Store(t),
           NEW s \in PlatformSettings, NEW k \in Keys, NEW text \in Texts,
           call[t] = <<s, k, text>>
    PROVE  [Promise!Next]_Promise!vars
<1> s \in Settings
  BY Seen
<1> USE DEF Mixed
<1>1. /\ Storing(t) /\ StoreFrame
      /\ disk \in SettingMaps /\ json[t] \in ValueMaps
      /\ call[t][1] = s /\ call[t][2] = k /\ call[t][3] = text
  <2>1. Storing(t) /\ StoreFrame
    BY DEF Store, ReadFile, OpenFile, WriteInPart, WriteFile, InStore, Storing
  <2>2. disk \in SettingMaps /\ json[t] \in ValueMaps
    BY DEF IInv, TypeOK, SettingMaps, ValueMaps
  <2> QED BY <2>1, <2>2
<1>2. OthersSame(s) /\ TypeOK /\ TypeOK'
  BY <1>1, StoreOthers DEF OthersSame, PlatformSettings, Settings, IInv
<1>3. /\ memory' = memory /\ overlapped' = overlapped /\ updates' = updates
      /\ ValueInForce' = ValueInForce /\ Mixed' = Mixed /\ (Apart(s)' <=> Apart(s))
  BY <1>1 DEF StoreFrame, ValueInForce, Having, Apart
<1>4. CASE ~Apart(s)
  <2>1. ValueKept' = ValueKept
    <3>1. \A j \in Having(s) : ValueKept'[s][j] = ValueKept[s][j]
      BY <1>3, <1>4, Seen, SeenPrimed
    <3> QED BY <1>2, <3>1, OneSettingSame
  <2>2. SavingHere' = SavingHere
    BY <1>2, <1>3, <1>4, Seen, SeenPrimed, OneSettingSame
  <2>3. UnsavedHere' = UnsavedHere
    <3>1. \A j \in Keys : <<s, j>> \in UnsavedHere <=>
              Apart(s)' /\ j \in Having(s) /\ <<s, j>> \in unsaved'
      BY <1>2, <1>3, <1>4, UnsavedPairs
    <3> QED BY <1>2, <3>1, UnsavedPairs, UnsavedBecomes
  <2> QED BY <1>3, <2>1, <2>2, <2>3 DEF Promise!vars
<1>5. CASE Apart(s)
  <2>1. SoundStore(t, s, k, text) /\ Coherent(s)
    BY <1>1, <1>5 DEF AllSound, Sound
  <2>2. /\ \A u \in Threads \ {t} : ~(Storing(u) /\ call[u][1] = s)
        /\ \A u \in Threads \ {t} :
              job'[u] = job[u] /\ call'[u] = call[u] /\ json'[u] = json[u]
    BY <2>1 DEF SoundStore, IInv, TypeOK, Store, ReadFile, OpenFile, WriteInPart,
                WriteFile, StoreReturn, locals
  <2>3. \A u \in Threads \ {t} : u \notin Writers(s) /\ u \notin Writers(s)'
    BY <2>2 DEF Writers, Storing
  <2>4. CASE ReadFile(t)
    <3>1. /\ job[t] = "read" /\ job'[t] = "open" /\ UNCHANGED <<disk, call>>
          /\ unsaved' \in {unsaved, unsaved \cup ({s} \X Keys)}
      BY <1>1, <2>4 DEF ReadFile, InStore, IInv, TypeOK
    <3>2. Writers(s) = {} /\ Writers(s)' = {}
      BY <2>3, <3>1 DEF Writers
    <3>3. ValueKept' = ValueKept /\ SavingHere' = SavingHere
      <4>1. FileOf(s) = disk[s] /\ FileOf(s)' = disk[s]
        BY <3>1, <3>2 DEF FileOf
      <4>2. \A j \in Having(s) : ValueKept'[s][j] = ValueKept[s][j]
        BY <1>3, <1>5, <4>1 DEF ValueKept, Having, Load
      <4> QED BY <1>2, <1>3, <3>2, <4>2, Seen, SeenPrimed, OneSettingSame
    <3>4. CASE unsaved' = unsaved
      <4>1. \A j \in Keys : <<s, j>> \in UnsavedHere <=>
                Apart(s)' /\ j \in Having(s) /\ <<s, j>> \in unsaved'
        BY <1>2, <1>3, <3>4, UnsavedPairs
      <4>2. UnsavedHere' = UnsavedHere
        BY <1>2, <4>1, UnsavedPairs, UnsavedBecomes
      <4> QED BY <1>3, <3>3, <4>2 DEF Promise!vars
    <3>5. CASE unsaved' = unsaved \cup ({s} \X Keys)
      <4>1. UnsavedHere' = UnsavedHere \cup Promise!Pairs(s)
        BY <1>2, <1>3, <1>5, <3>5, UnsavedFilled
      <4>2. Promise!Doubt(s)
        BY <1>3, <1>5, <3>3, <4>1, Seen DEF Promise!Doubt
      <4> QED BY <4>2 DEF Promise!Next
    <3> QED BY <3>1, <3>4, <3>5
  <2>5. CASE OpenFile(t)
    <3>1. job[t] = "open" /\ Writers(s) = {} /\ FileOf(s) = disk[s]
      <4>1. job[t] = "open"
        BY <2>5 DEF OpenFile, InStore
      <4>2. Writers(s) = {}
        BY <2>3, <4>1 DEF Writers
      <4> QED BY <4>1, <4>2 DEF FileOf
    <3>2. CASE /\ job'[t] = "write" /\ disk'[s] = NoValues
               /\ unsaved' = unsaved \ {<<s, k>>} /\ UNCHANGED locals
      <4>1. Writers(s)' = {t} /\ FileOf(s)' = json[t]
        <5>1. Writers(s)' = {t}
          BY <1>1, <2>3, <3>2 DEF Writers, locals
        <5> QED BY <3>2, <5>1 DEF FileOf, locals
      <4> DEFINE K == {k} \cap Having(s)
      <4>2. /\ s \notin Mixed /\ s \notin SavingHere
            /\ SavingHere' = SavingHere \cup {s}
        BY <1>2, <1>3, <1>5, <3>1, <4>1, Seen, SeenPrimed, OthersView
      <4>3. /\ ValueKept' = [ValueKept EXCEPT ![s] = ValueKept'[s]]
            /\ DOMAIN ValueKept'[s] = DOMAIN ConfiguredValue[s]
        BY <1>2, OthersView, Seen, SeenPrimed
      <4>4. ASSUME NEW j \in DOMAIN ConfiguredValue[s]
            PROVE  IF j \in K THEN ValueKept'[s][j] = ValueInForce[s][j]
                   ELSE \/ ValueKept'[s][j] = ValueKept[s][j]
                        \/ /\ <<s, j>> \in UnsavedHere
                           /\ ValueKept'[s][j] = ConfiguredValue[s][j]
        <5>1. /\ j \in Having(s) /\ j \in Keys /\ j \in Mappings
              /\ Configured[s][j] # Absent
          BY Seen DEF Having
        <5>2. /\ ValueKept'[s][j] = Load(s, json[t])[j]
              /\ ValueKept[s][j] = Load(s, disk[s])[j]
          BY <1>3, <1>5, <3>1, <4>1, <5>1 DEF ValueKept, Having, Load
        <5>3. CASE j = k
          <6>1. json[t][j] = text /\ memory[s][j] = text /\ text # Absent
            BY <2>1, <3>1, <5>3, NumbersAssumption DEF SoundStore, Texts
          <6>2. ValueInForce[s][j] = text
            BY <5>1, <6>1 DEF ValueInForce
          <6>3. ValueKept'[s][j] = text
            BY <5>1, <5>2, <6>1 DEF Load
          <6> QED BY <5>1, <5>3, <6>2, <6>3
        <5>4. CASE j # k
          <6>1. CASE json[t][j] = disk[s][j]
            BY <5>1, <5>2, <5>4, <6>1 DEF Load
          <6>2. CASE json[t][j] = Absent /\ <<s, j>> \in unsaved
            <7>1. <<s, j>> \in UnsavedHere
              BY <1>2, <1>5, <5>1, <6>2, UnsavedPairs
            <7>2. ValueKept'[s][j] = Configured[s][j]
              BY <5>1, <5>2, <6>2 DEF Load
            <7>3. ConfiguredValue[s][j] = Configured[s][j]
              BY <5>1 DEF ConfiguredValue
            <7> QED BY <5>4, <7>1, <7>2, <7>3
          <6> QED BY <2>1, <3>1, <5>1, <5>4, <6>1, <6>2 DEF SoundStore
        <5> QED BY <5>3, <5>4
      <4>5. UnsavedHere' = UnsavedHere \ ({s} \X K)
        <5> DEFINE Rest == UnsavedHere \ ({s} \X K)
        <5>1. Rest \in SUBSET (PlatformSettings \X Keys)
          BY <1>2, UnsavedPairs
        <5>2. \A j \in Keys : <<s, j>> \in Rest <=>
                  Apart(s)' /\ j \in Having(s) /\ <<s, j>> \in unsaved'
          BY <1>2, <1>3, <1>5, <3>2, UnsavedPairs
        <5>3. \A r \in PlatformSettings \ {s}, j \in Keys :
                  <<r, j>> \in Rest <=> <<r, j>> \in UnsavedHere
          OBVIOUS
        <5>4. UnsavedHere' = Rest
          <6> HIDE DEF Rest
          <6> QED BY <1>2, <5>1, <5>2, <5>3, UnsavedBecomes
        <5> QED BY <5>4
      <4>6. K \in SUBSET DOMAIN ConfiguredValue[s]
        BY Seen
      <4> HIDE DEF K
      <4>7. Promise!Save(s, K)
        BY <1>3, <4>2, <4>3, <4>4, <4>5 DEF Promise!Save
      <4> QED BY <4>6, <4>7 DEF Promise!Next
    <3>3. CASE StoreReturn(t) /\ UNCHANGED <<disk, unsaved>>
      <4>1. Writers(s)' = {} /\ FileOf(s)' = disk[s]
        <5>1. Writers(s)' = {}
          BY <1>2, <2>3, <3>3 DEF StoreReturn, Writers, TypeOK
        <5> QED BY <3>3, <5>1 DEF FileOf
      <4>2. \A j \in Having(s) : ValueKept'[s][j] = ValueKept[s][j]
        BY <1>3, <1>5, <3>1, <4>1 DEF ValueKept, Having, Load
      <4>3. ValueKept' = ValueKept /\ SavingHere' = SavingHere
        BY <1>2, <1>3, <3>1, <4>1, <4>2, Seen, SeenPrimed, OneSettingSame
      <4>4. \A j \in Keys : <<s, j>> \in UnsavedHere <=>
                Apart(s)' /\ j \in Having(s) /\ <<s, j>> \in unsaved'
        BY <1>2, <1>3, <3>3, UnsavedPairs
      <4>5. UnsavedHere' = UnsavedHere
        BY <1>2, <4>4, UnsavedPairs, UnsavedBecomes
      <4> QED BY <1>3, <4>3, <4>5 DEF Promise!vars
    <3> QED BY <1>1, <1>2, <2>5, <3>2, <3>3 DEF OpenFile, TypeOK
  <2>6. ~WriteInPart(t)
    BY <1>1, <2>1 DEF WriteInPart, InStore, SoundStore
  <2>7. CASE WriteFile(t)
    <3>1. job[t] = "write" /\ StoreReturn(t)
      BY <2>7 DEF WriteFile, InStore
    <3>2. Writers(s) = {t} /\ FileOf(s) = json[t]
      <4>1. Writers(s) = {t}
        BY <1>1, <2>3, <3>1 DEF Writers
      <4> QED BY <4>1 DEF FileOf
    <3>3. Writers(s)' = {} /\ FileOf(s)' = disk'[s]
      <4>1. Writers(s)' = {}
        BY <1>2, <2>3, <3>1 DEF StoreReturn, Writers, TypeOK
      <4> QED BY <4>1 DEF FileOf
    <3>4. s \in SavingHere /\ SavingHere' = SavingHere \ {s}
      BY <1>2, <1>3, <1>5, <3>2, <3>3, Seen, SeenPrimed, OthersView
    <3>5. CASE disk'[s] = json[t] /\ unsaved' = unsaved
      <4>1. ValueKept' = ValueKept
        <5>1. \A j \in Having(s) : ValueKept'[s][j] = ValueKept[s][j]
          BY <1>3, <1>5, <3>2, <3>3, <3>5 DEF ValueKept, Having, Load
        <5> QED BY <1>2, <5>1, OneSettingSame
      <4>2. \A j \in Keys : <<s, j>> \in UnsavedHere <=>
                Apart(s)' /\ j \in Having(s) /\ <<s, j>> \in unsaved'
        BY <1>2, <1>3, <3>5, UnsavedPairs
      <4>3. UnsavedHere' = UnsavedHere
        BY <1>2, <4>2, UnsavedPairs, UnsavedBecomes
      <4>4. Promise!Saved(s)
        BY <1>3, <3>4, <4>1, <4>3 DEF Promise!Saved
      <4> QED BY <4>4 DEF Promise!Next
    <3>6. CASE disk'[s] = NoValues /\ unsaved' = unsaved \cup ({s} \X Keys)
      <4>1. UnsavedHere' = UnsavedHere \cup Promise!Pairs(s)
        BY <1>2, <1>3, <1>5, <3>6, UnsavedFilled
      <4>2. ValueKept' = [ValueKept EXCEPT ![s] = ConfiguredValue[s]]
        <5>1. \A j \in Having(s) : ValueKept'[s][j] = Configured[s][j]
          BY <1>3, <1>5, <3>3, <3>6 DEF ValueKept, Having, Load, NoValues, Keys
        <5>2. /\ ConfiguredValue[s] = [j \in Having(s) |-> Configured[s][j]]
              /\ ValueKept'[s] = [j \in Having(s) |-> ValueKept'[s][j]]
          BY Seen, SeenPrimed
        <5>3. ValueKept'[s] = ConfiguredValue[s]
          BY <5>1, <5>2
        <5> QED BY <1>2, <5>3, OthersView
      <4>3. Promise!Doubt(s)
        BY <1>3, <1>5, <3>4, <4>1, <4>2, Seen DEF Promise!Doubt
      <4> QED BY <4>3 DEF Promise!Next
    <3> QED BY <1>1, <2>7, <3>5, <3>6 DEF WriteFile, SettingMaps
  <2> QED BY <2>4, <2>5, <2>6, <2>7 DEF Store
<1> QED BY <1>4, <1>5

(* A step of storeValue(). *)
LEMMA PromiseStore ==
    ASSUME IInv, IInv', AllSound, NEW t \in Threads, Store(t)
    PROVE  [Promise!Next]_Promise!vars
<1>1. Storing(t) /\ updates' = updates
  BY DEF Store, ReadFile, OpenFile, WriteInPart, WriteFile, InStore, Storing, StoreFrame
<1> PICK s \in Settings, k \in Keys, text \in Texts : call[t] = <<s, k, text>>
  BY <1>1, CallType DEF IInv
<1>2. CASE s \in PlatformSettings
  BY <1>2, PromiseStoreStep
<1>3. CASE s \notin PlatformSettings
  <2>1. \A r \in PlatformSettings : SameSetting(r)
    BY <1>3, StoreOthers DEF IInv, PlatformSettings, Settings
  <2> QED BY <1>1, <2>1, PromiseOther
<1> QED BY <1>2, <1>3

(* initialize() brings back what is kept. *)
LEMMA PromiseRelaunch ==
    ASSUME IInv, AllSound, Initialize
    PROVE  Promise!Next
<1>1. ASSUME NEW s \in PlatformSettings
      PROVE  Writers(s)' = {} /\ FileOf(s)' = disk[s] /\ Apart(s)'
  <2>1. ASSUME NEW t \in Threads PROVE ~(job'[t] = "write")
    BY DEF Initialize
  <2>2. Writers(s)' = {}
    BY <2>1 DEF Writers
  <2> QED BY <2>2 DEF FileOf, Apart, Initialize
<1>2. UnsavedHere' = {} /\ SavingHere' = {} /\ Mixed' = {} /\ updates' = updates
  BY <1>1 DEF Initialize, UnsavedHere, SavingHere, Mixed
<1>3. ASSUME NEW s \in PlatformSettings, NEW k \in Having(s)
      PROVE  /\ ValueInForce'[s][k] = Load(s, disk[s])[k]
             /\ ValueKept'[s][k] = Load(s, disk[s])[k]
  <2>1. ValueInForce'[s][k] = Load(s, disk[s])[k]
    BY Seen DEF Initialize, ValueInForce, Effective, Having
  <2>2. ValueKept'[s][k] = Load(s, disk[s])[k]
    BY <1>1, SeenPrimed
  <2> QED BY <2>1, <2>2
<1>4. ValueKept' = ValueInForce'
  <2>1. IsView(ValueKept') /\ IsView(ValueInForce')
    BY ViewsPrimed
  <2> QED BY <1>3, <2>1 DEF IsView
<1>5. DOMAIN ValueInForce' = PlatformSettings
  BY DEF ValueInForce
<1>6. ASSUME NEW s \in PlatformSettings
      PROVE  IF s \in Mixed
             THEN ValueInForce'[s] \in [DOMAIN ConfiguredValue[s] -> Texts]
             ELSE ValueInForce'[s] = IF s \in SavingHere THEN ConfiguredValue[s]
                                     ELSE ValueKept[s]
  <2>1. ValueInForce'[s] = [k \in Having(s) |-> ValueInForce'[s][k]]
    BY DEF ValueInForce, Having
  <2>2. CASE s \in Mixed
    <3>1. \A k \in Having(s) : ValueInForce'[s][k] \in Texts
      <4> TAKE k \in Having(s)
      <4>1. k \in Keys /\ k \in Mappings /\ s \in Settings /\ Configured[s][k] # Absent
        BY Seen DEF Having
      <4>2. Configured[s][k] \in Texts /\ disk[s][k] \in Texts \cup {Absent}
        BY <4>1, ConfiguredAssumption DEF IInv, TypeOK
      <4> QED BY <1>3, <4>1, <4>2 DEF Load
    <3> QED BY <2>1, <2>2, <3>1, Seen
  <2>3. CASE s \notin Mixed /\ s \in SavingHere
    <3>1. disk[s] = NoValues
      <4>1. PICK t \in Threads : job[t] = "write" /\ call[t][1] = s
        <5>1. Writers(s) # {}
          BY <2>3, Seen
        <5> QED BY <5>1 DEF Writers
      <4>2. Storing(t) /\ Apart(s)
        BY <2>3, <4>1, Seen DEF Storing
      <4>3. SoundStore(t, s, call[t][2], call[t][3])
        BY <4>1, <4>2, Seen DEF AllSound, Sound
      <4> QED BY <4>1, <4>3 DEF SoundStore
    <3>2. \A k \in Having(s) : ValueInForce'[s][k] = Configured[s][k]
      BY <1>3, <3>1, Seen DEF Load, Having, NoValues
    <3>3. ConfiguredValue[s] = [k \in Having(s) |-> Configured[s][k]]
      BY Seen
    <3> QED BY <2>1, <2>3, <3>2, <3>3
  <2>4. CASE s \notin Mixed /\ s \notin SavingHere
    <3>1. Writers(s) = {} /\ Apart(s)
      BY <2>4, Seen
    <3>2. \A k \in Having(s) : ValueKept[s][k] = Load(s, disk[s])[k]
      <4>1. FileOf(s) = disk[s]
        BY <3>1, FileOfNone
      <4>2. \A k \in Having(s) : ValueKept[s][k] = Load(s, FileOf(s))[k]
        BY <3>1, Seen
      <4> QED BY <4>1, <4>2
    <3>3. \A k \in Having(s) : ValueInForce'[s][k] = ValueKept[s][k]
      BY <1>3, <3>2
    <3>4. ValueKept[s] = [k \in Having(s) |-> ValueKept[s][k]]
      BY Seen
    <3> QED BY <2>1, <2>4, <3>3, <3>4
  <2> QED BY <2>2, <2>3, <2>4
<1>7. Promise!Relaunch
  BY <1>2, <1>4, <1>5, <1>6 DEF Promise!Relaunch, Mixed
<1> QED BY <1>7 DEF Promise!Next

(* Every step is one of the store's, or none. *)
LEMMA PromiseStep ==
    ASSUME IInv, IInv', AllSound, [Next]_bridgeVars
    PROVE  [Promise!Next]_Promise!vars
<1>1. ASSUME UNCHANGED <<memory, disk, locals, unsaved, overlapped>>,
             updates' \in {updates, updates + 1},
             \A u \in Threads : job'[u] = job[u] \/ (~Storing(u) /\ ~Storing(u)')
      PROVE  [Promise!Next]_Promise!vars
  <2>1. \A r \in PlatformSettings : SameSetting(r)
    BY <1>1, QuietSame, Seen DEF IInv
  <2> QED BY <1>1, <2>1, PromiseOther
<1>2. ASSUME NEW t \in Threads,
             \/ Start(t) \/ StartReturn(t) \/ Stop(t) \/ StatusReturn(t)
             \/ \E s \in Statuses \ {"NONE"} : PlatformStatus(t, s)
             \/ \E k \in Keys : WriteEntry(t, k)
      PROVE  [Promise!Next]_Promise!vars
  <2>1. UNCHANGED <<memory, disk, locals, unsaved, overlapped, updates>>
    BY <1>2 DEF Start, StartReturn, Stop, StatusReturn, PlatformStatus, WriteEntry,
                history
  <2>2. \A u \in Threads : job'[u] = job[u] \/ (~Storing(u) /\ ~Storing(u)')
    BY <1>2 DEF Start, StartReturn, Stop, StatusReturn, PlatformStatus, WriteEntry,
                Storing, IInv, TypeOK
  <2> QED BY <1>1, <2>1, <2>2
<1>3. ASSUME NEW t \in Threads, HandleUpdate(t) PROVE [Promise!Next]_Promise!vars
  <2> PICK k \in Keys, text \in Inputs :
          \/ \E s \in Settings : HandleValueReading(t, s, k, text)
          \/ HandleRepeatWriteReading(t, k, text)
          \/ HandleFeedReading(t, k, text)
    BY <1>3 DEF HandleUpdate
  <2>1. ASSUME NEW s \in Settings, HandleValueReading(t, s, k, text)
        PROVE  [Promise!Next]_Promise!vars
    <3>1. s \in PlatformSettings /\ ~Storing(t)
      BY <2>1 DEF HandleValueReading, Handle, PlatformSettings, Storing
    <3> QED BY <2>1, <3>1, PromiseAssign DEF HandleValueReading, Handle
  <2>2. CASE HandleRepeatWriteReading(t, k, text)
    <3>1. ~Storing(t) /\ updates' = updates + 1 /\ UNCHANGED <<disk, json>>
      BY <2>2 DEF HandleRepeatWriteReading, Handle, Storing
    <3>2. CASE Insert("RPW", k, 0) /\ StoreValue(t, "RPW", k, text)
      <4>1. \A r \in PlatformSettings : SameSetting(r)
        BY <3>1, <3>2, AssignOthers DEF PlatformSettings, Settings, IInv
      <4> QED BY <3>1, <4>1, PromiseOther
    <3>3. CASE UNCHANGED <<job, call, unsaved, overlapped>>
      <4>1. \A r \in PlatformSettings : memory'[r] = memory[r]
        BY <2>2 DEF HandleRepeatWriteReading, Insert, IInv, TypeOK, PlatformSettings,
                    Settings
      <4>2. \A r \in PlatformSettings : SameSetting(r)
        BY <3>1, <3>3, <4>1 DEF SameSetting, SameStores, Storing
      <4> QED BY <3>1, <4>2, PromiseOther
    <3> QED BY <2>2, <3>2, <3>3 DEF HandleRepeatWriteReading
  <2>3. CASE HandleFeedReading(t, k, text)
    BY <1>1, <2>3 DEF HandleFeedReading, Handle, locals
  <2> QED BY <2>1, <2>2, <2>3
<1>4. ASSUME NEW t \in Threads, Store(t) PROVE [Promise!Next]_Promise!vars
  BY <1>4, PromiseStore
<1>5. CASE Kill
  BY <1>1, <1>5 DEF Kill, history
<1>6. CASE Initialize
  BY <1>6, PromiseRelaunch
<1>7. CASE UNCHANGED bridgeVars
  BY <1>1, <1>7 DEF bridgeVars, history
<1> QED BY <1>2, <1>3, <1>4, <1>5, <1>6, <1>7 DEF Next

(* The bridge, its files written in steps that fail or are cut short,      *)
(* implements the store of settings the platform relies on: a death loses   *)
(* of a setting what is unsaved and, while its file is open, the rest.     *)
THEOREM ImplementsSettingsStore == Spec => IsSettingsStore
<1>1. IInv /\ IInv' /\ AllSound /\ [Next]_bridgeVars => [Promise!Next]_Promise!vars
  BY PromiseStep
<1>2. IInv /\ AllSound /\ [Next]_bridgeVars => AllSound'
  BY NextSound
<1> QED
  BY <1>1, <1>2, PromiseInit, InitSound, BridgeInvariant, PTL
     DEF Spec, IsSettingsStore, Promise!Spec
=============================================================================
