------------------------- MODULE ModbusModuleProofs -------------------------
(***************************************************************************)
(* The composed module behaves like each of its components: what is proved *)
(* of them alone holds of them in the module.                              *)
(***************************************************************************)
EXTENDS ModbusModule, TLAPS

(* Every step of the module is a step of the StateHandler, or leaves its    *)
(* state alone.                                                             *)
LEMMA LifeStep == [Next]_vars => [Life!Next]_(Life!lifeVars)
<1> SUFFICES ASSUME [Next]_vars PROVE [Life!Next]_(Life!lifeVars)
  OBVIOUS
<1>1. ASSUME NEW t \in Threads,
             \/ CallStart(t) \/ ReturnFromStart(t) \/ CallStop(t)
             \/ CallPlatformStatus(t) \/ ReturnFromPlatformStatus(t)
             \/ Statement(t)
      PROVE  Life!Next
  <2>1. Life!Statement(t)
    BY <1>1 DEF CallStart, ReturnFromStart, CallStop, CallPlatformStatus,
                ReturnFromPlatformStatus, Statement, Life!Statement
  <2> QED BY <2>1 DEF Life!Next
<1>2. ASSUME NEW t \in Threads, Enter(t) PROVE Life!Next
  BY <1>2 DEF Enter, Life!Next
<1>3. ASSUME NEW t \in Threads, WriteEntry(t)
      PROVE  UNCHANGED Life!lifeVars
  BY <1>3 DEF WriteEntry, Bridge!WriteEntry, lifeOwn, Life!lifeVars
<1>4. ASSUME NEW t \in Threads, Readings(t) \/ Store(t)
      PROVE  UNCHANGED Life!lifeVars
  <2>1. CASE Readings(t)
    <3>1. running' = running
      BY <2>1 DEF Readings, Bridge!HandleUpdate, Bridge!HandleValueReading,
                  Bridge!HandleRepeatWriteReading, Bridge!HandleFeedReading,
                  Bridge!Handle
    <3> QED BY <2>1, <3>1 DEF Readings, lifeOwn, Life!lifeVars
  <2>2. CASE Store(t)
    <3>1. running' = running
      BY <2>2 DEF Store, Bridge!Store, Bridge!ReadFile, Bridge!OpenFile,
                  Bridge!WriteInPart, Bridge!WriteFile, Bridge!StoreFrame
    <3> QED BY <2>2, <3>1 DEF Store, lifeOwn, Life!lifeVars
  <2> QED BY <1>4, <2>1, <2>2
<1>5. CASE Main
  BY <1>5 DEF Main, Life!Next
<1>6. CASE Kill
  BY <1>6 DEF Kill, Bridge!Kill, lifeOwn, Life!lifeVars
<1>7. CASE Relaunch
  BY <1>7 DEF Relaunch, Life!Next
<1>8. CASE UNCHANGED vars
  BY <1>8 DEF vars, lifeOwn, Life!lifeVars
<1> QED
  BY <1>1, <1>2, <1>3, <1>4, <1>5, <1>6, <1>7, <1>8 DEF Next, InCallback

(* The module is a StateHandler, so StateHandlerProofs speaks of it.       *)
LEMMA LifeHere == Spec => Life!Spec
<1>1. Init => Life!Init
  BY DEF Init
<1> QED BY <1>1, LifeStep, PTL DEF Spec, Life!Spec

-----------------------------------------------------------------------------
(* Which callback a thread can be in at a statement: when it calls          *)
(* platformStatus() of the bridge, it has a status to pass on.              *)

CallersMatch ==
    /\ pc \in [Threads -> Life!Labels]
    /\ caller \in [Threads -> Life!Callers]
    /\ \A t \in Threads :
        /\ pc[t] \in {"stop", "readRegistered"}
            => caller[t] \in {"listener", "CONNECTED", "OFFLINE"}
        /\ pc[t] \in {"start", "starting"}
            => caller[t] \in {"listener", "registration", "CONNECTED", "OFFLINE"}
        /\ pc[t] = "readConnected" => caller[t] = "registration"
        /\ pc[t] = "status" => caller[t] \in {"CONNECTED", "OFFLINE"}

(* Every step of the StateHandler preserves it. *)
LEMMA CallersStep ==
    CallersMatch /\ [Life!Next]_(Life!lifeVars) => CallersMatch'
<1> SUFFICES ASSUME CallersMatch, [Life!Next]_(Life!lifeVars)
             PROVE  CallersMatch'
  OBVIOUS
<1> USE DEF CallersMatch, Life!Labels, Life!Callers, Life!Statuses,
            Life!Enter, Life!Goto, Life!Return
<1>1. ASSUME NEW t \in Threads, Life!Callback(t) PROVE CallersMatch'
  <2>1. ASSUME NEW up \in BOOLEAN, Life!ConnectionChanged(t, up)
        PROVE  CallersMatch'
    BY <2>1 DEF Life!ConnectionChanged
  <2>2. ASSUME NEW s \in Life!Statuses \ {"NONE"}, Life!PlatformStatus(t, s)
        PROVE  CallersMatch'
    BY <2>2 DEF Life!PlatformStatus
  <2>3. ASSUME NEW all \in BOOLEAN, Life!RegistrationResult(t, all)
        PROVE  CallersMatch'
    BY <2>3 DEF Life!RegistrationResult
  <2> QED BY <1>1, <2>1, <2>2, <2>3 DEF Life!Callback
<1>2. ASSUME NEW t \in Threads, Life!Statement(t) PROVE CallersMatch'
  <2>1. CASE Life!Stop(t) \/ Life!ReadRegistered(t)
    BY <2>1 DEF Life!Stop, Life!ReadRegistered, Life!AfterChange
  <2>2. CASE Life!ReadConnected(t)
    BY <2>2 DEF Life!ReadConnected
  <2>3. CASE Life!Start(t)
    BY <2>3 DEF Life!Start
  <2>4. CASE Life!StartReturn(t)
    BY <2>4 DEF Life!StartReturn, Life!AfterChange
  <2>5. CASE Life!Status(t) \/ Life!StatusReturn(t)
    BY <2>5 DEF Life!Status, Life!StatusReturn
  <2>6. CASE Life!Notify(t)
    BY <2>6 DEF Life!Notify
  <2>7. CASE Life!CheckRegistered(t)
    BY <2>7 DEF Life!CheckRegistered
  <2>8. CASE Life!Retry(t)
    BY <2>8 DEF Life!Retry
  <2> QED
    BY <1>2, <2>1, <2>2, <2>3, <2>4, <2>5, <2>6, <2>7, <2>8 DEF Life!Statement
<1>3. CASE Life!Main
  BY <1>3 DEF Life!Main, Life!MainReadConnected, Life!MainReadRegistered,
              Life!MainPublish
<1>4. CASE Life!Restart
  <2>1. pc' \in [Threads -> Life!Labels] /\ caller' \in [Threads -> Life!Callers]
    BY <1>4 DEF Life!Restart
  <2> QED BY <1>4, <2>1 DEF Life!Restart
<1>5. CASE UNCHANGED Life!lifeVars
  BY <1>5 DEF Life!lifeVars
<1> QED BY <1>1, <1>2, <1>3, <1>4, <1>5 DEF Life!Next

(* The calls the StateHandler makes are calls the bridge expects. *)
LEMMA BridgeStep ==
    CallersMatch /\ [Next]_vars => [Bridge!Next]_(Bridge!bridgeVars)
<1> SUFFICES ASSUME CallersMatch, [Next]_vars
             PROVE  [Bridge!Next]_(Bridge!bridgeVars)
  OBVIOUS
<1>1. ASSUME NEW t \in Threads, CallPlatformStatus(t) PROVE Bridge!Next
  <2>1. caller[t] \in Bridge!Statuses \ {"NONE"}
    BY <1>1 DEF CallPlatformStatus, Life!Status, CallersMatch, Bridge!Statuses
  <2> QED BY <1>1, <2>1 DEF CallPlatformStatus, Bridge!Next
<1>2. ASSUME NEW t \in Threads,
             \/ CallStart(t) \/ ReturnFromStart(t) \/ CallStop(t)
             \/ ReturnFromPlatformStatus(t) \/ WriteEntry(t) \/ Readings(t)
             \/ Store(t)
      PROVE  Bridge!Next
  BY <1>2 DEF CallStart, ReturnFromStart, CallStop,
              ReturnFromPlatformStatus, WriteEntry, Readings, Store, Bridge!Next
<1>3. ASSUME NEW t \in Threads, Enter(t) \/ Statement(t)
      PROVE  UNCHANGED Bridge!bridgeVars
  <2>1. running' = running
    BY <1>3 DEF Enter, Statement, Life!Callback, Life!ConnectionChanged,
                Life!PlatformStatus, Life!RegistrationResult,
                Life!ReadRegistered, Life!ReadConnected, Life!Notify,
                Life!CheckRegistered, Life!Retry
  <2> QED BY <1>3, <2>1 DEF Enter, Statement, bridgeOwn, Bridge!bridgeVars,
              Bridge!locals, Bridge!history
<1>4. CASE Main
  BY <1>4 DEF Main, Life!Main, Life!MainReadConnected,
              Life!MainReadRegistered, Life!MainPublish, bridgeOwn,
              Bridge!bridgeVars, Bridge!locals, Bridge!history
<1>5. CASE Kill \/ Relaunch
  BY <1>5 DEF Kill, Relaunch, Bridge!Next
<1>6. CASE UNCHANGED vars
  BY <1>6 DEF vars, bridgeOwn, Bridge!bridgeVars,
              Bridge!locals, Bridge!history
<1> QED BY <1>1, <1>2, <1>3, <1>4, <1>5, <1>6 DEF Next, InCallback

(* The module is a ModbusBridge, so ModbusBridgeProofs speaks of it. *)
THEOREM ModuleImplementsBridge == Spec => ImplementsBridge
<1>1. Init => CallersMatch
  <2> SUFFICES ASSUME Init PROVE CallersMatch
    OBVIOUS
  <2>1. pc = [t \in Threads |-> "idle"] /\ caller = [t \in Threads |-> "none"]
    BY DEF Init, Life!Init
  <2>2. pc \in [Threads -> Life!Labels] /\ caller \in [Threads -> Life!Callers]
    BY <2>1 DEF Life!Labels, Life!Callers
  <2> QED BY <2>1, <2>2 DEF CallersMatch
<1>2. Init => Bridge!Init
  BY DEF Init
<1> QED
  BY <1>1, <1>2, LifeStep, CallersStep, BridgeStep, PTL
     DEF Spec, ImplementsBridge, Bridge!Spec

-----------------------------------------------------------------------------
(* The defaults while the reader runs, when one callback is served at a time *)

Shapes ==
    /\ DOMAIN pc = Threads /\ DOMAIN caller = Threads
    /\ DOMAIN job = Threads /\ DOMAIN todo = Threads
    /\ DOMAIN memory = Bridge!Settings /\ DOMAIN written = Mappings
    /\ updates \in Nat

(* Where the two components are when the other one is in a call; the reader *)
(* is stopped before the bridge hears OFFLINE.                              *)
InStep(t) ==
    /\ job[t] = "start" <=> pc[t] = "starting"
    /\ job[t] \in {"safe", "done"} => pc[t] = "inStatus"
    /\ job[t] = "safe" => caller[t] = "OFFLINE"
    /\ pc[t] \in {"readRegistered", "readConnected", "start", "starting"} =>
            caller[t] # "OFFLINE"
    /\ pc[t] \in {"status", "inStatus"} /\ caller[t] = "OFFLINE" => ~running

(* The registers outside S hold their default values, but for those the     *)
(* wire refused and those the platform has changed.                         *)
Written(S) ==
    \A k \in Settable("DFV") \ (S \cup refused \cup actuated) : InForce("DFV", k)

DefaultsInv(t) ==
    /\ Shapes
    /\ process = "up" =>
        /\ InStep(t)
        /\ job[t] = "start" => Written(todo[t])
        /\ running /\ job[t] # "start" => Written({})

(* What a step leaves alone keeps what it was given. *)
LEMMA WrittenSame ==
    ASSUME UNCHANGED <<memory, written, refused, actuated>>
    PROVE  \A S : Written(S)' = Written(S)
BY DEF Written, Settable, InForce, Bridge!Word

(* Only a start() and a reading change what is remembered. *)
LEMMA ActuatedSame ==
    ASSUME Remember, UNCHANGED updates,
           \A t \in Threads : ~(pc[t] = "start" /\ pc'[t] = "starting")
    PROVE  UNCHANGED actuated
BY DEF Remember

(* The calls: start() begins with everything still to be written and       *)
(* returns with nothing left.                                              *)
LEMMA DefaultsCalls ==
    ASSUME NEW t, Threads = {t}, DefaultsInv(t), Remember,
           \/ CallStart(t) \/ ReturnFromStart(t) \/ CallStop(t)
           \/ CallPlatformStatus(t) \/ ReturnFromPlatformStatus(t)
    PROVE  DefaultsInv(t)'
<1> USE DEF DefaultsInv, Shapes, InStep, Life!Goto, Life!Return
<1>1. UNCHANGED <<memory, written, refused, updates>> /\ process = "up" /\ t \in Threads
  BY DEF CallStart, Bridge!Start, ReturnFromStart, Bridge!StartReturn, CallStop,
         Bridge!Stop, CallPlatformStatus, Bridge!PlatformStatus,
         ReturnFromPlatformStatus, Bridge!StatusReturn, Bridge!history
<1>2. pc[t] # "start" => \A S : Written(S)' = Written(S)
  BY <1>1, WrittenSame, ActuatedSame
<1>3. CASE CallStart(t)
  <2>1. /\ pc[t] = "start" /\ job' = [job EXCEPT ![t] = "start"]
        /\ pc' = [pc EXCEPT ![t] = "starting"] /\ caller' = caller
        /\ todo' = [todo EXCEPT ![t] = Bridge!Entries("DFV")]
    BY <1>3 DEF CallStart, Life!Start, Bridge!Start
  <2>2. Settable("DFV")' \subseteq Bridge!Entries("DFV")
    BY <1>1 DEF Settable, Bridge!Entries, Bridge!Keys
  <2>3. Written(todo[t])'
    BY <1>1, <2>1, <2>2 DEF Written
  <2> QED BY <1>1, <2>1, <2>3
<1>4. CASE ReturnFromStart(t)
  <2>1. /\ job[t] = "start" /\ todo[t] = {} /\ job' = [job EXCEPT ![t] = "none"]
        /\ todo' = todo /\ running' = running /\ pc[t] # "start"
        /\ \/ Life!Return(t)
           \/ \E l \in {"checkRegistered", "status"} : Life!Goto(t, l)
    BY <1>4 DEF ReturnFromStart, Life!StartReturn, Bridge!StartReturn, Life!AfterChange
  <2>2. Written({})
    BY <1>1, <2>1
  <2> QED BY <1>1, <1>2, <2>1, <2>2
<1>5. CASE CallStop(t)
  <2>1. /\ pc[t] = "stop" /\ job[t] = "none" /\ job' = job /\ todo' = todo
        /\ caller' = caller /\ running' = FALSE
        /\ \E l \in {"checkRegistered", "status"} : pc' = [pc EXCEPT ![t] = l]
    BY <1>5 DEF CallStop, Life!Stop, Bridge!Stop, Life!AfterChange
  <2> QED BY <1>1, <1>2, <2>1
<1>6. CASE CallPlatformStatus(t)
  <2>1. /\ pc[t] = "status" /\ job[t] = "none"
        /\ \/ caller[t] = "OFFLINE" /\ job' = [job EXCEPT ![t] = "safe"]
           \/ job' = [job EXCEPT ![t] = "done"]
        /\ DOMAIN todo' = Threads
        /\ caller' = caller /\ running' = running
        /\ pc' = [pc EXCEPT ![t] = "inStatus"]
    BY <1>6 DEF CallPlatformStatus, Life!Status, Bridge!PlatformStatus
  <2> QED BY <1>1, <1>2, <2>1
<1>7. CASE ReturnFromPlatformStatus(t)
  <2>1. /\ job[t] \in {"safe", "done"} /\ job' = [job EXCEPT ![t] = "none"]
        /\ todo' = todo /\ caller' = caller /\ running' = running
        /\ pc[t] = "inStatus" /\ pc' = [pc EXCEPT ![t] = "notify"]
    BY <1>7 DEF ReturnFromPlatformStatus, Life!StatusReturn, Bridge!StatusReturn
  <2> QED BY <1>1, <1>2, <2>1
<1> QED BY <1>3, <1>4, <1>5, <1>6, <1>7

(* One entry: of start(), it holds its value from then on unless it is      *)
(* refused; of platformStatus(), the reader is stopped.                     *)
LEMMA DefaultsEntry ==
    ASSUME NEW t, Threads = {t}, DefaultsInv(t), Remember, WriteEntry(t)
    PROVE  DefaultsInv(t)'
<1> PICK k \in Bridge!Keys : Bridge!WriteEntry(t, k)
  BY DEF WriteEntry
<1>1. /\ UNCHANGED <<pc, caller, running, memory, job, updates>> /\ process = "up"
      /\ t \in Threads /\ job[t] \in {"start", "safe"}
      /\ todo' = [todo EXCEPT ![t] = @ \ {k}]
  BY DEF WriteEntry, lifeOwn, Bridge!WriteEntry, Bridge!InLoop
<1>2. UNCHANGED actuated
  BY <1>1, ActuatedSame
<1>3. CASE process' # "up"
  <2>1. DOMAIN written' = Mappings
    BY DEF Bridge!WriteEntry, Bridge!WriteToMapping, DefaultsInv, Shapes
  <2> QED BY <1>1, <1>3, <2>1 DEF DefaultsInv, Shapes
<1>4. CASE process' = "up"
  <2> DEFINE text == memory[Bridge!MapOf(job[t])][k]
  <2>1. k \in Mappings /\ Bridge!WriteToMapping(k, text)
    BY <1>4 DEF Bridge!WriteEntry
  <2>2. /\ DOMAIN written' = Mappings
        /\ \A j \in Mappings \ {k} :
              written'[j] = written[j] /\ (j \in refused' <=> j \in refused)
        /\ text # NotANumber /\ k \notin refused' => written'[k] = Bridge!Word(text)
    BY <2>1 DEF Bridge!WriteToMapping, DefaultsInv, Shapes
  <2>3. Shapes'
    BY <1>1, <2>2 DEF DefaultsInv, Shapes
  <2>4. InStep(t)'
    BY <1>1 DEF DefaultsInv, InStep
  <2>5. CASE job[t] = "start"
    <3>1. text = memory["DFV"][k]
      BY <2>5 DEF Bridge!MapOf
    <3>2. Written(todo[t])
      BY <1>1, <2>5 DEF DefaultsInv
    <3>3. ASSUME NEW j \in Settable("DFV")', j \notin todo'[t],
                 j \notin refused', j \notin actuated'
          PROVE  InForce("DFV", j)'
      <4>1. j \in Settable("DFV") /\ j \in Mappings
        BY <1>1, <3>3 DEF Settable
      <4>2. CASE j = k
        <5>1. text \notin {Absent, NotANumber} /\ written'[k] = Bridge!Word(text)
          BY <2>2, <3>1, <3>3, <4>1, <4>2 DEF Settable
        <5> QED BY <1>1, <3>1, <4>2, <5>1 DEF InForce, Bridge!Word
      <4>3. CASE j # k
        <5>1. j \notin todo[t] /\ j \notin refused /\ j \notin actuated
          BY <1>1, <1>2, <2>2, <3>3, <4>1, <4>3 DEF DefaultsInv, Shapes
        <5>2. InForce("DFV", j)
          BY <3>2, <4>1, <5>1 DEF Written
        <5>3. written'[j] = written[j]
          BY <2>2, <4>1, <4>3
        <5> QED BY <1>1, <5>2, <5>3 DEF InForce, Bridge!Word
      <4> QED BY <4>2, <4>3
    <3>4. Written(todo[t])'
      BY <3>3 DEF Written
    <3> QED BY <1>1, <2>3, <2>4, <2>5, <3>4 DEF DefaultsInv
  <2>6. CASE job[t] = "safe"
    <3>1. ~running
      BY <1>1, <2>6 DEF DefaultsInv, InStep
    <3> QED BY <1>1, <2>3, <2>4, <2>6, <3>1 DEF DefaultsInv
  <2> QED BY <1>1, <2>5, <2>6
<1> QED BY <1>3, <1>4

(* A reading: what it touches is remembered. *)
LEMMA DefaultsReadings ==
    ASSUME NEW t, Threads = {t}, DefaultsInv(t), Remember, Readings(t)
    PROVE  DefaultsInv(t)'
<1>1. pc[t] = "idle" /\ UNCHANGED lifeOwn /\ Bridge!HandleUpdate(t)
  BY DEF Readings
<1>2. PICK k \in Bridge!Keys, text \in Inputs :
          \/ \E s \in Bridge!Settings : Bridge!HandleValueReading(t, s, k, text)
          \/ Bridge!HandleRepeatWriteReading(t, k, text)
          \/ Bridge!HandleFeedReading(t, k, text)
  BY <1>1 DEF Bridge!HandleUpdate
<1>3. /\ process = "up" /\ job[t] = "none" /\ UNCHANGED running
      /\ job' = job \/ job' = [job EXCEPT ![t] = "read"]
      /\ updates' = updates + 1
  BY <1>2 DEF Bridge!HandleValueReading, Bridge!HandleRepeatWriteReading,
              Bridge!HandleFeedReading, Bridge!Handle, Bridge!StoreValue
<1>4. Shapes'
  <2>1. ASSUME NEW s, NEW v, Bridge!Insert(s, k, v)
        PROVE  DOMAIN memory' = Bridge!Settings /\ DOMAIN todo' = Threads
    BY <2>1 DEF Bridge!Insert, DefaultsInv, Shapes
  <2>2. DOMAIN memory' = Bridge!Settings /\ DOMAIN todo' = Threads
    BY <1>2, <2>1 DEF Bridge!HandleValueReading, Bridge!HandleRepeatWriteReading,
                      Bridge!HandleFeedReading, DefaultsInv, Shapes
  <2>3. DOMAIN written' = Mappings
    BY <1>2 DEF Bridge!HandleValueReading, Bridge!HandleRepeatWriteReading,
                Bridge!HandleFeedReading, Bridge!WriteToMapping, DefaultsInv, Shapes
  <2> QED BY <1>1, <1>3, <2>2, <2>3 DEF DefaultsInv, Shapes, lifeOwn
<1>5. InStep(t)' /\ job'[t] # "start"
  BY <1>1, <1>3 DEF DefaultsInv, InStep, Shapes, lifeOwn
<1>6. actuated' = actuated \cup Touched
  BY <1>3 DEF Remember, DefaultsInv, Shapes
<1>7. Written({}) => Written({})'
  <2> SUFFICES ASSUME Written({}), NEW j \in Settable("DFV")',
                      j \notin refused', j \notin actuated'
               PROVE  InForce("DFV", j)'
    BY DEF Written
  <2>1. j \in Mappings /\ j \notin Touched /\ j \notin actuated
    BY <1>6 DEF Settable
  <2>2. /\ written'[j] = written[j] /\ memory'["DFV"][j] = memory["DFV"][j]
        /\ j \notin refused
    BY <2>1 DEF Touched
  <2>3. InForce("DFV", j)
    BY <2>1, <2>2 DEF Written, Settable
  <2> QED BY <2>2, <2>3 DEF InForce, Bridge!Word
<1> QED BY <1>3, <1>4, <1>5, <1>7 DEF DefaultsInv

(* A step of storeValue() is about a file only. *)
LEMMA DefaultsStore ==
    ASSUME NEW t, Threads = {t}, DefaultsInv(t), Remember, Store(t)
    PROVE  DefaultsInv(t)'
<1>1. /\ UNCHANGED <<pc, caller, running, process, memory, written, refused, todo, updates>>
      /\ process = "up" /\ job[t] \in {"read", "open", "write"}
      /\ DOMAIN job' = Threads /\ job'[t] \in {"none", "open", "write"}
  <2>1. UNCHANGED <<pc, caller>>
    BY DEF Store, lifeOwn
  <2>2. Bridge!StoreFrame /\ process = "up" /\ job[t] \in {"read", "open", "write"}
    BY DEF Store, Bridge!Store, Bridge!ReadFile, Bridge!OpenFile, Bridge!WriteInPart,
           Bridge!WriteFile, Bridge!InStore
  <2>3. DOMAIN job' = Threads /\ job'[t] \in {"none", "open", "write"}
    <3>1. CASE Bridge!WriteInPart(t)
      BY <3>1 DEF Bridge!WriteInPart, Bridge!InStore, DefaultsInv, Shapes
    <3>2. CASE Bridge!ReadFile(t) \/ Bridge!OpenFile(t) \/ Bridge!WriteFile(t)
      BY <3>2 DEF Bridge!ReadFile, Bridge!OpenFile, Bridge!WriteFile, Bridge!StoreReturn,
                  DefaultsInv, Shapes
    <3> QED BY <3>1, <3>2 DEF Store, Bridge!Store
  <2> QED BY <2>1, <2>2, <2>3 DEF Bridge!StoreFrame
<1>2. UNCHANGED actuated
  BY <1>1, ActuatedSame
<1>3. \A S : Written(S)' = Written(S)
  BY <1>1, <1>2, WrittenSame
<1> QED BY <1>1, <1>3 DEF DefaultsInv, Shapes, InStep

(* The rest neither writes a register nor changes a default value.         *)
LEMMA DefaultsRest ==
    ASSUME NEW t, Threads = {t}, DefaultsInv(t),
           \/ /\ Statement(t) \/ Enter(t) \/ Main \/ Kill \/ Relaunch
              /\ Remember
           \/ UNCHANGED vars
    PROVE  DefaultsInv(t)'
<1>1. CASE (Statement(t) \/ Enter(t)) /\ Remember
  <2>1. UNCHANGED bridgeOwn /\ process = "up" /\ UNCHANGED running
    BY <1>1 DEF Enter, Statement, Life!Callback, Life!ConnectionChanged,
                Life!PlatformStatus, Life!RegistrationResult,
                Life!ReadRegistered, Life!ReadConnected, Life!Notify,
                Life!CheckRegistered, Life!Retry
  <2>2. /\ DOMAIN pc' = Threads /\ DOMAIN caller' = Threads
        /\ InStep(t)' /\ pc'[t] # "starting"
    <3> USE DEF DefaultsInv, Shapes, InStep, bridgeOwn, Life!Goto, Life!Return,
                Life!Enter, Life!AfterChange
    <3>1. CASE Statement(t)
      BY <2>1, <3>1 DEF Statement, Life!ReadRegistered, Life!ReadConnected,
                        Life!Notify, Life!CheckRegistered, Life!Retry
    <3>2. CASE Enter(t)
      <4>1. CASE \E up \in BOOLEAN : Life!ConnectionChanged(t, up)
        BY <2>1, <4>1 DEF Life!ConnectionChanged
      <4>2. CASE \E s \in Life!Statuses \ {"NONE"} : Life!PlatformStatus(t, s)
        BY <2>1, <4>2 DEF Life!PlatformStatus, Life!Statuses
      <4>3. CASE \E all \in BOOLEAN : Life!RegistrationResult(t, all)
        BY <2>1, <4>3 DEF Life!RegistrationResult
      <4> QED BY <3>2, <4>1, <4>2, <4>3 DEF Enter, Life!Callback
    <3> QED BY <1>1, <3>1, <3>2
  <2>3. \A S : Written(S)' = Written(S)
    BY <1>1, <2>1, <2>2, WrittenSame, ActuatedSame DEF bridgeOwn
  <2> QED BY <2>1, <2>2, <2>3 DEF DefaultsInv, Shapes, bridgeOwn
<1>2. CASE (Main /\ Remember) \/ UNCHANGED vars
  <2>1. UNCHANGED <<bridgeOwn, pc, caller, running>>
    BY <1>2 DEF Main, Life!Main, Life!MainReadConnected, Life!MainReadRegistered,
                Life!MainPublish, vars, lifeOwn
  <2>2. UNCHANGED actuated
    BY <1>2, <2>1, ActuatedSame DEF vars, bridgeOwn
  <2>3. \A S : Written(S)' = Written(S)
    BY <2>1, <2>2, WrittenSame DEF bridgeOwn
  <2> QED BY <2>1, <2>3 DEF DefaultsInv, Shapes, InStep, bridgeOwn
<1>3. CASE Kill
  BY <1>3 DEF Kill, Bridge!Kill, lifeOwn, DefaultsInv, Shapes
<1>4. CASE Relaunch
  <2>1. /\ pc' = [u \in Threads |-> "idle"] /\ caller' = [u \in Threads |-> "none"]
        /\ job' = [u \in Threads |-> "none"] /\ todo' = [u \in Threads |-> {}]
        /\ DOMAIN memory' = Bridge!Settings /\ UNCHANGED <<written, updates>>
        /\ running' = FALSE
    BY <1>4 DEF Relaunch, Life!Restart, Bridge!Initialize
  <2>2. InStep(t)'
    BY <2>1 DEF InStep
  <2> QED BY <2>1, <2>2 DEF DefaultsInv, Shapes
<1> QED BY <1>1, <1>2, <1>3, <1>4

(* While the registers are read and no callback is being served, every     *)
(* register holds its default value unless the wire refused it or the       *)
(* platform has actuated it or changed the default since: the reader is     *)
(* stopped before the safe mode values are written                          *)
(* (StateHandler::platformStatus()) and start() writes the defaults again.  *)
THEOREM DefaultsHoldWhileRunning ==
    ASSUME NEW t, Threads = {t}
    PROVE  Spec => []DefaultsWhileRunning
<1>1. Init => DefaultsInv(t)
  <2> SUFFICES ASSUME Init PROVE DefaultsInv(t)
    OBVIOUS
  <2>1. /\ pc = [u \in Threads |-> "idle"] /\ caller = [u \in Threads |-> "none"]
        /\ job = [u \in Threads |-> "none"] /\ todo = [u \in Threads |-> {}]
        /\ DOMAIN memory = Bridge!Settings /\ DOMAIN written = Mappings
        /\ running = FALSE /\ updates = 0
    BY DEF Init, Life!Init, Bridge!Init
  <2>2. InStep(t)
    BY <2>1 DEF InStep
  <2> QED BY <2>1, <2>2 DEF DefaultsInv, Shapes
<1>2. DefaultsInv(t) /\ [Next]_vars => DefaultsInv(t)'
  <2> SUFFICES ASSUME DefaultsInv(t), [Next]_vars PROVE DefaultsInv(t)'
    OBVIOUS
  <2>1. CASE Remember /\ \E u \in Threads : \/ InCallback(u) \/ Enter(u)
                                             \/ Readings(u) \/ Store(u)
    <3>1. InCallback(t) \/ Enter(t) \/ Readings(t) \/ Store(t)
      BY <2>1
    <3> QED BY <2>1, <3>1, DefaultsCalls, DefaultsEntry, DefaultsReadings,
               DefaultsStore, DefaultsRest DEF InCallback
  <2>2. CASE (Remember /\ (Main \/ Kill \/ Relaunch)) \/ UNCHANGED vars
    BY <2>2, DefaultsRest
  <2> QED BY <2>1, <2>2 DEF Next
<1>3. DefaultsInv(t) => DefaultsWhileRunning
  <2> SUFFICES ASSUME DefaultsInv(t), process = "up", running, Life!AllIdle
               PROVE  \A k \in Settable("DFV") \ (refused \cup actuated) : InForce("DFV", k)
    BY DEF DefaultsWhileRunning
  <2>1. pc[t] = "idle"
    BY DEF Life!AllIdle
  <2> QED BY <2>1 DEF DefaultsInv, InStep, Written
<1> QED BY <1>1, <1>2, <1>3, PTL DEF Spec
-----------------------------------------------------------------------------
(* What ModbusBridgeProofs proves of the bridge alone holds of it here.  Its *)
(* definitions are reached as Facts!..., and say the same as Bridge!...      *)

Facts == INSTANCE ModbusBridgeProofs

LEMMA SameBridge ==
    /\ Bridge!Init <=> Facts!Init
    /\ [Bridge!Next]_(Bridge!bridgeVars) <=> [Facts!Next]_(Facts!bridgeVars)
    /\ Bridge!VisitedHoldsValue <=> Facts!VisitedHoldsValue
    /\ Bridge!NoCrashLoop <=> Facts!NoCrashLoop
    /\ Bridge!RestartKeepsValues <=> Facts!RestartKeepsValues
<1>1. /\ Bridge!Keys = Facts!Keys /\ Bridge!Settings = Facts!Settings
      /\ Bridge!Statuses = Facts!Statuses
  BY DEF Bridge!Keys, Facts!Keys, Bridge!Settings, Facts!Settings,
         Bridge!Statuses, Facts!Statuses
<1>2. Bridge!Init <=> Facts!Init
  <2>1. \A s, file : Bridge!Load(s, file) = Facts!Load(s, file)
    BY <1>1 DEF Bridge!Load, Facts!Load
  <2> QED BY <1>1, <2>1 DEF Bridge!Init, Facts!Init, Bridge!Effective, Facts!Effective,
             Bridge!NoCall, Facts!NoCall, Bridge!NoValues, Facts!NoValues
<1>3. \A t : /\ Bridge!Start(t) <=> Facts!Start(t)
             /\ Bridge!StartReturn(t) <=> Facts!StartReturn(t)
             /\ Bridge!Stop(t) <=> Facts!Stop(t)
             /\ Bridge!StatusReturn(t) <=> Facts!StatusReturn(t)
             /\ \A s : Bridge!PlatformStatus(t, s) <=> Facts!PlatformStatus(t, s)
             /\ \A k : Bridge!WriteEntry(t, k) <=> Facts!WriteEntry(t, k)
  <2> USE DEF Bridge!history, Facts!history, Bridge!locals, Facts!locals
  <2>1. \A s : Bridge!Entries(s) = Facts!Entries(s)
    BY <1>1 DEF Bridge!Entries, Facts!Entries
  <2>2. \A k, text : Bridge!WriteToMapping(k, text) <=> Facts!WriteToMapping(k, text)
    BY DEF Bridge!WriteToMapping, Facts!WriteToMapping, Bridge!Word, Facts!Word
  <2>3. \A t, k : Bridge!WriteEntry(t, k) <=> Facts!WriteEntry(t, k)
    BY <2>2 DEF Bridge!WriteEntry, Facts!WriteEntry, Bridge!MapOf, Facts!MapOf,
           Bridge!InLoop, Facts!InLoop
  <2>4. \A t : Bridge!Start(t) <=> Facts!Start(t)
    BY <2>1 DEF Bridge!Start, Facts!Start
  <2>5. \A t, s : Bridge!PlatformStatus(t, s) <=> Facts!PlatformStatus(t, s)
    BY <2>1 DEF Bridge!PlatformStatus, Facts!PlatformStatus
  <2>6. \A t : /\ Bridge!StartReturn(t) <=> Facts!StartReturn(t)
               /\ Bridge!Stop(t) <=> Facts!Stop(t)
               /\ Bridge!StatusReturn(t) <=> Facts!StatusReturn(t)
    BY DEF Bridge!StartReturn, Facts!StartReturn, Bridge!Stop, Facts!Stop,
           Bridge!StatusReturn, Facts!StatusReturn
  <2> QED BY <2>3, <2>4, <2>5, <2>6
<1>4. \A t : Bridge!HandleUpdate(t) <=> Facts!HandleUpdate(t)
  <2>1. /\ \A t, kind : Bridge!Handle(t, kind) <=> Facts!Handle(t, kind)
        /\ \A t, s, k, text : Bridge!StoreValue(t, s, k, text)
                                <=> Facts!StoreValue(t, s, k, text)
        /\ \A k, text : Bridge!WriteToMapping(k, text) <=> Facts!WriteToMapping(k, text)
    BY DEF Bridge!Handle, Facts!Handle, Bridge!StoreValue, Facts!StoreValue,
           Bridge!WriteToMapping, Facts!WriteToMapping, Bridge!Word, Facts!Word,
           Bridge!Storing, Facts!Storing
  <2>2. \A s : Bridge!Iterated(s) <=> Facts!Iterated(s)
    BY DEF Bridge!Iterated, Facts!Iterated
  <2>3. \A s : Bridge!RaceOutcome(s) <=> Facts!RaceOutcome(s)
    BY <2>2 DEF Bridge!RaceOutcome, Facts!RaceOutcome
  <2>4. \A s, k, text : Bridge!Insert(s, k, text) <=> Facts!Insert(s, k, text)
    <3>1. \A s, k : {u \in Threads : Bridge!InLoop(u) /\ Bridge!MapOf(job[u]) = s
                                      /\ k \notin Bridge!Entries(s)}
                  = {u \in Threads : Facts!InLoop(u) /\ Facts!MapOf(job[u]) = s
                                      /\ k \notin Facts!Entries(s)}
      BY <1>1 DEF Bridge!InLoop, Facts!InLoop, Bridge!MapOf, Facts!MapOf,
             Bridge!Entries, Facts!Entries
    <3> QED BY <3>1 DEF Bridge!Insert, Facts!Insert
  <2>8. \A s, k : Bridge!Endanger(s, k) <=> Facts!Endanger(s, k)
    BY <2>2 DEF Bridge!Endanger, Facts!Endanger
  <2>5. \A t, s, k, text : Bridge!HandleValueReading(t, s, k, text)
                            <=> Facts!HandleValueReading(t, s, k, text)
    BY <2>1, <2>3, <2>4, <2>8 DEF Bridge!HandleValueReading, Facts!HandleValueReading
  <2>6. \A t, k, text : Bridge!HandleRepeatWriteReading(t, k, text)
                         <=> Facts!HandleRepeatWriteReading(t, k, text)
    BY <2>1, <2>3, <2>4, <2>8
       DEF Bridge!HandleRepeatWriteReading, Facts!HandleRepeatWriteReading
  <2>7. \A t, k, text : Bridge!HandleFeedReading(t, k, text)
                         <=> Facts!HandleFeedReading(t, k, text)
    BY <2>1, <2>3, <2>4 DEF Bridge!HandleFeedReading, Facts!HandleFeedReading
  <2> QED BY <1>1, <2>5, <2>6, <2>7
          DEF Bridge!HandleUpdate, Facts!HandleUpdate
<1>5. /\ Bridge!Kill <=> Facts!Kill
      /\ Bridge!Initialize <=> Facts!Initialize
  <2>1. \A s : Bridge!Effective(s) = Facts!Effective(s)
    BY <1>1 DEF Bridge!Load, Facts!Load, Bridge!Effective, Facts!Effective
  <2> QED BY <1>1, <2>1 DEF Bridge!Kill, Facts!Kill, Bridge!Initialize, Facts!Initialize,
             Bridge!history, Facts!history, Bridge!locals, Facts!locals,
             Bridge!NoCall, Facts!NoCall, Bridge!NoValues, Facts!NoValues
<1>10. \A t : Bridge!Store(t) <=> Facts!Store(t)
  <2> USE DEF Bridge!NoValues, Facts!NoValues, Bridge!InStore, Facts!InStore,
              Bridge!StoreFrame, Facts!StoreFrame
  <2>1. \A t : Bridge!StoreReturn(t) <=> Facts!StoreReturn(t)
    BY <1>1 DEF Bridge!StoreReturn, Facts!StoreReturn, Bridge!NoCall, Facts!NoCall
  <2>2. \A t : Bridge!ReadFile(t) <=> Facts!ReadFile(t)
    BY <1>1 DEF Bridge!ReadFile, Facts!ReadFile
  <2>3. \A t : Bridge!OpenFile(t) <=> Facts!OpenFile(t)
    BY <1>1, <2>1 DEF Bridge!OpenFile, Facts!OpenFile, Bridge!locals, Facts!locals
  <2>4. \A t : Bridge!WriteInPart(t) <=> Facts!WriteInPart(t)
    BY <1>1 DEF Bridge!WriteInPart, Facts!WriteInPart, Bridge!locals, Facts!locals
  <2>5. \A t : Bridge!WriteFile(t) <=> Facts!WriteFile(t)
    BY <1>1, <2>1 DEF Bridge!WriteFile, Facts!WriteFile
  <2> QED BY <2>2, <2>3, <2>4, <2>5 DEF Bridge!Store, Facts!Store
<1>6. Bridge!Next <=> Facts!Next
  BY <1>1, <1>3, <1>4, <1>5, <1>10 DEF Bridge!Next, Facts!Next
<1>7. [Bridge!Next]_(Bridge!bridgeVars) <=> [Facts!Next]_(Facts!bridgeVars)
  BY <1>6 DEF Bridge!bridgeVars, Facts!bridgeVars, Bridge!history, Facts!history,
              Bridge!locals, Facts!locals
<1>8. Bridge!VisitedHoldsValue <=> Facts!VisitedHoldsValue
  BY DEF Bridge!VisitedHoldsValue, Facts!VisitedHoldsValue, Bridge!InLoop,
         Facts!InLoop, Bridge!MapOf, Facts!MapOf, Bridge!Word, Facts!Word
<1>9. /\ Bridge!NoCrashLoop <=> Facts!NoCrashLoop
      /\ Bridge!RestartKeepsValues <=> Facts!RestartKeepsValues
  BY <1>1 DEF Bridge!NoCrashLoop, Facts!NoCrashLoop, Bridge!RestartKeepsValues,
              Facts!RestartKeepsValues, Bridge!Effective, Facts!Effective,
              Bridge!Load, Facts!Load, Bridge!Writers, Facts!Writers
<1> QED BY <1>2, <1>7, <1>8, <1>9

(* A behaviour of the module is one ModbusBridgeProofs speaks of. *)
LEMMA BridgeFactsHere == ImplementsBridge => Facts!Spec
BY SameBridge, PTL DEF ImplementsBridge, Bridge!Spec, Facts!Spec

(* In the module too writeAMapOfValues leaves its values in the registers   *)
(* that take them, with one callback at a time.                             *)
THEOREM ModuleWritesValues ==
    ASSUME NEW t, Threads = {t}
    PROVE  Spec => []VisitedHoldsValue
<1>1. Facts!Spec => []Facts!VisitedHoldsValue
  <2>1. Facts!Serial
    BY DEF Facts!Serial
  <2> QED BY <2>1, BridgeAssumption, Facts!ValuesAreWritten
             DEF Bridge!Texts, Facts!Texts, Bridge!Settings, Facts!Settings
<1>2. VisitedHoldsValue <=> Facts!VisitedHoldsValue
  BY SameBridge DEF VisitedHoldsValue
<1> QED BY <1>1, <1>2, BridgeFactsHere, ModuleImplementsBridge, PTL

(* In whatever callback the module dies, a restart keeps its settings but   *)
(* for those excepted of the bridge alone: what is unsaved, a file open for *)
(* writing, a setting with two readings at once.                           *)
THEOREM ModuleRestartKeepsValues == Spec => []Bridge!RestartKeepsValues
<1>1. Facts!Spec => []Facts!RestartKeepsValues
  BY BridgeAssumption, Facts!RestartKeepsValuesAlways
     DEF Bridge!Texts, Facts!Texts, Bridge!Settings, Facts!Settings
<1> QED BY <1>1, SameBridge, BridgeFactsHere, ModuleImplementsBridge, PTL

(* Nor does the module crash over and over: what goes through the maps, the *)
(* calls of the StateHandler, needs a hazardous reading to crash on.         *)
THEOREM ModuleCrashTakesSetting == Spec => []Bridge!NoCrashLoop
<1>1. Facts!Spec => []Facts!NoCrashLoop
  BY BridgeAssumption, Facts!CrashTakesSetting
     DEF Bridge!Texts, Facts!Texts, Bridge!Settings, Facts!Settings
<1> QED BY <1>1, SameBridge, BridgeFactsHere, ModuleImplementsBridge, PTL

(* With one callback at a time and no feed left of an older configuration,  *)
(* the module never crashes, in whatever order the StateHandler calls.      *)
THEOREM ModuleNeverCrashesWithoutHazard ==
    ASSUME NEW t, Threads = {t}, Stale = {}
    PROVE  Spec => [](process # "crashed")
<1>1. Facts!Spec => [](process # "crashed")
  <2>1. Facts!Serial
    BY DEF Facts!Serial
  <2> QED BY <2>1, BridgeAssumption, Facts!NeverCrashesWithoutHazard
             DEF Bridge!Texts, Facts!Texts, Bridge!Settings, Facts!Settings
<1> QED BY <1>1, BridgeFactsHere, ModuleImplementsBridge, PTL

(* To the platform the module is a store of settings like the bridge alone. *)
THEOREM ModuleIsSettingsStore == Spec => Facts!IsSettingsStore
<1>1. Facts!Spec => Facts!IsSettingsStore
  BY BridgeAssumption, Facts!ImplementsSettingsStore
     DEF Bridge!Texts, Facts!Texts, Bridge!Settings, Facts!Settings
<1> QED BY <1>1, BridgeFactsHere, ModuleImplementsBridge, PTL
-----------------------------------------------------------------------------
(* And what StateHandlerProofs proves, reached as LifeFacts!...              *)

LifeFacts == INSTANCE StateHandlerProofs

LEMMA SameLife ==
    /\ Life!Init <=> LifeFacts!Init
    /\ [Life!Next]_(Life!lifeVars) <=> [LifeFacts!Next]_(LifeFacts!lifeVars)
    /\ Life!NothingBeforeRegistration <=> LifeFacts!NothingBeforeRegistration
    /\ Life!NeverStranded <=> LifeFacts!NeverStranded
    /\ Life!ReadsIffReady <=> LifeFacts!ReadsIffReady
<1> USE DEF Life!Goto, LifeFacts!Goto, Life!Return, LifeFacts!Return,
            Life!RegisterDevices, LifeFacts!RegisterDevices,
            Life!AfterChange, LifeFacts!AfterChange
<1>1. \A t : /\ Life!Stop(t) <=> LifeFacts!Stop(t)
             /\ Life!ReadRegistered(t) <=> LifeFacts!ReadRegistered(t)
             /\ Life!ReadConnected(t) <=> LifeFacts!ReadConnected(t)
  BY DEF Life!Stop, LifeFacts!Stop, Life!ReadRegistered, LifeFacts!ReadRegistered,
         Life!ReadConnected, LifeFacts!ReadConnected
<1>2. \A t : /\ Life!Start(t) <=> LifeFacts!Start(t)
             /\ Life!StartReturn(t) <=> LifeFacts!StartReturn(t)
             /\ Life!Status(t) <=> LifeFacts!Status(t)
             /\ Life!StatusReturn(t) <=> LifeFacts!StatusReturn(t)
  BY DEF Life!Start, LifeFacts!Start, Life!StartReturn, LifeFacts!StartReturn,
         Life!Status, LifeFacts!Status, Life!StatusReturn, LifeFacts!StatusReturn
<1>3. \A t : /\ Life!Notify(t) <=> LifeFacts!Notify(t)
             /\ Life!CheckRegistered(t) <=> LifeFacts!CheckRegistered(t)
             /\ Life!Retry(t) <=> LifeFacts!Retry(t)
  BY DEF Life!Notify, LifeFacts!Notify, Life!CheckRegistered,
         LifeFacts!CheckRegistered, Life!Retry, LifeFacts!Retry
<1>4. \A t : Life!Callback(t) <=> LifeFacts!Callback(t)
  <2>0. Life!RoomForRequest <=> LifeFacts!RoomForRequest
    BY Zenon DEF Life!RoomForRequest, LifeFacts!RoomForRequest,
                 Life!Cardinality, LifeFacts!Cardinality
  <2> USE DEF Life!Enter, LifeFacts!Enter
  <2>1. \A t, up : Life!ConnectionChanged(t, up) <=> LifeFacts!ConnectionChanged(t, up)
    BY <2>0 DEF Life!ConnectionChanged, LifeFacts!ConnectionChanged
  <2>2. \A t, s : Life!PlatformStatus(t, s) <=> LifeFacts!PlatformStatus(t, s)
    BY <2>0 DEF Life!PlatformStatus, LifeFacts!PlatformStatus
  <2>3. \A t, all : Life!RegistrationResult(t, all) <=> LifeFacts!RegistrationResult(t, all)
    BY DEF Life!RegistrationResult, LifeFacts!RegistrationResult
  <2> QED BY <2>1, <2>2, <2>3 DEF Life!Callback, LifeFacts!Callback,
          Life!Statuses, LifeFacts!Statuses
<1>5. \A t : Life!Statement(t) <=> LifeFacts!Statement(t)
  BY <1>1, <1>2, <1>3 DEF Life!Statement, LifeFacts!Statement
<1>6. Life!Main <=> LifeFacts!Main
  BY DEF Life!Main, LifeFacts!Main, Life!MainReadConnected,
         LifeFacts!MainReadConnected, Life!MainReadRegistered,
         LifeFacts!MainReadRegistered, Life!MainPublish, LifeFacts!MainPublish
<1>7. Life!Restart <=> LifeFacts!Restart
  BY DEF Life!Restart, LifeFacts!Restart
<1>8. [Life!Next]_(Life!lifeVars) <=> [LifeFacts!Next]_(LifeFacts!lifeVars)
  BY <1>4, <1>5, <1>6, <1>7
     DEF Life!Next, LifeFacts!Next, Life!lifeVars, LifeFacts!lifeVars
<1>9. Life!Init <=> LifeFacts!Init
  BY DEF Life!Init, LifeFacts!Init
<1>10. /\ Life!NothingBeforeRegistration <=> LifeFacts!NothingBeforeRegistration
       /\ Life!NeverStranded <=> LifeFacts!NeverStranded
       /\ Life!ReadsIffReady <=> LifeFacts!ReadsIffReady
  BY DEF Life!NothingBeforeRegistration, LifeFacts!NothingBeforeRegistration,
         Life!NeverStranded, LifeFacts!NeverStranded, Life!ReadsIffReady,
         LifeFacts!ReadsIffReady, Life!AllIdle, LifeFacts!AllIdle
<1> QED BY <1>8, <1>9, <1>10

LEMMA LifeFactsHere == Spec => LifeFacts!Spec
BY SameLife, LifeHere, PTL DEF Life!Spec, LifeFacts!Spec

(* Whatever the bridge does meanwhile, and wherever the process dies: the   *)
(* module reads no register and publishes nothing before its devices are    *)
(* registered, and is never left connected with no registration on its way. *)
THEOREM ModuleRegistersFirst ==
    Spec => [](Life!NothingBeforeRegistration /\ Life!NeverStranded)
<1>1. LifeFacts!Spec => []LifeFacts!NothingBeforeRegistration /\ []LifeFacts!NeverStranded
  BY LifeAssumption, LifeFacts!RegistrationFirst, LifeFacts!RegistrationOnItsWay
     DEF Life!ThreadsAssumption, Life!MaxRequestsAssumption
<1> QED BY <1>1, SameLife, LifeFactsHere, PTL

(* With one callback at a time the module that is idle reads its registers  *)
(* exactly while it is connected and registered.                            *)
THEOREM ModuleReadsIffReady ==
    ASSUME NEW t, Threads = {t}
    PROVE  Spec => []Life!ReadsIffReady
<1>1. LifeFacts!Spec => []LifeFacts!ReadsIffReady
  <2>1. LifeFacts!Serial
    BY DEF LifeFacts!Serial
  <2> QED BY <2>1, LifeAssumption, LifeFacts!SerialCallbacks
             DEF Life!ThreadsAssumption, Life!MaxRequestsAssumption
<1> QED BY <1>1, SameLife, LifeFactsHere, PTL
=============================================================================
