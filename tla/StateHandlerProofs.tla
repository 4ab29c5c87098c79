------------------------- MODULE StateHandlerProofs -------------------------
(***************************************************************************)
(* What holds of StateHandler.tla for every set of SDK threads and every   *)
(* bound on the registrations in flight.                                   *)
(***************************************************************************)
EXTENDS StateHandler, TLAPS

(* Every action of the life cycle preserves the type invariant. *)
LEMMA TypeStep == TypeOK /\ [Next]_lifeVars => TypeOK'
<1> SUFFICES ASSUME TypeOK, [Next]_lifeVars PROVE TypeOK'
  OBVIOUS
<1> USE DEF TypeOK, Labels, Callers, Statuses, Enter, Goto, Return
<1>1. ASSUME NEW t \in Threads, Callback(t) PROVE TypeOK'
  <2>1. ASSUME NEW up \in BOOLEAN, ConnectionChanged(t, up) PROVE TypeOK'
    <3>1. requests' \in {requests} \cup 0..requests
      BY <2>1 DEF ConnectionChanged
    <3> QED BY <2>1, <3>1 DEF ConnectionChanged
  <2>2. ASSUME NEW s \in Statuses \ {"NONE"}, PlatformStatus(t, s) PROVE TypeOK'
    BY <2>2 DEF PlatformStatus
  <2>3. ASSUME NEW all \in BOOLEAN, RegistrationResult(t, all) PROVE TypeOK'
    BY <2>3 DEF RegistrationResult
  <2> QED BY <1>1, <2>1, <2>2, <2>3 DEF Callback
<1>2. ASSUME NEW t \in Threads, Statement(t) PROVE TypeOK'
  <2> AfterChange(t) \in Labels
    BY DEF AfterChange
  <2>1. CASE Stop(t)
    BY <2>1 DEF Stop
  <2>2. CASE ReadRegistered(t)
    BY <2>2 DEF ReadRegistered
  <2>3. CASE ReadConnected(t)
    BY <2>3 DEF ReadConnected
  <2>4. CASE Start(t)
    BY <2>4 DEF Start
  <2>5. CASE StartReturn(t)
    BY <2>5 DEF StartReturn
  <2>6. CASE Status(t) \/ StatusReturn(t)
    BY <2>6 DEF Status, StatusReturn
  <2>7. CASE Notify(t)
    BY <2>7 DEF Notify, RegisterDevices
  <2>8. CASE CheckRegistered(t)
    BY <2>8 DEF CheckRegistered, RegisterDevices
  <2>9. CASE Retry(t)
    BY <2>9 DEF Retry, RegisterDevices
  <2> QED
    BY <1>2, <2>1, <2>2, <2>3, <2>4, <2>5, <2>6, <2>7, <2>8, <2>9 DEF Statement
<1>3. CASE Main
  BY <1>3 DEF Main, MainReadConnected, MainReadRegistered, MainPublish
<1>4. CASE Restart
  BY <1>4 DEF Restart
<1>5. CASE UNCHANGED lifeVars
  BY <1>5 DEF lifeVars
<1> QED BY <1>1, <1>2, <1>3, <1>4, <1>5 DEF Next

(* The state of the life cycle always has its type. *)
THEOREM TypeCorrect == Spec => []TypeOK
<1>1. ASSUME Init PROVE TypeOK
  <2>1. pc \in [Threads -> Labels]
    BY <1>1 DEF Init, Labels
  <2>2. caller \in [Threads -> Callers]
    BY <1>1 DEF Init, Callers
  <2> QED BY <1>1, <2>1, <2>2 DEF Init, TypeOK
<1> QED BY <1>1, TypeStep, PTL DEF Spec

-----------------------------------------------------------------------------
(* Why nothing is read or published before registration: the code checks   *)
(* m_registered some statements before it acts, and the check stays true   *)
(* because nothing but the end of the process resets m_registered.         *)
CheckedRegistered ==
    /\ running => registered
    /\ published => registered
    /\ mainPc = "publish" => registered
    /\ \A t \in Threads :
           pc[t] \in {"readConnected", "start", "starting"} => registered

LEMMA CheckedStep ==
    TypeOK /\ CheckedRegistered /\ [Next]_lifeVars => CheckedRegistered'
<1> SUFFICES ASSUME TypeOK, CheckedRegistered, [Next]_lifeVars
             PROVE  CheckedRegistered'
  OBVIOUS
<1> USE DEF TypeOK, CheckedRegistered, Enter, Goto, Return
<1>1. ASSUME NEW t \in Threads, Callback(t) PROVE CheckedRegistered'
  <2>1. ASSUME NEW up \in BOOLEAN, ConnectionChanged(t, up)
        PROVE CheckedRegistered'
    BY <2>1 DEF ConnectionChanged
  <2>2. ASSUME NEW s \in Statuses \ {"NONE"}, PlatformStatus(t, s)
        PROVE CheckedRegistered'
    BY <2>2 DEF PlatformStatus
  <2>3. ASSUME NEW all \in BOOLEAN, RegistrationResult(t, all)
        PROVE CheckedRegistered'
    BY <2>3 DEF RegistrationResult
  <2> QED BY <1>1, <2>1, <2>2, <2>3 DEF Callback
<1>2. ASSUME NEW t \in Threads, Statement(t) PROVE CheckedRegistered'
  <2> AfterChange(t) \in {"checkRegistered", "status"}
    BY DEF AfterChange
  <2>1. CASE Stop(t)
    BY <2>1 DEF Stop
  <2>2. CASE ReadRegistered(t)
    BY <2>2 DEF ReadRegistered
  <2>3. CASE ReadConnected(t)
    BY <2>3 DEF ReadConnected
  <2>4. CASE Start(t)
    BY <2>4 DEF Start
  <2>5. CASE StartReturn(t)
    BY <2>5 DEF StartReturn
  <2>6. CASE Status(t) \/ StatusReturn(t)
    BY <2>6 DEF Status, StatusReturn
  <2>7. CASE Notify(t) \/ CheckRegistered(t) \/ Retry(t)
    BY <2>7 DEF Notify, CheckRegistered, Retry
  <2> QED BY <1>2, <2>1, <2>2, <2>3, <2>4, <2>5, <2>6, <2>7 DEF Statement
<1>3. CASE Main
  BY <1>3 DEF Main, MainReadConnected, MainReadRegistered, MainPublish
<1>4. CASE Restart
  BY <1>4 DEF Restart
<1>5. CASE UNCHANGED lifeVars
  BY <1>5 DEF lifeVars
<1> QED BY <1>1, <1>2, <1>3, <1>4, <1>5 DEF Next

(* No register is read and nothing is published before the devices are     *)
(* registered, however many callbacks overlap.                             *)
THEOREM RegistrationFirst == Spec => []NothingBeforeRegistration
<1>1. Init => CheckedRegistered
  BY DEF Init, CheckedRegistered
<1>2. CheckedRegistered => NothingBeforeRegistration
  BY DEF CheckedRegistered, NothingBeforeRegistration
<1> QED BY <1>1, <1>2, CheckedStep, TypeCorrect, PTL DEF Spec

-----------------------------------------------------------------------------
(* Why a registration is always on its way: a thread serving the listener  *)
(* cannot return anywhere but at its own check of m_registered.            *)
ListenerPath ==
    \A t \in Threads :
        pc[t] \in {"idle", "status", "inStatus", "notify", "readConnected"}
            => caller[t] # "listener"

HopeInv == ListenerPath /\ NeverStranded

LEMMA HopeStep == TypeOK /\ HopeInv /\ [Next]_lifeVars => HopeInv'
<1> SUFFICES ASSUME TypeOK, HopeInv, [Next]_lifeVars PROVE HopeInv'
  OBVIOUS
<1> USE DEF TypeOK, HopeInv, ListenerPath, NeverStranded, Enter, Goto, Return
<1>1. ASSUME NEW t \in Threads, Callback(t) PROVE HopeInv'
  <2>1. ASSUME NEW up \in BOOLEAN, ConnectionChanged(t, up) PROVE HopeInv'
    BY <2>1 DEF ConnectionChanged
  <2>2. ASSUME NEW s \in Statuses \ {"NONE"}, PlatformStatus(t, s) PROVE HopeInv'
    BY <2>2 DEF PlatformStatus, Statuses
  <2>3. ASSUME NEW all \in BOOLEAN, RegistrationResult(t, all) PROVE HopeInv'
    BY <2>3 DEF RegistrationResult
  <2> QED BY <1>1, <2>1, <2>2, <2>3 DEF Callback
<1>2. ASSUME NEW t \in Threads, Statement(t) PROVE HopeInv'
  <2> USE DEF AfterChange
  <2>1. CASE Stop(t)
    BY <2>1 DEF Stop
  <2>2. CASE ReadRegistered(t)
    BY <2>2 DEF ReadRegistered
  <2>3. CASE ReadConnected(t)
    BY <2>3 DEF ReadConnected
  <2>4. CASE Start(t)
    BY <2>4 DEF Start
  <2>5. CASE StartReturn(t)
    BY <2>5 DEF StartReturn
  <2>6. CASE Status(t) \/ StatusReturn(t)
    BY <2>6 DEF Status, StatusReturn
  <2>7. CASE Notify(t)
    BY <2>7 DEF Notify, RegisterDevices
  <2>8. CASE CheckRegistered(t)
    BY <2>8 DEF CheckRegistered, RegisterDevices
  <2>9. CASE Retry(t)
    BY <2>9 DEF Retry, RegisterDevices
  <2> QED
    BY <1>2, <2>1, <2>2, <2>3, <2>4, <2>5, <2>6, <2>7, <2>8, <2>9 DEF Statement
<1>3. CASE Main
  BY <1>3 DEF Main, MainReadConnected, MainReadRegistered, MainPublish
<1>4. CASE Restart
  BY <1>4 DEF Restart
<1>5. CASE UNCHANGED lifeVars
  BY <1>5 DEF lifeVars
<1> QED BY <1>1, <1>2, <1>3, <1>4, <1>5 DEF Next

(* A connected, unregistered module always has a registration unanswered   *)
(* or a callback under way that registers, however many callbacks overlap. *)
THEOREM RegistrationOnItsWay == Spec => []NeverStranded
<1>1. Init => HopeInv
  BY DEF Init, HopeInv, ListenerPath, NeverStranded
<1>2. HopeInv => NeverStranded
  BY DEF HopeInv
<1> QED BY <1>1, <1>2, HopeStep, TypeCorrect, PTL DEF Spec

-----------------------------------------------------------------------------
(* The reader of a module whose callbacks do not overlap: what is known at *)
(* each statement of the one callback that may be under way.               *)
Serial == \A t, u \in Threads : t = u

Ready == connected /\ registered

ReaderInv ==
    \A t \in Threads :
        /\ pc[t] \in {"idle", "checkRegistered", "status", "inStatus",
                      "notify", "retry"} => (running <=> Ready)
        /\ pc[t] = "stop" => ~connected
        /\ pc[t] = "readRegistered" => connected
        /\ pc[t] = "readConnected" => registered /\ (running => connected)
        /\ pc[t] \in {"start", "starting"} => Ready
        /\ pc[t] = "starting" => running

LEMMA ReaderStep ==
    ASSUME Serial
    PROVE  TypeOK /\ CheckedRegistered /\ ReaderInv /\ [Next]_lifeVars
               => ReaderInv'
<1> SUFFICES ASSUME TypeOK, CheckedRegistered, ReaderInv, [Next]_lifeVars
             PROVE  ReaderInv'
  OBVIOUS
<1> USE DEF Serial, TypeOK, ReaderInv, Ready, Enter, Goto, Return
<1>1. ASSUME NEW t \in Threads, Callback(t) PROVE ReaderInv'
  <2>1. ASSUME NEW up \in BOOLEAN, ConnectionChanged(t, up) PROVE ReaderInv'
    BY <2>1 DEF ConnectionChanged
  <2>2. ASSUME NEW s \in Statuses \ {"NONE"}, PlatformStatus(t, s)
        PROVE ReaderInv'
    BY <2>2 DEF PlatformStatus
  <2>3. ASSUME NEW all \in BOOLEAN, RegistrationResult(t, all) PROVE ReaderInv'
    BY <2>3 DEF RegistrationResult
  <2> QED BY <1>1, <2>1, <2>2, <2>3 DEF Callback
<1>2. ASSUME NEW t \in Threads, Statement(t) PROVE ReaderInv'
  <2> AfterChange(t) \in {"checkRegistered", "status"}
    BY DEF AfterChange
  <2>1. CASE Stop(t)
    BY <2>1 DEF Stop
  <2>2. CASE ReadRegistered(t)
    BY <2>2 DEF ReadRegistered, CheckedRegistered
  <2>3. CASE ReadConnected(t)
    BY <2>3 DEF ReadConnected
  <2>4. CASE Start(t)
    BY <2>4 DEF Start
  <2>5. CASE StartReturn(t)
    BY <2>5 DEF StartReturn
  <2>6. CASE Status(t) \/ StatusReturn(t)
    BY <2>6 DEF Status, StatusReturn
  <2>7. CASE Notify(t) \/ CheckRegistered(t) \/ Retry(t)
    BY <2>7 DEF Notify, CheckRegistered, Retry
  <2> QED BY <1>2, <2>1, <2>2, <2>3, <2>4, <2>5, <2>6, <2>7 DEF Statement
<1>3. CASE Main
  BY <1>3 DEF Main, MainReadConnected, MainReadRegistered, MainPublish
<1>4. CASE Restart
  BY <1>4 DEF Restart
<1>5. CASE UNCHANGED lifeVars
  BY <1>5 DEF lifeVars
<1> QED BY <1>1, <1>2, <1>3, <1>4, <1>5 DEF Next

(* If the SDK serialises its callbacks, then between callbacks the reader  *)
(* runs exactly while the module is connected and registered.              *)
THEOREM SerialCallbacks == ASSUME Serial PROVE Spec => []ReadsIffReady
<1>1. Init => CheckedRegistered /\ ReaderInv
  BY DEF Init, CheckedRegistered, ReaderInv, Ready
<1>2. ReaderInv => ReadsIffReady
  BY ThreadsAssumption DEF ReaderInv, ReadsIffReady, AllIdle, Ready
<1> QED
  BY <1>1, <1>2, CheckedStep, ReaderStep, TypeCorrect, PTL DEF Spec
=============================================================================
