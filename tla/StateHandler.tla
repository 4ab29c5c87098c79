---------------------------- MODULE StateHandler ----------------------------
(***************************************************************************)
(* Life cycle of the Modbus module: the StateHandler of Application.cpp,   *)
(* the three callbacks main() hands to the WolkAbout SDK, the registration *)
(* protocol they drive and main()'s publishing loop.                       *)
(*                                                                         *)
(* The SDK calls the module back from threads of its own; nothing in the   *)
(* module locks.  Threads is the set of SDK threads that may be inside a   *)
(* callback at once; a singleton models an SDK that serialises them.  Each *)
(* access to a member of StateHandler that another thread can see is a     *)
(* step of its own, pc[t] names the statement thread t executes next.      *)
(* Calls into ModbusBridge are a call step and a return step; what happens *)
(* in between is the business of ModbusBridge.tla.                         *)
(***************************************************************************)
EXTENDS Integers, FiniteSets

CONSTANTS
    Threads,      \* SDK threads that run callbacks
    MaxRequests   \* bound: registrations outstanding or about to be made

ASSUME ThreadsAssumption == Threads # {}
ASSUME MaxRequestsAssumption == MaxRequests \in Nat

VARIABLES
    connected,    \* StateHandler::m_connected
    registered,   \* StateHandler::m_registered
    running,      \* the ModbusReader runs (external; ModbusBridge::isRunning)
    pc,           \* thread -> statement it executes next
    caller,       \* thread -> which callback it is in
    link,         \* external: what the SDK last told about the MQTT connection
    requests,     \* external: registerDevices calls whose answer is to come
    mainPc,       \* where the loop of main() is
    published     \* history: main() has called wolk->publish()

lifeVars == <<connected, registered, running, pc, caller, link, requests,
              mainPc, published>>

(* The values of ConnectivityStatus this repository names. *)
Statuses == {"NONE", "CONNECTED", "OFFLINE"}

(* A platform status callback is named by the status it delivers. *)
Callers == {"none", "listener", "registration"} \cup Statuses

Labels == {"idle", "stop", "readRegistered", "start", "starting",
           "readConnected", "status", "inStatus", "notify", "checkRegistered",
           "retry"}

Goto(t, label) ==
    /\ pc' = [pc EXCEPT ![t] = label]
    /\ UNCHANGED caller

Return(t) ==
    /\ pc' = [pc EXCEPT ![t] = "idle"]
    /\ caller' = [caller EXCEPT ![t] = "none"]

Enter(t, who, label) ==
    /\ pc[t] = "idle"
    /\ pc' = [pc EXCEPT ![t] = label]
    /\ caller' = [caller EXCEPT ![t] = who]

(* What follows changeConnected() in the callback that called it; the      *)
(* registration callback calls changeRegistered() as its last statement.   *)
AfterChange(t) ==
    IF caller[t] = "listener" THEN "checkRegistered" ELSE "status"

(* wolk->registerDevices(): a request made on a dead connection may be lost. *)
RegisterDevices ==
    requests' \in IF link THEN {requests + 1} ELSE {requests, requests + 1}

(* Bound: a callback is only entered while there is room for the request   *)
(* it may make.                                                            *)
RoomForRequest ==
    requests + Cardinality({t \in Threads : pc[t] # "idle"}) < MaxRequests

Init ==
    /\ connected = FALSE /\ registered = FALSE
    /\ running = FALSE
    /\ pc = [t \in Threads |-> "idle"]
    /\ caller = [t \in Threads |-> "none"]
    /\ link = FALSE /\ requests = 0
    /\ mainPc = "sleep"
    /\ published = FALSE

-----------------------------------------------------------------------------
(* SDK callbacks: entry                                                    *)

(* The connection status listener: m_connected is assigned first.  Answers *)
(* that were on their way when the connection drops may never come.        *)
ConnectionChanged(t, up) ==
    /\ link # up /\ RoomForRequest
    /\ Enter(t, "listener", IF up THEN "readRegistered" ELSE "stop")
    /\ link' = up
    /\ connected' = up
    /\ requests' \in IF up THEN {requests} ELSE 0..requests
    /\ UNCHANGED <<registered, running, mainPc, published>>

(* StateHandler::platformStatus, called when the gateway reports a status. *)
PlatformStatus(t, s) ==
    /\ link /\ RoomForRequest
    /\ Enter(t, s, IF s = "CONNECTED" THEN "readRegistered" ELSE "stop")
    /\ connected' = (s = "CONNECTED")
    /\ UNCHANGED <<registered, running, link, requests, mainPc, published>>

(* Mutant: an answer to a request that was never made is counted.          *)
RegistrationResultUnasked(t, all) ==
    /\ Enter(t, "registration", IF all THEN "readConnected" ELSE "retry")
    /\ requests' = requests - 1
    /\ registered' = (registered \/ all)
    /\ UNCHANGED <<connected, running, link, mainPc, published>>

(* callbackForRegistration: all the devices were registered, or not.       *)
RegistrationResult(t, all) ==
    /\ requests > 0
    /\ Enter(t, "registration", IF all THEN "readConnected" ELSE "retry")
    /\ requests' = requests - 1
    /\ registered' = (registered \/ all)
    /\ UNCHANGED <<connected, running, link, mainPc, published>>

-----------------------------------------------------------------------------
(* Statements of the callbacks                                             *)

(* changeConnected(false): m_modbusBridge.stop(). *)
Stop(t) ==
    /\ pc[t] = "stop"
    /\ running' = FALSE
    /\ Goto(t, AfterChange(t))
    /\ UNCHANGED <<connected, registered, link, requests, mainPc, published>>

(* Mutant: the bridge is started without a look at m_registered. *)
ReadRegisteredSkipped(t) ==
    /\ pc[t] = "readRegistered"
    /\ Goto(t, "start")
    /\ UNCHANGED <<connected, registered, running, link, requests, mainPc,
                   published>>

(* changeConnected(true): if (m_registered). *)
ReadRegistered(t) ==
    /\ pc[t] = "readRegistered"
    /\ Goto(t, IF registered THEN "start" ELSE AfterChange(t))
    /\ UNCHANGED <<connected, registered, running, link, requests, mainPc,
                   published>>

(* Mutants: the bridge is started without a look at m_connected; never. *)
ReadConnectedSkipped(t) ==
    /\ pc[t] = "readConnected"
    /\ Goto(t, "start")
    /\ UNCHANGED <<connected, registered, running, link, requests, mainPc,
                   published>>

ReadConnectedNoStart(t) ==
    /\ pc[t] = "readConnected"
    /\ Return(t)
    /\ UNCHANGED <<connected, registered, running, link, requests, mainPc,
                   published>>

(* changeRegistered(true): if (m_connected && registered). *)
ReadConnected(t) ==
    /\ pc[t] = "readConnected"
    /\ IF connected THEN Goto(t, "start") ELSE Return(t)
    /\ UNCHANGED <<connected, registered, running, link, requests, mainPc,
                   published>>

(* m_modbusBridge.start(): the reader is started first ... *)
Start(t) ==
    /\ pc[t] = "start"
    /\ running' = TRUE
    /\ Goto(t, "starting")
    /\ UNCHANGED <<connected, registered, link, requests, mainPc, published>>

(* ... and start() returns when the default values have been written. *)
StartReturn(t) ==
    /\ pc[t] = "starting"
    /\ IF caller[t] = "registration" THEN Return(t) ELSE Goto(t, AfterChange(t))
    /\ UNCHANGED <<connected, registered, running, link, requests, mainPc,
                   published>>

(* m_modbusBridge.platformStatus(status): call and return. *)
Status(t) ==
    /\ pc[t] = "status"
    /\ Goto(t, "inStatus")
    /\ UNCHANGED <<connected, registered, running, link, requests, mainPc,
                   published>>

StatusReturn(t) ==
    /\ pc[t] = "inStatus"
    /\ Goto(t, "notify")
    /\ UNCHANGED <<connected, registered, running, link, requests, mainPc,
                   published>>

(* m_platformStatusCallback: CONNECTED registers the devices, always. *)
Notify(t) ==
    /\ pc[t] = "notify"
    /\ IF caller[t] = "CONNECTED" THEN RegisterDevices ELSE UNCHANGED requests
    /\ Return(t)
    /\ UNCHANGED <<connected, registered, running, link, mainPc, published>>

(* The listener: if (!stateHandler->isRegistered()) registerDevices(). *)
CheckRegistered(t) ==
    /\ pc[t] = "checkRegistered"
    /\ IF registered THEN UNCHANGED requests ELSE RegisterDevices
    /\ Return(t)
    /\ UNCHANGED <<connected, registered, running, link, mainPc, published>>

(* Mutant: a failed registration is not tried again. *)
RetryDropped(t) ==
    /\ pc[t] = "retry"
    /\ Return(t)
    /\ UNCHANGED <<connected, registered, running, link, requests, mainPc,
                   published>>

(* The registration failed: the callback sleeps, then registers again. *)
Retry(t) ==
    /\ pc[t] = "retry"
    /\ RegisterDevices
    /\ Return(t)
    /\ UNCHANGED <<connected, registered, running, link, mainPc, published>>

-----------------------------------------------------------------------------
(* The loop of main(): isConnected() && isRegistered(), then publish().    *)

MainReadConnected ==
    /\ mainPc = "sleep" /\ connected
    /\ mainPc' = "readRegistered"
    /\ UNCHANGED <<connected, registered, running, pc, caller, link, requests,
                   published>>

MainReadRegistered ==
    /\ mainPc = "readRegistered"
    /\ mainPc' = IF registered THEN "publish" ELSE "sleep"
    /\ UNCHANGED <<connected, registered, running, pc, caller, link, requests,
                   published>>

MainPublish ==
    /\ mainPc = "publish"
    /\ mainPc' = "sleep"
    /\ published' = TRUE
    /\ UNCHANGED <<connected, registered, running, pc, caller, link, requests>>

(* The process dies and the service manager starts it again (Restart=always); *)
(* no member survives, nor does an answer to the old process.                 *)
Restart ==
    /\ connected' = FALSE /\ registered' = FALSE
    /\ running' = FALSE
    /\ pc' = [t \in Threads |-> "idle"]
    /\ caller' = [t \in Threads |-> "none"]
    /\ link' = FALSE /\ requests' = 0
    /\ mainPc' = "sleep"
    /\ published' = FALSE

Callback(t) ==
    \/ \E up \in BOOLEAN : ConnectionChanged(t, up)
    \/ \E s \in Statuses \ {"NONE"} : PlatformStatus(t, s)
    \/ \E all \in BOOLEAN : RegistrationResult(t, all)

Statement(t) ==
    \/ Stop(t) \/ ReadRegistered(t) \/ ReadConnected(t)
    \/ Start(t) \/ StartReturn(t)
    \/ Status(t) \/ StatusReturn(t) \/ Notify(t)
    \/ CheckRegistered(t) \/ Retry(t)

Main == MainReadConnected \/ MainReadRegistered \/ MainPublish

Next ==
    \/ \E t \in Threads : Callback(t) \/ Statement(t)
    \/ Main
    \/ Restart

Spec == Init /\ [][Next]_lifeVars

(***************************************************************************)
(* A thread inside a callback is scheduled until it returns, main() loops  *)
(* for ever, and the gateway, asked over and over, does register the       *)
(* devices in the end: the retry of the code has no other hope.            *)
(***************************************************************************)
Fairness ==
    /\ \A t \in Threads : WF_lifeVars(Statement(t))
    /\ WF_lifeVars(Main)
    /\ SF_lifeVars(\E t \in Threads : RegistrationResult(t, TRUE))

FairSpec == Spec /\ Fairness

-----------------------------------------------------------------------------
TypeOK ==
    /\ connected \in BOOLEAN /\ registered \in BOOLEAN
    /\ running \in BOOLEAN
    /\ pc \in [Threads -> Labels]
    /\ caller \in [Threads -> Callers]
    /\ link \in BOOLEAN /\ requests \in Nat
    /\ mainPc \in {"sleep", "readRegistered", "publish"}
    /\ published \in BOOLEAN

AllIdle == \A t \in Threads : pc[t] = "idle"

(***************************************************************************)
(* No register is read and nothing is published before the platform knows  *)
(* the devices (main's loop guard, and the two guards in front of          *)
(* m_modbusBridge.start(), whatever callbacks overlap).                    *)
(***************************************************************************)
NothingBeforeRegistration == running \/ published => registered

(***************************************************************************)
(* A connected module whose devices are not registered is never left       *)
(* without hope: a registration is unanswered, or a callback that registers *)
(* is on its way (the listener's check, the retry after a failure).        *)
(***************************************************************************)
NeverStranded ==
    link /\ ~registered =>
        \/ requests > 0
        \/ \E t \in Threads : caller[t] = "listener" \/ pc[t] = "retry"

(***************************************************************************)
(* When no callback is being served, the registers are read exactly while  *)
(* the module is both connected and registered, in whatever order the two  *)
(* became true (changeConnected, changeRegistered).  Needs callbacks that  *)
(* do not overlap: with two threads a stop() can come after the start()    *)
(* that followed it in time.                                               *)
(***************************************************************************)
ReadsIffReady == AllIdle => (running <=> connected /\ registered)

(***************************************************************************)
(* If the connection stays up and the platform connected, the module       *)
(* reads and publishes in the end, for good, whatever answers were lost    *)
(* and whatever registrations were refused before (the retry of main()).   *)
(***************************************************************************)
EventuallyReading == <>[](link /\ connected) => <>[](running /\ published)
=============================================================================
