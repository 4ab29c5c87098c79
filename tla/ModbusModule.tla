---------------------------- MODULE ModbusModule ----------------------------
(***************************************************************************)
(* The module as main() wires it: the StateHandler calls start(), stop()   *)
(* and platformStatus() of the ModbusBridge, the SDK calls the             *)
(* StateHandler and handleUpdate() of the bridge.                          *)
(*                                                                         *)
(* A call is a joint step of the two components, a return too; whatever a  *)
(* component does between them is a step of its own that leaves the other  *)
(* alone.  The reader (running) is the state they share.                   *)
(***************************************************************************)
EXTENDS Integers, FiniteSets

CONSTANTS
    Threads, MaxRequests,
    Mappings, Stale, Numbers, NotANumber, Absent, Configured, Inputs,
    Received, WriteOutcomes, StoreOutcomes, MaxUpdates

VARIABLES
    connected, registered, pc, caller, link, requests, mainPc, published,
    running,
    process, status, memory, disk, written, job, call, json, todo,
    endangered, unsaved, overlapped, refused, updates,
    actuated   \* history: mappings the platform gave another value or default
               \* since the default values were last written

Life == INSTANCE StateHandler
Bridge == INSTANCE ModbusBridge

(* What the two components assume of their constants. *)
ASSUME LifeAssumption == Life!ThreadsAssumption /\ Life!MaxRequestsAssumption
ASSUME BridgeAssumption ==
    /\ Bridge!KeysAssumption /\ Bridge!NumbersAssumption
    /\ Bridge!ConfiguredAssumption /\ Bridge!InputsAssumption
    /\ Bridge!OutcomesAssumption /\ Bridge!MaxUpdatesAssumption

(* What only the StateHandler and main() change, and only the bridge. *)
lifeOwn == <<connected, registered, pc, caller, link, requests, mainPc,
             published>>
bridgeOwn == <<process, status, memory, disk, written, job, call, json, todo,
               endangered, unsaved, overlapped, refused, updates>>
vars == <<lifeOwn, running, bridgeOwn, actuated>>

Init == Life!Init /\ Bridge!Init /\ actuated = {}

-----------------------------------------------------------------------------
(* Calls of the StateHandler into the bridge, and their returns            *)

CallStart(t) == Life!Start(t) /\ Bridge!Start(t)

(* Mutant: start() returns while the default values are being written. *)
ReturnFromStartEarly(t) ==
    /\ Life!StartReturn(t)
    /\ job[t] = "start" /\ job' = [job EXCEPT ![t] = "none"]
    /\ todo' = [todo EXCEPT ![t] = {}]
    /\ UNCHANGED <<process, status, memory, disk, written, call, json, endangered,
                   unsaved, overlapped, refused, updates>>

ReturnFromStart(t) == Life!StartReturn(t) /\ Bridge!StartReturn(t)

(* Mutant: the reader is left running. *)
CallStopForgotten(t) ==
    /\ pc[t] = "stop"
    /\ Life!Goto(t, Life!AfterChange(t))
    /\ UNCHANGED <<connected, registered, link, requests, mainPc, published,
                   running, bridgeOwn>>

CallStop(t) == Life!Stop(t) /\ Bridge!Stop(t)

CallPlatformStatus(t) ==
    Life!Status(t) /\ Bridge!PlatformStatus(t, caller[t])

ReturnFromPlatformStatus(t) ==
    Life!StatusReturn(t) /\ Bridge!StatusReturn(t)

-----------------------------------------------------------------------------
(* Steps of one component                                                  *)

(* The SDK delivers readings while it is connected, on a thread of its own. *)
Readings(t) ==
    /\ pc[t] = "idle" /\ link
    /\ Bridge!HandleUpdate(t)
    /\ UNCHANGED lifeOwn

WriteEntry(t) ==
    /\ \E k \in Bridge!Keys : Bridge!WriteEntry(t, k)
    /\ UNCHANGED lifeOwn

(* storeValue(), in the thread that delivers the reading. *)
Store(t) == Bridge!Store(t) /\ UNCHANGED lifeOwn

(* A thread that has returned is given the next callback. *)
Enter(t) ==
    /\ process = "up" /\ job[t] = "none"
    /\ Life!Callback(t)
    /\ UNCHANGED bridgeOwn

(* The statements of the callbacks that do not call the bridge. *)
Statement(t) ==
    /\ process = "up"
    /\ \/ Life!ReadRegistered(t) \/ Life!ReadConnected(t)
       \/ Life!Notify(t) \/ Life!CheckRegistered(t) \/ Life!Retry(t)
    /\ UNCHANGED bridgeOwn

Main == process = "up" /\ Life!Main /\ UNCHANGED bridgeOwn

(* A dead process is relaunched: new StateHandler, new bridge. *)
Kill == Bridge!Kill /\ UNCHANGED lifeOwn

Relaunch == Life!Restart /\ Bridge!Initialize

-----------------------------------------------------------------------------
InCallback(t) ==
    \/ CallStart(t) \/ ReturnFromStart(t) \/ CallStop(t)
    \/ CallPlatformStatus(t) \/ ReturnFromPlatformStatus(t)
    \/ WriteEntry(t) \/ Statement(t)

(* What a reading did to a mapping: another value or a refused write, or    *)
(* another default value.                                                   *)
Touched ==
    {k \in Mappings : \/ written'[k] # written[k] \/ ~(k \in refused' <=> k \in refused)
                      \/ memory'["DFV"][k] # memory["DFV"][k]}

Remember ==
    actuated' =
        IF updates' # updates THEN actuated \cup Touched
        ELSE IF \E t \in Threads : pc[t] = "start" /\ pc'[t] = "starting" THEN {}
        ELSE actuated

Next ==
    /\ \/ \E t \in Threads : InCallback(t) \/ Enter(t) \/ Readings(t) \/ Store(t)
       \/ Main
       \/ Kill
       \/ Relaunch
    /\ Remember

Spec == Init /\ [][Next]_vars

(* A callback under way goes on: the loops of the module have no wait but   *)
(* the sleep of the retry.                                                  *)
FairSpec == Spec /\ \A t \in Threads : WF_vars(InCallback(t) /\ Remember)

-----------------------------------------------------------------------------
(***************************************************************************)
(* The module is a ModbusBridge: the callers it has in the StateHandler and *)
(* the SDK call it with what it expects and one call at a time per thread, *)
(* and nothing else of theirs shows in it.                                 *)
(***************************************************************************)
ImplementsBridge == Bridge!Spec

InForce(s, k) ==
    /\ memory[s][k] \notin {Absent, NotANumber}
    /\ written[k] = Bridge!Word(memory[s][k])

Settable(s) == {k \in Mappings : memory[s][k] \notin {Absent, NotANumber}}

(***************************************************************************)
(* While the registers are read and no callback is being served, every     *)
(* register that has a default value holds it, whatever came before: it     *)
(* does not hold its safe mode value any more (platformStatus() of          *)
(* StateHandler stops the reader before the safe values are written, and   *)
(* start() writes the defaults).  A register with a safe mode value but no *)
(* default value keeps the former.  Excepted are registers the wire refused *)
(* to write, and those the platform itself gave another value or default   *)
(* since start().  Needs serialised callbacks.                             *)
(***************************************************************************)
DefaultsWhileRunning ==
    process = "up" /\ running /\ Life!AllIdle =>
        \A k \in Settable("DFV") \ (refused \cup actuated) : InForce("DFV", k)

(***************************************************************************)
(* While start() writes the default values and platformStatus() the safe   *)
(* mode values, each one already visited is in its register, and when they *)
(* return each one is, unless the wire refused that very write             *)
(* (writeAMapOfValues).  Needs serialised callbacks.                       *)
(***************************************************************************)
VisitedHoldsValue == Bridge!VisitedHoldsValue

(***************************************************************************)
(* An OFFLINE status that the bridge did not have yet gets every safe mode *)
(* value written, unless the process dies first: its platformStatus() comes *)
(* to its end, and the registers then hold them but for those whose write  *)
(* it saw the wire refuse.                                                 *)
(***************************************************************************)
OfflineArrives ==
    \E t \in Threads :
        pc[t] = "status" /\ caller[t] = "OFFLINE" /\ status # "OFFLINE"

OfflineHandled ==
    /\ \E t \in Threads :
        pc[t] = "inStatus" /\ caller[t] = "OFFLINE" /\ job[t] = "safe" /\ todo[t] = {}
    /\ \A k \in Settable("SMV") \ refused : InForce("SMV", k)

SafeModeApplied ==
    process = "up" /\ OfflineArrives ~> process # "up" \/ OfflineHandled

(***************************************************************************)
(* README, Safe Mode value: "it will be written in when the communication  *)
(* with the platform is lost".  Once every callback has returned and the   *)
(* last status is OFFLINE, the safe values should be in the registers.     *)
(***************************************************************************)
SafeWhileOffline ==
    process = "up" /\ status = "OFFLINE" /\ Life!AllIdle =>
        \A k \in Settable("SMV") : InForce("SMV", k)
=============================================================================
