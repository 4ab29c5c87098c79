------------------------- MODULE SettingsRefinement -------------------------
(* ModbusBridge implements SettingsStore for default and safe mode values.  *)
EXTENDS ModbusBridge

PlatformSettings == {"DFV", "SMV"}

Having(s) == {k \in Mappings : Configured[s][k] # Absent}

(* The values in force are those the bridge would write (those of a dead    *)
(* process, the last it had); the values kept, what initialize() would load. *)
ValueInForce ==
    [s \in PlatformSettings |-> [k \in Having(s) |-> memory[s][k]]]

(* While a file is being written, what is in it once that has ended. *)
FileOf(s) ==
    IF Writers(s) = {} THEN disk[s] ELSE json[CHOOSE t \in Writers(s) : TRUE]

Apart(s) == s \notin overlapped

ConfiguredValue ==
    [s \in PlatformSettings |-> [k \in Having(s) |-> Configured[s][k]]]

ValueKept ==
    [s \in PlatformSettings |->
        [k \in Having(s) |->
            IF Apart(s) THEN Load(s, FileOf(s))[k] ELSE Configured[s][k]]]

UnsavedHere ==
    {p \in unsaved : p[1] \in PlatformSettings /\ Apart(p[1]) /\ p[2] \in Having(p[1])}

SavingHere == {s \in PlatformSettings : Apart(s) /\ Writers(s) # {}}

Promise == INSTANCE SettingsStore WITH
    Settings <- PlatformSettings,
    received <- updates,
    Initial <- ConfiguredValue,
    value <- ValueInForce,
    kept <- ValueKept,
    unsaved <- UnsavedHere,
    saving <- SavingHere,
    mixed <- overlapped \cap PlatformSettings

(***************************************************************************)
(* The default and safe mode values of configured mappings behave as one   *)
(* store with a durable copy: nothing but a reading for it changes a value, *)
(* a relaunch brings back what is kept, and what the platform sends for     *)
(* mappings without the setting is invisible (handleUpdate, storeValue()    *)
(* and initialize() together).  A death costs a setting only while its file *)
(* is open; otherwise a kept value is lost only where a file could not be   *)
(* read, or could not be written whole, since the launch.                   *)
(***************************************************************************)
IsSettingsStore == Promise!Spec
=============================================================================
