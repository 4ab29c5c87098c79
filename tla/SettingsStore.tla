--------------------------- MODULE SettingsStore ---------------------------
(***************************************************************************)
(* What the bridge promises about the settings the platform can change: a  *)
(* value per configured mapping that changes when a reading is received,   *)
(* and a kept one that follows it.  A save replaces the kept values of a   *)
(* whole setting: while it goes on, a relaunch brings the configured ones  *)
(* back, and a fault may cost any of them.  There is no map, no file and   *)
(* no thread here.                                                         *)
(***************************************************************************)
EXTENDS Naturals

CONSTANTS
    Settings,   \* which settings
    Texts,      \* what a setting can be changed to
    Initial     \* Initial[s]: a value for each mapping that has the setting

VARIABLES
    value,      \* value[s][k]: the value in force
    kept,       \* kept[s][k]: the value a relaunch brings
    unsaved,    \* <<s, k>> that may differ in the two
    saving,     \* settings whose kept values are being replaced
    mixed,      \* settings nothing is known of: two changes came at once
    received    \* readings received so far

vars == <<value, kept, unsaved, saving, mixed, received>>

Init ==
    /\ value = Initial /\ kept = Initial
    /\ unsaved = {} /\ saving = {} /\ mixed = {} /\ received = 0

Pairs(s) == {s} \X DOMAIN Initial[s]

(* Changes of s meet: until the relaunch it keeps no promise. *)
Overlap(s) ==
    /\ mixed' = mixed \cup {s} /\ saving' = saving \ {s}
    /\ unsaved' = unsaved \ Pairs(s)
    /\ kept' = [kept EXCEPT ![s] = Initial[s]]

(* A reading changes one value, or it is about something else. *)
Receive ==
    /\ received' = received + 1
    /\ \/ /\ UNCHANGED value
          /\ UNCHANGED <<kept, unsaved, saving, mixed>> \/ \E s \in Settings : Overlap(s)
       \/ \E s \in Settings, text \in Texts : \E k \in DOMAIN Initial[s] :
            /\ value' = [value EXCEPT ![s][k] = text]
            /\ \/ /\ unsaved' = unsaved \cup {<<s, k>>}
                  /\ UNCHANGED <<kept, saving, mixed>>
               \/ Overlap(s)

(* The values of K are saved.  The others stay as they are, but one that    *)
(* was in doubt may fall back to the configured one.                        *)
Save(s, K) ==
    /\ s \notin mixed /\ s \notin saving /\ saving' = saving \cup {s}
    /\ kept' = [kept EXCEPT ![s] = kept'[s]]
    /\ DOMAIN kept'[s] = DOMAIN Initial[s]
    /\ \A k \in DOMAIN Initial[s] :
        IF k \in K THEN kept'[s][k] = value[s][k]
        ELSE \/ kept'[s][k] = kept[s][k]
             \/ <<s, k>> \in unsaved /\ kept'[s][k] = Initial[s][k]
    /\ unsaved' = unsaved \ ({s} \X K)
    /\ UNCHANGED <<value, mixed, received>>

(* The save is over. *)
Saved(s) ==
    /\ s \in saving /\ saving' = saving \ {s}
    /\ UNCHANGED <<value, kept, unsaved, mixed, received>>

(* What was kept of a setting cannot be read, or a save of it fails. *)
Doubt(s) ==
    /\ s \notin mixed
    /\ unsaved' = unsaved \cup Pairs(s)
    /\ \/ UNCHANGED <<kept, saving>>
       \/ s \in saving /\ saving' = saving \ {s} /\ kept' = [kept EXCEPT ![s] = Initial[s]]
    /\ UNCHANGED <<value, mixed, received>>

Relaunch ==
    /\ kept' = value'
    /\ DOMAIN value' = Settings
    /\ \A s \in Settings :
        IF s \in mixed THEN value'[s] \in [DOMAIN Initial[s] -> Texts]
        ELSE value'[s] = IF s \in saving THEN Initial[s] ELSE kept[s]
    /\ unsaved' = {} /\ saving' = {} /\ mixed' = {}
    /\ UNCHANGED received

Next ==
    \/ Receive
    \/ \E s \in Settings :
        \/ \E K \in SUBSET DOMAIN Initial[s] : Save(s, K)
        \/ Saved(s) \/ Doubt(s)
    \/ Relaunch

Spec == Init /\ [][Next]_vars
=============================================================================
