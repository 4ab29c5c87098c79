-------------------------- MODULE FilePersistence --------------------------
(***************************************************************************)
(* JsonFilePersistence: storeValue() reads the whole file, changes one key *)
(* and writes the whole file back; loadValues() reads it at the launch.    *)
(* There is neither a lock nor a temporary file.                           *)
(*                                                                         *)
(* FileSystemUtils is external: readFileContent() may fail on a file that  *)
(* is there; createFileWithContent() opens the file, which empties it, and *)
(* then writes.  A process that dies in between, or a disk that is full,   *)
(* leaves an empty file or a prefix of the text, which is no JSON; two     *)
(* writers at once may leave the tail of the longer text behind the        *)
(* shorter one, which is none either.                                      *)
(***************************************************************************)
EXTENDS Naturals

CONSTANTS
    Threads,        \* threads that call storeValue()
    Keys,           \* "<device key>.<reference>"
    Values,         \* texts that are stored
    Absent,         \* the key is not in the map
    Missing,        \* there is no file
    Empty,          \* the file has been opened for writing: no text
    Torn,           \* the text does not parse
    Outcomes,       \* does a call of FileSystemUtils succeed?
    MaxStores       \* bound: calls of storeValue()

Maps == [Keys -> Values \cup {Absent}]
NoValues == [k \in Keys |-> Absent]

ASSUME AbsentAssumption == Absent \notin Values
ASSUME FileAssumption == {Missing, Empty, Torn} \cap Maps = {} /\ Empty # Torn
ASSUME OutcomesAssumption == Outcomes \subseteq BOOLEAN
ASSUME MaxStoresAssumption == MaxStores \in Nat

VARIABLES
    up,       \* there is a process
    file,     \* what is at m_filePath
    pc,       \* thread -> step of storeValue() it takes next
    key,      \* thread -> parameter of its storeValue()
    json,     \* thread -> local j
    written,  \* history: key -> value of the last store that ended well
    faults,   \* history: what went wrong so far
    exposed,  \* history: keys a fault may have hit since they were written
    stores    \* calls of storeValue() so far

vars == <<up, file, pc, key, json, written, faults, exposed, stores>>

Steps == {"idle", "open", "write"}
Faults == {"overlap", "unread", "torn"}

Alone(t) == \A u \in Threads \ {t} : pc[u] = "idle"
Quiet == \A t \in Threads : pc[t] = "idle"

(* json::parse() of the content, nothing if there is none or it throws. *)
LoadValues(f) == IF f \in {Missing, Empty, Torn} THEN NoValues ELSE f

Strike(kinds) ==
    /\ faults' = faults \cup kinds
    /\ exposed' = IF kinds = {} THEN exposed ELSE Keys

Init ==
    /\ up = TRUE
    /\ file \in Maps \cup {Missing}
    /\ pc = [t \in Threads |-> "idle"]
    /\ key = [t \in Threads |-> Absent]
    /\ json = [t \in Threads |-> NoValues]
    /\ written = LoadValues(file)
    /\ faults = {} /\ exposed = {} /\ stores = 0

-----------------------------------------------------------------------------
(* Mutants: j starts empty; j is kept from one call to the next; the file  *)
(* is opened for reading and writing, which empties it.                    *)
StoreValueOnlyNew(t, k, v) ==
    /\ up /\ pc[t] = "idle"
    /\ stores < MaxStores /\ stores' = stores + 1
    /\ pc' = [pc EXCEPT ![t] = "open"]
    /\ key' = [key EXCEPT ![t] = k]
    /\ json' = [json EXCEPT ![t] = [NoValues EXCEPT ![k] = v]]
    /\ Strike(IF Alone(t) THEN {} ELSE {"overlap"})
    /\ UNCHANGED <<up, file, written>>

StoreValueCached(t, k, v) ==
    /\ up /\ pc[t] = "idle"
    /\ stores < MaxStores /\ stores' = stores + 1
    /\ pc' = [pc EXCEPT ![t] = "open"]
    /\ key' = [key EXCEPT ![t] = k]
    /\ json' = [json EXCEPT ![t][k] = v]
    /\ Strike(IF Alone(t) THEN {} ELSE {"overlap"})
    /\ UNCHANGED <<up, file, written>>

StoreValueOpens(t, k, v) ==
    /\ up /\ pc[t] = "idle"
    /\ stores < MaxStores /\ stores' = stores + 1
    /\ pc' = [pc EXCEPT ![t] = "open"]
    /\ key' = [key EXCEPT ![t] = k]
    /\ json' = [json EXCEPT ![t] = [LoadValues(file) EXCEPT ![k] = v]]
    /\ Strike(IF Alone(t) THEN {} ELSE {"overlap"})
    /\ file' = Empty
    /\ UNCHANGED <<up, written>>

(* storeValue(key, value): the content is read and the key changed.  When  *)
(* a file that is there cannot be read, j is empty and all the same written *)
(* over it.                                                                *)
StoreValue(t, k, v) ==
    /\ up /\ pc[t] = "idle"
    /\ stores < MaxStores /\ stores' = stores + 1
    /\ pc' = [pc EXCEPT ![t] = "open"]
    /\ key' = [key EXCEPT ![t] = k]
    /\ \E readable \in Outcomes :
        /\ json' = [json EXCEPT ![t] =
                [(IF readable THEN LoadValues(file) ELSE NoValues)
                    EXCEPT ![k] = v]]
        /\ Strike((IF Alone(t) THEN {} ELSE {"overlap"})
                    \cup (IF readable \/ file = Missing THEN {} ELSE {"unread"}))
    /\ UNCHANGED <<up, file, written>>

(* createFileWithContent() opens the file, or returns false. *)
Open(t) ==
    /\ up /\ pc[t] = "open"
    /\ \/ /\ TRUE \in Outcomes
          /\ file' = Empty
          /\ pc' = [pc EXCEPT ![t] = "write"]
       \/ /\ FALSE \in Outcomes
          /\ pc' = [pc EXCEPT ![t] = "idle"]
          /\ UNCHANGED file
    /\ UNCHANGED <<up, key, json, written, faults, exposed, stores>>

(* Mutant: the value is written in place of the text. *)
WriteValue(t) ==
    /\ up /\ pc[t] = "write"
    /\ TRUE \in Outcomes
    /\ pc' = [pc EXCEPT ![t] = "idle"]
    /\ file' = json[t][key[t]]
    /\ UNCHANGED <<up, key, json, written, faults, exposed, stores>>

(* The text arrives whole.  Over what another thread wrote meanwhile it    *)
(* may leave a tail.                                                       *)
Write(t) ==
    /\ up /\ pc[t] = "write"
    /\ TRUE \in Outcomes
    /\ pc' = [pc EXCEPT ![t] = "idle"]
    /\ written' = [written EXCEPT ![key[t]] = json[t][key[t]]]
    /\ \/ /\ file' = json[t]
          /\ exposed' = IF Alone(t) THEN exposed \ {key[t]} ELSE exposed
          /\ UNCHANGED faults
       \/ /\ file # Empty /\ file' = Torn
          /\ Strike({"torn"})
    /\ UNCHANGED <<up, key, json, stores>>

(* It does not. *)
WriteFails(t) ==
    /\ up /\ pc[t] = "write"
    /\ FALSE \in Outcomes
    /\ file' \in {Empty, Torn}
    /\ pc' = [pc EXCEPT ![t] = "idle"]
    /\ Strike({"torn"})
    /\ UNCHANGED <<up, key, json, written, stores>>

-----------------------------------------------------------------------------
(* The process dies; what it was writing stays as far as it got. *)
Kill ==
    /\ up /\ up' = FALSE
    /\ pc' = [t \in Threads |-> "idle"]
    /\ IF \E t \in Threads : pc[t] = "write"
       THEN file' \in {file, Torn} /\ Strike({"torn"})
       ELSE UNCHANGED <<file, faults, exposed>>
    /\ UNCHANGED <<key, json, written, stores>>

(* The next one loads the values, which leaves the file alone. *)
Launch ==
    /\ ~up /\ up' = TRUE
    /\ UNCHANGED <<file, pc, key, json, written, faults, exposed, stores>>

Next ==
    \/ \E t \in Threads :
        \/ \E k \in Keys, v \in Values : StoreValue(t, k, v)
        \/ Open(t) \/ Write(t) \/ WriteFails(t)
    \/ Kill
    \/ Launch

Spec == Init /\ [][Next]_vars

-----------------------------------------------------------------------------
TypeOK ==
    /\ up \in BOOLEAN
    /\ file \in Maps \cup {Missing, Empty, Torn}
    /\ pc \in [Threads -> Steps]
    /\ key \in [Threads -> Keys \cup {Absent}]
    /\ json \in [Threads -> Maps]
    /\ written \in Maps
    /\ faults \subseteq Faults /\ exposed \subseteq Keys
    /\ stores \in 0..MaxStores

(***************************************************************************)
(* A value is lost through nothing but an overlapping store, an unreadable *)
(* file or an interrupted write: once no store is under way, each key      *)
(* written since the last of these has its value (storeValue() against     *)
(* loadValues()).  A death between reading and opening, or a file that     *)
(* cannot be opened, loses nothing.                                        *)
(***************************************************************************)
StoredIsKept ==
    Quiet => \A k \in Keys \ exposed : LoadValues(file)[k] = written[k]

(***************************************************************************)
(* Unless stores overlap, an old value never comes back: at any moment,    *)
(* whatever died or failed, a launch finds for each key the value written  *)
(* last, or none.                                                          *)
(***************************************************************************)
LatestOrLost ==
    "overlap" \notin faults =>
        \A k \in Keys : LoadValues(file)[k] \in {written[k], Absent}

(* A store takes effect when it opens the file: from then on no other      *)
(* content can follow.                                                     *)
Content ==
    IF \E t \in Threads : pc[t] = "write"
    THEN json[CHOOSE t \in Threads : pc[t] = "write"]
    ELSE LoadValues(file)

Store == INSTANCE KeyValueStore WITH
    broken <- faults # {},
    stored <- IF faults = {} THEN Content ELSE NoValues

(***************************************************************************)
(* KeyValuePersistence.h: "The map containing all key-value pair this      *)
(* persistence had stored."  Until the first fault the file is an atomic   *)
(* map that no death of the process and no relaunch changes.               *)
(***************************************************************************)
IsKeyValueStore == Store!Spec
=============================================================================
