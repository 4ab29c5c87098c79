--------------------------- MODULE KeyValueStore ---------------------------
(***************************************************************************)
(* What KeyValuePersistence promises: a map in which storeValue() changes  *)
(* one key at a time, and which is there after any restart.  A store that  *)
(* met a fault of its environment is broken and promises nothing more.     *)
(***************************************************************************)
CONSTANTS Keys, Values, Absent

VARIABLES stored, broken

vars == <<stored, broken>>

(* Whatever earlier runs of the program have stored. *)
Init == stored \in [Keys -> Values \cup {Absent}] /\ broken = FALSE

Store(k, v) ==
    /\ ~broken
    /\ stored' = [stored EXCEPT ![k] = v]
    /\ UNCHANGED broken

Break ==
    /\ broken' = TRUE
    /\ stored' = [k \in Keys |-> Absent]

Next == (\E k \in Keys, v \in Values : Store(k, v)) \/ Break

Spec == Init /\ [][Next]_vars
=============================================================================
