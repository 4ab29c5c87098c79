----------------------- MODULE FilePersistenceProofs -----------------------
(***************************************************************************)
(* Proofs of the properties of FilePersistence, for any threads, keys and  *)
(* values, and whatever calls of the file system fail.                     *)
(***************************************************************************)
EXTENDS FilePersistence, TLAPS

(* One store at a time, until stores overlap. *)
Single ==
    "overlap" \notin faults =>
        \A t, u \in Threads : pc[t] # "idle" /\ pc[u] # "idle" => t = u

(* A store under way carries a value for its key, and the process is up. *)
Carried ==
    \A t \in Threads : pc[t] # "idle" =>
        up /\ key[t] \in Keys /\ json[t][key[t]] \in Values

(* What is read of a file is a map. *)
LEMMA LoadedIsMap ==
    ASSUME NEW f \in Maps \cup {Missing, Empty, Torn}
    PROVE  LoadValues(f) \in Maps
  BY DEF LoadValues, NoValues, Maps

(* A map is none of the marks, so that it loads as itself; the marks load  *)
(* as nothing.                                                             *)
LEMMA MapLoadsAsItself ==
    ASSUME NEW f \in Maps
    PROVE  LoadValues(f) = f
  BY FileAssumption DEF LoadValues

LEMMA MarksLoadNothing ==
    /\ LoadValues(Missing) = NoValues
    /\ LoadValues(Empty) = NoValues
    /\ LoadValues(Torn) = NoValues
  BY DEF LoadValues

(* Changing one key of a map. *)
LEMMA ChangeOne ==
    ASSUME NEW m \in Maps, NEW k \in Keys, NEW v \in Values
    PROVE  /\ [m EXCEPT ![k] = v] \in Maps
           /\ [m EXCEPT ![k] = v][k] = v
           /\ \A x \in Keys : x # k => [m EXCEPT ![k] = v][x] = m[x]
  BY DEF Maps

LEMMA NothingIsMap == NoValues \in Maps
  BY DEF NoValues, Maps

(* The types of the variables are kept by every step. *)
THEOREM PersistenceTypeCorrect == Spec => []TypeOK
<1>1. Init => TypeOK
  <2> SUFFICES ASSUME Init PROVE TypeOK
    OBVIOUS
  <2>1. file \in Maps \cup {Missing, Empty, Torn}
    BY DEF Init
  <2>2. written \in Maps
    BY <2>1, LoadedIsMap DEF Init
  <2>3. json \in [Threads -> Maps]
    BY NothingIsMap DEF Init
  <2>4. pc \in [Threads -> Steps] /\ key \in [Threads -> Keys \cup {Absent}]
    BY DEF Init, Steps
  <2>5. 0 \in 0..MaxStores
    BY MaxStoresAssumption
  <2> QED
    BY <2>1, <2>2, <2>3, <2>4, <2>5 DEF Init, TypeOK
<1>2. TypeOK /\ [Next]_vars => TypeOK'
  <2> SUFFICES ASSUME TypeOK, [Next]_vars PROVE TypeOK'
    OBVIOUS
  <2>1. ASSUME NEW t \in Threads, NEW k \in Keys, NEW v \in Values,
               StoreValue(t, k, v)
        PROVE  TypeOK'
    <3>1. PICK readable \in Outcomes :
            /\ json' = [json EXCEPT ![t] =
                    [(IF readable THEN LoadValues(file) ELSE NoValues)
                        EXCEPT ![k] = v]]
            /\ Strike((IF Alone(t) THEN {} ELSE {"overlap"})
                    \cup (IF readable \/ file = Missing THEN {} ELSE {"unread"}))
      BY <2>1 DEF StoreValue
    <3>2. (IF readable THEN LoadValues(file) ELSE NoValues) \in Maps
      BY LoadedIsMap, NothingIsMap DEF TypeOK
    <3>3. json' \in [Threads -> Maps]
      BY <3>1, <3>2, ChangeOne DEF TypeOK
    <3>4. faults' \subseteq Faults /\ exposed' \subseteq Keys
      BY <3>1 DEF Strike, TypeOK, Faults
    <3>5. stores' \in 0..MaxStores
      BY <2>1, MaxStoresAssumption DEF StoreValue, TypeOK
    <3>6. pc' \in [Threads -> Steps] /\ key' \in [Threads -> Keys \cup {Absent}]
      BY <2>1 DEF StoreValue, TypeOK, Steps
    <3> QED
      BY <2>1, <3>3, <3>4, <3>5, <3>6 DEF StoreValue, TypeOK
  <2>2. ASSUME NEW t \in Threads, Open(t) PROVE TypeOK'
    BY <2>2 DEF Open, TypeOK, Steps
  <2>3. ASSUME NEW t \in Threads, Write(t) PROVE TypeOK'
    <3>1. file' \in Maps \cup {Missing, Empty, Torn}
      BY <2>3 DEF Write, TypeOK
    <3>2. faults' \subseteq Faults /\ exposed' \subseteq Keys
      BY <2>3 DEF Write, TypeOK, Strike, Faults
    <3>3. written' \in Maps
      <4> DEFINE w == json[t][key[t]]
      <4>1. written' = [written EXCEPT ![key[t]] = w]
        BY <2>3 DEF Write
      <4>2. CASE key[t] \in Keys
        BY <4>1, <4>2 DEF TypeOK, Maps
      <4>3. CASE key[t] \notin Keys
        BY <4>1, <4>3 DEF TypeOK, Maps
      <4> QED
        BY <4>2, <4>3
    <3> QED
      BY <2>3, <3>1, <3>2, <3>3 DEF Write, TypeOK, Steps
  <2>4. ASSUME NEW t \in Threads, WriteFails(t) PROVE TypeOK'
    BY <2>4 DEF WriteFails, TypeOK, Steps, Strike, Faults
  <2>5. CASE Kill
    BY <2>5 DEF Kill, TypeOK, Steps, Strike, Faults
  <2>6. CASE Launch
    BY <2>6 DEF Launch, TypeOK
  <2>7. CASE UNCHANGED vars
    BY <2>7 DEF vars, TypeOK
  <2> QED
    BY <2>1, <2>2, <2>3, <2>4, <2>5, <2>6, <2>7 DEF Next
<1> QED
  BY <1>1, <1>2, PTL DEF Spec

(* What a store carries, and that stores are single, is kept. *)
LEMMA SingleStores == Spec => [](Single /\ Carried)
<1>1. Init => Single /\ Carried
  BY DEF Init, Single, Carried
<1>2. TypeOK /\ Single /\ Carried /\ [Next]_vars => (Single /\ Carried)'
  <2> SUFFICES ASSUME TypeOK, Single, Carried, [Next]_vars
               PROVE  Single' /\ Carried'
    OBVIOUS
  <2>1. ASSUME NEW t \in Threads, NEW k \in Keys, NEW v \in Values,
               StoreValue(t, k, v)
        PROVE  Single' /\ Carried'
    <3>1. PICK readable \in Outcomes :
            /\ json' = [json EXCEPT ![t] =
                    [(IF readable THEN LoadValues(file) ELSE NoValues)
                        EXCEPT ![k] = v]]
            /\ Strike((IF Alone(t) THEN {} ELSE {"overlap"})
                    \cup (IF readable \/ file = Missing THEN {} ELSE {"unread"}))
      BY <2>1 DEF StoreValue
    <3>2. (IF readable THEN LoadValues(file) ELSE NoValues) \in Maps
      BY LoadedIsMap, NothingIsMap DEF TypeOK
    <3>3. json'[t][k] = v
      BY <3>1, <3>2, ChangeOne DEF TypeOK
    <3>4. pc' = [pc EXCEPT ![t] = "open"] /\ key' = [key EXCEPT ![t] = k] /\ up'
      BY <2>1 DEF StoreValue
    <3>5. Carried'
      BY <3>1, <3>3, <3>4 DEF Carried, TypeOK
    <3>6. ASSUME Alone(t) PROVE Single'
      BY <3>1, <3>4, <3>6 DEF Alone, Single, TypeOK, Strike
    <3>7. ASSUME ~Alone(t) PROVE Single'
      BY <3>1, <3>7 DEF Single, Strike
    <3> QED
      BY <3>5, <3>6, <3>7
  <2>2. ASSUME NEW t \in Threads, Open(t) PROVE Single' /\ Carried'
    BY <2>2 DEF Open, Single, Carried, TypeOK
  <2>3. ASSUME NEW t \in Threads, Write(t) PROVE Single' /\ Carried'
    BY <2>3 DEF Write, Strike, Single, Carried, TypeOK
  <2>4. ASSUME NEW t \in Threads, WriteFails(t) PROVE Single' /\ Carried'
    BY <2>4 DEF WriteFails, Strike, Single, Carried, TypeOK
  <2>5. CASE Kill
    BY <2>5 DEF Kill, Single, Carried
  <2>6. CASE Launch
    BY <2>6 DEF Launch, Single, Carried
  <2>7. CASE UNCHANGED vars
    BY <2>7 DEF vars, Single, Carried
  <2> QED
    BY <2>1, <2>2, <2>3, <2>4, <2>5, <2>6, <2>7 DEF Next
<1> QED
  BY <1>1, <1>2, PersistenceTypeCorrect, PTL DEF Spec

-----------------------------------------------------------------------------
(* Old values do not come back                                             *)

(* What a store is about to write is, but for its own key, the last value  *)
(* of a key or none.                                                       *)
LatestInJson ==
    "overlap" \notin faults =>
        \A t \in Threads : pc[t] # "idle" =>
            \A k \in Keys \ {key[t]} : json[t][k] \in {written[k], Absent}

(* Without overlapping stores a launch finds the last value of each key or *)
(* none, in any state.                                                     *)
THEOREM LatestOrLostAlways == Spec => []LatestOrLost
<1> DEFINE I == LatestOrLost /\ LatestInJson
<1>1. Init => I
  BY LoadedIsMap DEF Init, LatestOrLost, LatestInJson
<1>2. TypeOK /\ Single /\ Carried /\ I /\ [Next]_vars => I'
  <2> SUFFICES ASSUME TypeOK, Single, Carried, LatestOrLost, LatestInJson,
                      [Next]_vars, "overlap" \notin faults'
               PROVE  /\ \A k \in Keys :
                            LoadValues(file)'[k] \in {written'[k], Absent}
                      /\ \A u \in Threads : pc'[u] # "idle" =>
                            \A k \in Keys \ {key'[u]} :
                                json'[u][k] \in {written'[k], Absent}
    BY DEF LatestOrLost, LatestInJson
  <2> DEFINE P == \A k \in Keys :
                    LoadValues(file)'[k] \in {written'[k], Absent}
             Q == \A u \in Threads : pc'[u] # "idle" =>
                    \A k \in Keys \ {key'[u]} :
                        json'[u][k] \in {written'[k], Absent}
  <2>0. "overlap" \notin faults
    BY DEF Next, StoreValue, Open, Write, WriteFails, Kill, Launch, Strike, vars
  <2>a. \A k \in Keys : LoadValues(file)[k] \in {written[k], Absent}
    BY <2>0 DEF LatestOrLost
  <2>b. \A k \in Keys : NoValues[k] = Absent
    BY DEF NoValues
  <2>1. ASSUME NEW t \in Threads, NEW k \in Keys, NEW v \in Values,
               StoreValue(t, k, v)
        PROVE  P /\ Q
    <3>1. PICK readable \in Outcomes :
            /\ json' = [json EXCEPT ![t] =
                    [(IF readable THEN LoadValues(file) ELSE NoValues)
                        EXCEPT ![k] = v]]
            /\ Strike((IF Alone(t) THEN {} ELSE {"overlap"})
                    \cup (IF readable \/ file = Missing THEN {} ELSE {"unread"}))
      BY <2>1 DEF StoreValue
    <3>2. (IF readable THEN LoadValues(file) ELSE NoValues) \in Maps
      BY LoadedIsMap, NothingIsMap DEF TypeOK
    <3>3. P
      BY <2>1, <2>a DEF StoreValue, LoadValues
    <3>4. \A x \in Keys \ {k} : json'[t][x] \in {written[x], Absent}
      BY <3>1, <3>2, <2>a, <2>b, ChangeOne DEF TypeOK
    <3>5. \A u \in Threads \ {t} :
            pc'[u] = pc[u] /\ key'[u] = key[u] /\ json'[u] = json[u]
      BY <2>1, <3>1 DEF StoreValue, TypeOK
    <3>6. key'[t] = k /\ written' = written
      BY <2>1 DEF StoreValue, TypeOK
    <3>7. Q
      BY <3>4, <3>5, <3>6, <2>0 DEF LatestInJson
    <3> QED
      BY <3>3, <3>7
  <2>2. ASSUME NEW t \in Threads, Open(t) PROVE P /\ Q
    <3>1. P
      BY <2>2, <2>a, <2>b, MarksLoadNothing DEF Open
    <3>2. Q
      BY <2>2, <2>0 DEF Open, LatestInJson, TypeOK
    <3> QED
      BY <3>1, <3>2
  <2>3. ASSUME NEW t \in Threads, Write(t) PROVE P /\ Q
    <3>1. /\ pc[t] = "write" /\ pc' = [pc EXCEPT ![t] = "idle"]
          /\ written' = [written EXCEPT ![key[t]] = json[t][key[t]]]
          /\ file' \in {json[t], Torn}
          /\ key' = key /\ json' = json
      BY <2>3 DEF Write
    <3>2. key[t] \in Keys /\ json[t] \in Maps
      BY <3>1 DEF Carried, TypeOK
    <3>3. \A x \in Keys \ {key[t]} : written'[x] = written[x]
      BY <3>1 DEF TypeOK, Maps
    <3>4. written'[key[t]] = json[t][key[t]]
      BY <3>1, <3>2 DEF TypeOK, Maps
    <3>5. \A x \in Keys : json[t][x] \in {written'[x], Absent}
      BY <3>1, <3>3, <3>4, <2>0 DEF LatestInJson
    <3>6. P
      BY <3>1, <3>2, <3>5, <2>b, MapLoadsAsItself, MarksLoadNothing
    <3>7. \A u \in Threads : pc'[u] = "idle"
      BY <3>1, <2>0 DEF Single, TypeOK
    <3> QED
      BY <3>6, <3>7
  <2>4. ASSUME NEW t \in Threads, WriteFails(t) PROVE P /\ Q
    <3>1. P
      BY <2>4, <2>b, MarksLoadNothing DEF WriteFails
    <3>2. Q
      BY <2>4, <2>0 DEF WriteFails, LatestInJson, TypeOK
    <3> QED
      BY <3>1, <3>2
  <2>5. ASSUME Kill PROVE P /\ Q
    <3>1. file' \in {file, Torn} /\ written' = written
      BY <2>5 DEF Kill
    <3>2. P
      BY <3>1, <2>a, <2>b, MarksLoadNothing
    <3>3. Q
      BY <2>5 DEF Kill
    <3> QED
      BY <3>2, <3>3
  <2>6. ASSUME Launch \/ UNCHANGED vars PROVE P /\ Q
    <3>1. UNCHANGED <<file, written, pc, key, json>>
      BY <2>6 DEF Launch, vars
    <3> QED
      BY <3>1, <2>a, <2>0 DEF LatestInJson
  <2> QED
    BY <2>1, <2>2, <2>3, <2>4, <2>5, <2>6 DEF Next
<1>3. I => LatestOrLost
  OBVIOUS
<1> QED
  BY <1>1, <1>2, <1>3, PersistenceTypeCorrect, SingleStores, PTL DEF Spec

-----------------------------------------------------------------------------
(* Nothing is lost without a fault                                         *)

(* Two stores under way have exposed every key. *)
OverlapExposes ==
    \A t, u \in Threads :
        t # u /\ pc[t] # "idle" /\ pc[u] # "idle" => exposed = Keys

(* The file is right until it is opened, and what will be written to it is *)
(* right but for the key that changes.                                     *)
KeptInFile ==
    (\A t \in Threads : pc[t] # "write") =>
        \A k \in Keys \ exposed : LoadValues(file)[k] = written[k]

KeptInJson ==
    \A t \in Threads : pc[t] # "idle" =>
        \A k \in Keys \ (exposed \cup {key[t]}) : json[t][k] = written[k]

(* Values no fault may have hit are found again. *)
THEOREM StoredIsKeptAlways == Spec => []StoredIsKept
<1> DEFINE I == OverlapExposes /\ KeptInFile /\ KeptInJson
<1>1. Init => I
  BY DEF Init, OverlapExposes, KeptInFile, KeptInJson
<1>2. TypeOK /\ Carried /\ I /\ [Next]_vars => I'
  <2> SUFFICES ASSUME TypeOK, Carried, OverlapExposes, KeptInFile, KeptInJson,
                      [Next]_vars
               PROVE  OverlapExposes' /\ KeptInFile' /\ KeptInJson'
    OBVIOUS
  <2>1. ASSUME NEW t \in Threads, NEW k \in Keys, NEW v \in Values,
               StoreValue(t, k, v)
        PROVE  OverlapExposes' /\ KeptInFile' /\ KeptInJson'
    <3>1. PICK readable \in Outcomes :
            /\ json' = [json EXCEPT ![t] =
                    [(IF readable THEN LoadValues(file) ELSE NoValues)
                        EXCEPT ![k] = v]]
            /\ Strike((IF Alone(t) THEN {} ELSE {"overlap"})
                    \cup (IF readable \/ file = Missing THEN {} ELSE {"unread"}))
      BY <2>1 DEF StoreValue
    <3>2. (IF readable THEN LoadValues(file) ELSE NoValues) \in Maps
      BY LoadedIsMap, NothingIsMap DEF TypeOK
    <3>3. /\ pc[t] = "idle" /\ pc' = [pc EXCEPT ![t] = "open"]
          /\ key' = [key EXCEPT ![t] = k]
          /\ file' = file /\ written' = written
      BY <2>1 DEF StoreValue
    <3>4. ASSUME exposed' = Keys
          PROVE  OverlapExposes' /\ KeptInFile' /\ KeptInJson'
      BY <3>4 DEF OverlapExposes, KeptInFile, KeptInJson
    <3>5. ASSUME Alone(t), readable \/ file = Missing
          PROVE  OverlapExposes' /\ KeptInFile' /\ KeptInJson'
      <4>1. exposed' = exposed
        BY <3>1, <3>5 DEF Strike
      <4>2. \A u \in Threads \ {t} : pc'[u] = "idle"
        BY <3>3, <3>5 DEF Alone, TypeOK
      <4>3. \A u \in Threads : pc[u] = "idle"
        BY <3>3, <3>5 DEF Alone
      <4>4. \A x \in Keys \ exposed : LoadValues(file)[x] = written[x]
        BY <4>3 DEF KeptInFile
      <4>5. (IF readable THEN LoadValues(file) ELSE NoValues) = LoadValues(file)
        BY <3>5, MarksLoadNothing
      <4>6. \A x \in Keys \ {k} : json'[t][x] = LoadValues(file)[x]
        BY <3>1, <3>2, <4>5, ChangeOne DEF TypeOK
      <4>7. key'[t] = k
        BY <3>3 DEF TypeOK
      <4>8. OverlapExposes'
        BY <4>2 DEF OverlapExposes
      <4>9. KeptInFile'
        BY <3>3, <4>1, <4>4 DEF KeptInFile, LoadValues
      <4>10. KeptInJson'
        BY <3>3, <4>1, <4>2, <4>4, <4>6, <4>7 DEF KeptInJson
      <4> QED
        BY <4>8, <4>9, <4>10
    <3>6. (Alone(t) /\ (readable \/ file = Missing)) \/ exposed' = Keys
      BY <3>1 DEF Strike
    <3> QED
      BY <3>4, <3>5, <3>6
  <2>2. ASSUME NEW t \in Threads, Open(t)
        PROVE  OverlapExposes' /\ KeptInFile' /\ KeptInJson'
    <3>1. /\ pc[t] = "open" /\ exposed' = exposed
          /\ \/ pc' = [pc EXCEPT ![t] = "write"]
             \/ pc' = [pc EXCEPT ![t] = "idle"] /\ file' = file
          /\ UNCHANGED <<key, json, written>>
      BY <2>2 DEF Open
    <3>2. OverlapExposes'
      BY <3>1 DEF OverlapExposes, TypeOK
    <3>3. KeptInFile'
      <4>1. CASE pc' = [pc EXCEPT ![t] = "write"]
        BY <4>1 DEF KeptInFile, TypeOK
      <4>2. CASE pc' = [pc EXCEPT ![t] = "idle"] /\ file' = file
        <5>1. \A u \in Threads : pc'[u] # "write" => pc[u] # "write"
          BY <3>1, <4>2 DEF TypeOK
        <5> QED
          BY <5>1, <3>1, <4>2 DEF KeptInFile, LoadValues
      <4> QED
        BY <3>1, <4>1, <4>2
    <3>4. KeptInJson'
      BY <3>1 DEF KeptInJson, TypeOK
    <3> QED
      BY <3>2, <3>3, <3>4
  <2>3. ASSUME NEW t \in Threads, Write(t)
        PROVE  OverlapExposes' /\ KeptInFile' /\ KeptInJson'
    <3>1. /\ pc[t] = "write" /\ pc' = [pc EXCEPT ![t] = "idle"]
          /\ written' = [written EXCEPT ![key[t]] = json[t][key[t]]]
          /\ key' = key /\ json' = json
      BY <2>3 DEF Write
    <3>2. ASSUME exposed' = Keys
          PROVE  OverlapExposes' /\ KeptInFile' /\ KeptInJson'
      BY <3>2 DEF OverlapExposes, KeptInFile, KeptInJson
    <3>3. ASSUME Alone(t), file' = json[t], exposed' = exposed \ {key[t]}
          PROVE  OverlapExposes' /\ KeptInFile' /\ KeptInJson'
      <4>1. \A u \in Threads : pc'[u] = "idle"
        BY <3>1, <3>3 DEF Alone, TypeOK
      <4>2. key[t] \in Keys /\ json[t] \in Maps
        BY <3>1 DEF Carried, TypeOK
      <4>3. written'[key[t]] = json[t][key[t]]
        BY <3>1, <4>2 DEF TypeOK, Maps
      <4>4. \A x \in Keys \ {key[t]} : written'[x] = written[x]
        BY <3>1 DEF TypeOK, Maps
      <4>5. \A x \in Keys \ exposed' : json[t][x] = written'[x]
        BY <3>1, <3>3, <4>3, <4>4 DEF KeptInJson
      <4>6. LoadValues(file)' = json[t]
        BY <3>3, <4>2, MapLoadsAsItself
      <4> QED
        BY <4>1, <4>5, <4>6 DEF OverlapExposes, KeptInFile, KeptInJson
    <3>4. ASSUME ~Alone(t)
          PROVE  exposed' = Keys
      <4>1. exposed = Keys
        BY <3>1, <3>4 DEF Alone, OverlapExposes
      <4> QED
        BY <2>3, <3>4, <4>1 DEF Write, Strike
    <3> QED
      BY <2>3, <3>2, <3>3, <3>4 DEF Write, Strike
  <2>4. ASSUME NEW t \in Threads, WriteFails(t)
        PROVE  OverlapExposes' /\ KeptInFile' /\ KeptInJson'
    <3>1. exposed' = Keys
      BY <2>4 DEF WriteFails, Strike
    <3> QED
      BY <3>1 DEF OverlapExposes, KeptInFile, KeptInJson
  <2>5. ASSUME Kill
        PROVE  OverlapExposes' /\ KeptInFile' /\ KeptInJson'
    <3>1. CASE \E t \in Threads : pc[t] = "write"
      <4>1. exposed' = Keys
        BY <2>5, <3>1 DEF Kill, Strike
      <4> QED
        BY <4>1 DEF OverlapExposes, KeptInFile, KeptInJson
    <3>2. CASE ~ \E t \in Threads : pc[t] = "write"
      BY <2>5, <3>2 DEF Kill, OverlapExposes, KeptInFile, KeptInJson, LoadValues
    <3> QED
      BY <3>1, <3>2
  <2>6. ASSUME Launch \/ UNCHANGED vars
        PROVE  OverlapExposes' /\ KeptInFile' /\ KeptInJson'
    BY <2>6 DEF Launch, vars, OverlapExposes, KeptInFile, KeptInJson, LoadValues
  <2> QED
    BY <2>1, <2>2, <2>3, <2>4, <2>5, <2>6 DEF Next
<1>3. I => StoredIsKept
  BY DEF KeptInFile, StoredIsKept, Quiet
<1> QED
  BY <1>1, <1>2, <1>3, PersistenceTypeCorrect, SingleStores, PTL DEF Spec

-----------------------------------------------------------------------------
(* The abstract store                                                      *)

(* Until the first fault a store under way has the map it will write.      *)
NextContent ==
    faults = {} =>
        \A t \in Threads : pc[t] = "open" =>
            json[t] = [LoadValues(file) EXCEPT ![key[t]] = json[t][key[t]]]

LEMMA NextContentAlways == Spec => []NextContent
<1>1. Init => NextContent
  BY DEF Init, NextContent
<1>2. TypeOK /\ Single /\ Carried /\ NextContent /\ [Next]_vars => NextContent'
  <2> SUFFICES ASSUME TypeOK, Single, Carried, NextContent, [Next]_vars,
                      faults' = {},
                      NEW u \in Threads, pc'[u] = "open"
               PROVE  json'[u] = [LoadValues(file)' EXCEPT
                                    ![key'[u]] = json'[u][key'[u]]]
    BY DEF NextContent
  <2>0. faults = {}
    BY DEF Next, StoreValue, Open, Write, WriteFails, Kill, Launch, Strike, vars
  <2>1. ASSUME NEW t \in Threads, NEW k \in Keys, NEW v \in Values,
               StoreValue(t, k, v)
        PROVE  json'[u] = [LoadValues(file)' EXCEPT
                                ![key'[u]] = json'[u][key'[u]]]
    <3>1. PICK readable \in Outcomes :
            /\ json' = [json EXCEPT ![t] =
                    [(IF readable THEN LoadValues(file) ELSE NoValues)
                        EXCEPT ![k] = v]]
            /\ Strike((IF Alone(t) THEN {} ELSE {"overlap"})
                    \cup (IF readable \/ file = Missing THEN {} ELSE {"unread"}))
      BY <2>1 DEF StoreValue
    <3>2. readable \/ file = Missing
      BY <3>1 DEF Strike
    <3>3. Alone(t)
      BY <3>1 DEF Strike
    <3>4. u = t
      BY <2>1, <3>3 DEF StoreValue, Alone, TypeOK
    <3>5. json'[t] = [LoadValues(file) EXCEPT ![k] = v]
      BY <3>1, <3>2, MarksLoadNothing DEF TypeOK
    <3>6. LoadValues(file) \in Maps
      BY LoadedIsMap DEF TypeOK
    <3>7. key'[t] = k /\ LoadValues(file)' = LoadValues(file)
      BY <2>1 DEF StoreValue, TypeOK, LoadValues
    <3>8. json'[t][k] = v
      BY <3>5, <3>6, ChangeOne
    <3> QED
      BY <3>4, <3>5, <3>7, <3>8
  <2>2. ASSUME NEW t \in Threads, Open(t) \/ Write(t) \/ WriteFails(t) PROVE FALSE
    <3>1. pc[t] # "idle" /\ (\A x \in Threads \ {t} : pc'[x] = pc[x])
          /\ pc'[t] # "open"
      BY <2>2 DEF Open, Write, WriteFails, TypeOK
    <3> QED
      BY <3>1, <2>0 DEF Single
  <2>3. ASSUME Kill PROVE FALSE
    BY <2>3 DEF Kill
  <2>4. ASSUME Launch \/ UNCHANGED vars
        PROVE  json'[u] = [LoadValues(file)' EXCEPT
                                ![key'[u]] = json'[u][key'[u]]]
    BY <2>4, <2>0 DEF Launch, vars, NextContent, LoadValues
  <2> QED
    BY <2>1, <2>2, <2>3, <2>4 DEF Next
<1> QED
  BY <1>1, <1>2, PersistenceTypeCorrect, SingleStores, PTL DEF Spec

(* The content while a store writes, and while none does. *)
LEMMA ContentOfWriter ==
    ASSUME NEW t \in Threads, pc[t] = "write",
           \A u \in Threads : pc[u] = "write" => u = t
    PROVE  Content = json[t]
  BY DEF Content

LEMMA ContentAtRest ==
    ASSUME \A u \in Threads : pc[u] # "write"
    PROVE  Content = LoadValues(file)
  BY DEF Content

(* Until the first fault the file is an atomic, durable map. *)
THEOREM ImplementsKeyValueStore == Spec => IsKeyValueStore
<1>1. Init => Store!Init
  <2> SUFFICES ASSUME Init PROVE Store!Init
    OBVIOUS
  <2>1. Content = LoadValues(file)
    BY ContentAtRest DEF Init
  <2>2. LoadValues(file) \in Maps
    BY LoadedIsMap DEF Init
  <2> QED
    BY <2>1, <2>2 DEF Init, Store!Init, Maps
<1>2. TypeOK /\ Single /\ Carried /\ NextContent /\ [Next]_vars
        => [Store!Next]_(Store!vars)
  <2> SUFFICES ASSUME TypeOK, Single, Carried, NextContent, [Next]_vars
               PROVE  [Store!Next]_(Store!vars)
    OBVIOUS
  <2>0. faults \subseteq faults'
    BY DEF Next, StoreValue, Open, Write, WriteFails, Kill, Launch, Strike, vars
  <2>1. CASE faults' # {}
    BY <2>1 DEF Store!Next, Store!Break, NoValues
  <2>2. ASSUME faults' = {}, Content' = Content
        PROVE  [Store!Next]_(Store!vars)
    BY <2>0, <2>2 DEF Store!vars
  <2>3. ASSUME faults' = {},
               NEW t \in Threads, NEW k \in Keys, NEW v \in Values,
               StoreValue(t, k, v)
        PROVE  Content' = Content
    <3>1. Alone(t)
      BY <2>3 DEF StoreValue, Strike
    <3>2. \A u \in Threads : pc[u] # "write" /\ pc'[u] # "write"
      BY <2>3, <3>1 DEF StoreValue, Alone, TypeOK
    <3>3. file' = file
      BY <2>3 DEF StoreValue
    <3> QED
      BY <3>2, <3>3 DEF Content, LoadValues
  <2>4. ASSUME faults' = {}, NEW t \in Threads, Open(t)
        PROVE  [Store!Next]_(Store!vars)
    <3>1. faults = {} /\ pc[t] = "open" /\ UNCHANGED <<key, json>>
      BY <2>0, <2>4 DEF Open
    <3>2. \A u \in Threads \ {t} : pc[u] = "idle"
      BY <3>1 DEF Single
    <3>3. Content = LoadValues(file)
      BY <3>1, <3>2, ContentAtRest
    <3>4. CASE pc' = [pc EXCEPT ![t] = "write"]
      <4>1. \A u \in Threads : pc'[u] = "write" <=> u = t
        BY <3>2, <3>4 DEF TypeOK
      <4>2. Content' = json[t]
        BY <3>1, <4>1 DEF Content
      <4>3. json[t] = [Content EXCEPT ![key[t]] = json[t][key[t]]]
        BY <3>1, <3>3 DEF NextContent
      <4>4. key[t] \in Keys /\ json[t][key[t]] \in Values
        BY <3>1 DEF Carried
      <4>5. Store!Store(key[t], json[t][key[t]])
        BY <2>4, <3>1, <4>2, <4>3 DEF Store!Store
      <4> QED
        BY <4>4, <4>5 DEF Store!Next
    <3>5. CASE pc' = [pc EXCEPT ![t] = "idle"] /\ file' = file
      <4>1. \A u \in Threads : pc'[u] # "write"
        BY <3>2, <3>5 DEF TypeOK
      <4>2. Content' = Content
        BY <3>3, <3>5, <4>1 DEF Content, LoadValues
      <4> QED
        BY <2>2, <2>4, <4>2
    <3> QED
      BY <2>4, <3>4, <3>5 DEF Open
  <2>5. ASSUME faults' = {}, NEW t \in Threads, Write(t)
        PROVE  Content' = Content
    <3>1. /\ faults = {} /\ pc[t] = "write" /\ pc' = [pc EXCEPT ![t] = "idle"]
          /\ file' = json[t]
      BY <2>0, <2>5 DEF Write, Strike
    <3>2. \A u \in Threads \ {t} : pc[u] = "idle"
      BY <3>1 DEF Single
    <3>3. Content = json[t]
      BY <3>1, <3>2, ContentOfWriter
    <3>4. LoadValues(file)' = json[t]
      BY <3>1, MapLoadsAsItself DEF TypeOK
    <3>5. \A u \in Threads : pc'[u] # "write"
      BY <3>1, <3>2 DEF TypeOK
    <3> QED
      BY <3>3, <3>4, <3>5 DEF Content
  <2>6. ASSUME faults' = {}, NEW t \in Threads, WriteFails(t) PROVE FALSE
    BY <2>6 DEF WriteFails, Strike
  <2>7. ASSUME faults' = {}, Kill PROVE Content' = Content
    <3>1. \A u \in Threads : pc[u] # "write"
      BY <2>7 DEF Kill, Strike
    <3>2. \A u \in Threads : pc'[u] # "write"
      BY <2>7 DEF Kill
    <3>3. file' = file
      BY <2>7, <3>1 DEF Kill
    <3> QED
      BY <3>1, <3>2, <3>3 DEF Content, LoadValues
  <2>8. ASSUME Launch \/ UNCHANGED vars PROVE Content' = Content
    <3>1. UNCHANGED <<file, pc, json>>
      BY <2>8 DEF Launch, vars
    <3> QED
      BY <3>1 DEF Content, LoadValues
  <2> QED
    BY <2>1, <2>2, <2>3, <2>4, <2>5, <2>6, <2>7, <2>8 DEF Next
<1> QED
  BY <1>1, <1>2, PersistenceTypeCorrect, SingleStores, NextContentAlways, PTL
     DEF Spec, IsKeyValueStore, Store!Spec
=============================================================================
