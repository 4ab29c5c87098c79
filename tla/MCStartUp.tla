----------------------------- MODULE MCStartUp -----------------------------
(* An instance of StartUp for TLC, with words of two bits. *)
EXTENDS StartUp, TLC

CONSTANTS meter, relay

ThreeDevices == 1..3
TwoTemplates == {meter, relay}
RawAddresses == {1, 2, 65536, 65537}

(* The device 2 has a dot in its key, and shares the name "a.b.x" with 1. *)
Keys == [d \in ThreeDevices |->
            CASE d = 1 -> <<"a">> [] d = 2 -> <<"a", "b">> [] d = 3 -> <<"b">>]
Ranks == [t \in TwoTemplates |-> IF t = meter THEN 1 ELSE 2]

Mapping(reference, registerType, dataType, v) ==
    [complete |-> TRUE, reference |-> reference, registerType |-> registerType,
     dataType |-> dataType, mappingType |-> "Default", address |-> 0,
     addressCount |-> Plain("missing"), repeat |-> 0,
     defaultValue |-> v, safeMode |-> Plain("missing")]

Simple == Mapping(<<"x">>, "HOLDING_REGISTER", "INT16", Number(1))
Dotted == Mapping(<<"b", "x">>, "HOLDING_REGISTER", "UINT16", Plain("missing"))
Plainly == {[t \in TwoTemplates |-> IF t = meter THEN <<Simple, Dotted>>
                                    ELSE <<Simple>>]}

(* Every default value of every type. *)
Values ==
    {Number(n) : n \in -9..17} \cup {Digits(n) : n \in {-300, -9, -1, 3, 12, 300}}
        \cup {Plain(k) : k \in Kinds \ {"number", "digits"}}
Defaults ==
    {Mapping(<<"y">>, IF type = "BOOL" THEN "COIL" ELSE "HOLDING_REGISTER", type, v) :
        type \in DataTypes, v \in Values}

(* Every check of a mapping's constructor. *)
Checked ==
    {[Simple EXCEPT !.complete = c, !.registerType = r, !.repeat = p,
                    !.defaultValue = v, !.safeMode = s] :
        c \in BOOLEAN, r \in RegisterTypes, p \in {-1, 0, 5},
        v \in {Number(1), Plain("null"), Plain("missing")},
        s \in {Number(1), Plain("empty"), Plain("missing")}}

(* Every place of registers. *)
Placed(reference) ==
    {[Mapping(reference, "HOLDING_REGISTER", type, Plain("missing"))
        EXCEPT !.address = a, !.addressCount = c] :
        type \in {"INT16", "FLOAT", "STRING"}, a \in 0..5,
        c \in {Plain("missing"), Number(0), Number(2)}}

Contents ==
    {<<m>> : m \in Defaults \cup Checked} \cup {<<>>}
        \cup {<<m, n>> : m \in Placed(<<"x">>), n \in Placed(<<"y">>)}
Tried == {[t \in TwoTemplates |-> IF t = meter THEN c ELSE <<Simple>>] : c \in Contents}

AllMappings ==
    Defaults \cup Checked \cup Placed(<<"x">>) \cup Placed(<<"y">>) \cup {Simple, Dotted}

Device(raw, template) ==
    [complete |-> TRUE, slaveAddress |-> raw, template |-> template]
Few == {1 :> Device(1, meter),
        (1 :> Device(1, meter)) @@ (3 :> Device(1, relay)),
        (1 :> Device(2, relay)) @@ (3 :> Device(1, relay))}
=============================================================================
