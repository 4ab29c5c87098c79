------------------------- MODULE MCDeviceGeneration -------------------------
(* Instances of DeviceGeneration for TLC. *)
EXTENDS DeviceGeneration

CONSTANTS meter, relay

ThreeDevices == 1..3
TwoTemplates == {meter, relay}

(* 65536 and 65537 do not fit in a std::uint16_t. *)
RawAddresses == {1, 2, 65536, 65537}
=============================================================================
