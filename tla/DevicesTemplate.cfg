CONSTANTS
    meter = meter
    relay = relay
    Devices <- ThreeDevices
    Templates <- TwoTemplates
    Unknown = Unknown
    Raw <- RawAddresses
    Missing = Missing
    None = None
CHECK_DEADLOCK FALSE
SPECIFICATION Spec
INVARIANT OneValidDeviceIsEnough
