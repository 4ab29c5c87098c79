CONSTANTS
    t1 = t1
    t2 = t2
    pump = pump
    valve = valve
    NotANumber = NotANumber
    Absent = Absent
    Threads <- OneThread
    MaxRequests = 2
    Mappings <- OneMapping
    Stale <- NoneRemoved
    Numbers <- SmallNumbers
    Configured <- PumpAndValve
    Inputs <- SentTexts
    Received <- NoKinds
    WriteOutcomes <- Succeeds
    StoreOutcomes <- Succeeds
    MaxUpdates = 0
SPECIFICATION Spec
INVARIANT SafeWhileOffline
