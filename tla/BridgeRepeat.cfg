CONSTANTS
    t1 = t1
    t2 = t2
    pump = pump
    valve = valve
    removed = removed
    NotANumber = NotANumber
    Absent = Absent
    Threads <- OneThread
    Mappings <- OneMapping
    Stale <- NoneRemoved
    Numbers <- SmallNumbers
    Configured <- PumpAndValve
    Inputs <- SentTexts
    Received <- AllKinds
    WriteOutcomes <- Succeeds
    StoreOutcomes <- Succeeds
    MaxUpdates = 2
SPECIFICATION Spec
INVARIANT RepeatFollowsReading
