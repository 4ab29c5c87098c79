CONSTANTS
    t1 = t1
    t2 = t2
    pump = pump
    valve = valve
    NotANumber = NotANumber
    Absent = Absent
    Threads <- OneThread
    MaxRequests = 2
    Mappings <- TwoMappings
    Stale <- NoneRemoved
    Numbers <- SmallNumbers
    Configured <- PumpAndValve
    Inputs <- SentTexts
    Received <- AllKinds
    WriteOutcomes <- MayFail
    StoreOutcomes <- Succeeds
    MaxUpdates = 1
SPECIFICATION FairSpec
PROPERTY SafeModeApplied
INVARIANT VisitedHoldsValue
INVARIANT DefaultsWhileRunning
PROPERTY ImplementsBridge
