CONSTANTS
    t1 = t1
    t2 = t2
    pump = pump
    valve = valve
    removed = removed
    NotANumber = NotANumber
    Absent = Absent
    Threads <- TwoThreads
    Mappings <- OneMapping
    Stale <- OneRemoved
    Numbers <- SmallNumbers
    Configured <- PumpAndValve
    Inputs <- SentTexts
    Received <- AllKinds
    WriteOutcomes <- Succeeds
    StoreOutcomes <- MayFail
    MaxUpdates = 2
SPECIFICATION Spec
INVARIANT TypeOK
INVARIANT NoCrashLoop
 
 
SYMMETRY ThreadSymmetry
