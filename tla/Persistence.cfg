CONSTANTS
    t1 = t1
    t2 = t2
    pump = pump
    valve = valve
    low = low
    high = high
    Threads <- TwoThreads
    Keys <- TwoKeys
    Values <- TwoValues
    Absent = Absent
    Missing = Missing
    Empty = Empty
    Torn = Torn
    Outcomes <- AnyOutcome
    MaxStores = 3
SPECIFICATION Spec
INVARIANT TypeOK
INVARIANT StoredIsKept
INVARIANT LatestOrLost
PROPERTY IsKeyValueStore
