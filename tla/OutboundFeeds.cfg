CONSTANTS
    MappingsTried <- TriedMappings
    Values <- TwoValues
    Unread = Unread
    MaxQueue = 3
    MaxSets = 2
SPECIFICATION Spec
INVARIANT ReadingsHaveFeeds
