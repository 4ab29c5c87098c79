CONSTANTS
    meter = meter
    relay = relay
    Devices <- ThreeDevices
    Templates <- TwoTemplates
    Unknown = Unknown
    Raw <- RawAddresses
    Missing = Missing
    None = None
    WordSize = 4
    FloatSize = 4
    FloatExponents = 3
    Key <- Keys
    Rank <- Ranks
    ModuleMappings <- AllMappings
    TriedTemplates <- Tried
    PlainTemplates <- Plainly
    FewDevices <- Few
CHECK_DEADLOCK FALSE
SPECIFICATION StartUpSpec
INVARIANT TypeOK
INVARIANT LowestKeyWins
INVARIANT KeysAndAddressesAgree
INVARIANT OnceWithOwnTemplate
 
INVARIANT ReadingsFindTheirMapping
INVARIANT AnnouncementsRegistered
INVARIANT DefaultIsReported
INVARIANT RegistersAgree
