CONSTANTS
    Door = {d1, d2, d3}
    Identity = {d1, d3}
    IdentityOf <- TwoNodes
    Name = {n1}
    NoName = NoName
    NoDoor = NoDoor
    Alone = d3
    MaxRecords = 3
    WordMax = 1
    IOErrors = TRUE
SPECIFICATION RegistrySpec
INVARIANTS
    IdentityInv
    OneSessionPerIdentity
PROPERTIES
    TombstonesStay
    OnlyOwnersWrite
    QueuedTicketsStay
    HeaderComesFirst
