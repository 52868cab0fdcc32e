CONSTANTS
    Door = {d1, d2, d3}
    Identity = {d1, d2, d3}
    IdentityOf <- OwnNodes
    Name = {n1}
    NoName = NoName
    NoDoor = NoDoor
    MaxRecords = 3
    WordMax = 1
    IOErrors = TRUE
SPECIFICATION OrderSpec
SYMMETRY DoorSymmetry
INVARIANTS
    OrderInv
    ExclusionInv
    MutualExclusion
PROPERTY FirstComeFirstServed
