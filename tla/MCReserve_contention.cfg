CONSTANTS
    Door = {d1, d2}
    Identity = {d1, d2}
    IdentityOf <- OwnNodes
    Name = {n1}
    NoName = NoName
    NoDoor = NoDoor
    MaxRecords = 3
    WordMax = 1
    IOErrors = FALSE
SPECIFICATION Spec
PROPERTY ContentionIsPending
