SPECIFICATION FairSpec
CONSTANTS
    t = t  r1 = r1  r2 = r2  a = a  b = b  w1 = w1  w2 = w2
    Nobody = Nobody
    Deleter = Deleter
    TypeOf <- MCTypeOf
    Signers <- MCSigners
    Spaces = {t, r1}
    Identities = {a, b}
    Workers = {w1}
    SpaceLimit = 0
    SharedLimits = {1}
    OneToOneLimit = 1
    DeletionPeriod = 1
    Periods <- MCPeriods
    NewOwners = {b}
    LegacySpaces = {r1}
    MaxRequests = 3
    MaxFaults = 1
    LastRequest = 2
    MaxTime = 4
PROPERTIES
    PendingIsResolved
