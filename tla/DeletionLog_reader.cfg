SPECIFICATION LogSpec
CONSTANTS
    r1 = r1  r2 = r2  a = a  b = b  w1 = w1  w2 = w2
    Nobody = Nobody
    Deleter = Deleter
    TypeOf <- MCTypeOf
    Signers <- MCSigners
    Rank <- MCRank
    Spaces = {r1, r2}
    Identities = {a, b}
    Workers = {w1, w2}
    SpaceLimit = 1
    SharedLimits = {0, 1}
    OneToOneLimit = 1
    DeletionPeriod = 0
    Periods = {0}
    NewOwners = {b}
    LegacySpaces = {}
    SharedAtStart = {r1}
    MaxRequests = 3
    MaxFaults = 1
    LastRequest = 1
    MaxTime = 1
    DefaultLimit = 2
    Limits = {0, 1}
SYMMETRY SymmetricWorkers
INVARIANTS
    ReaderIsRight
    LimitCheckIsFresh
    FormerOwnerComesFirst
PROPERTIES
    LastPageIsLast
    RecordsNameTheOwner
