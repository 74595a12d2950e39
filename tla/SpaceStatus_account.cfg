SPECIFICATION Spec
CONSTANTS
    t = t  r1 = r1  r2 = r2  a = a  b = b  w1 = w1  w2 = w2
    Nobody = Nobody
    Deleter = Deleter
    TypeOf <- MCTypeOf
    Signers <- MCSigners
    Spaces = {t, r1}
    Identities = {a}
    Workers = {w1, w2}
    SpaceLimit = 0
    SharedLimits = {1}
    OneToOneLimit = 1
    DeletionPeriod = 1
    Periods = {2}
    NewOwners = {}
    LegacySpaces = {}
    MaxRequests = 4
    MaxFaults = 0
    LastRequest = 3
    MaxTime = 3
INVARIANTS
    NoCreatedSpaceInPendingAccount
