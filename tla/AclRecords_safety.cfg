SPECIFICATION Spec
CONSTANTS
    r1 = r1  a = a  b = b  h1 = h1  h2 = h2
    Nobody = Nobody
    TypeOf <- MCTypeOf
    Signers <- MCSigners
    Spaces = {r1}
    Identities = {a, b}
    SpaceLimit = 0
    SharedLimits = {0, 1}
    OneToOneLimit = 1
    DeletionPeriod = 1
    Handlers = {h1, h2}
    MemberLimit = 2
    MaxLag = 2
    MaxCalls = 5
    MaxFaults = 1
SYMMETRY SymmetricHandlers
INVARIANTS
    TypeOK
    UnsharedIsEmpty
    OwnerIsRepaired
    OwnershipIsChained
    EventLogTellsAll
CHECK_DEADLOCK FALSE
