SPECIFICATION StoresSpec
CONSTANTS
    LimitAccounts = {a1}
    Tariffs = {small, large}
    NoTariff = NoTariff
    Setters = {h1, h2}
    MaxSetCalls = 4
    MaxSetFaults = 1
    DefaultLimit = 2
    Owners = {o1, o2}
    PageLimits = {0, 1}
    MaxEvents = 3
    Coordinators = {c1, c2}
    Clients = {cl1}
    MaxConfs = 3
    Authors = {i1, i2}
    Kinds = {k1, k2}
    Versions = {v1}
    NoData = NoData
    Blank = Blank
    Unreadable = Unreadable
    NoDocument = NoDocument
    PullLimit = 2
    MaxUpdates = 3
INVARIANTS
    StoresTypeOK
    LimitsAgree
    ReadersMissNothing
    EventHasReceipt
    DisabledIsNotUsed
    PulledIsTheirs
PROPERTIES
    ServedIsNewer
    AllUseTheYoungest
    RepoIsAStore
CHECK_DEADLOCK FALSE
