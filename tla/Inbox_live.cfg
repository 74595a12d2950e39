SPECIFICATION FairSpec
CONSTANTS
    a = a  k1 = k1  k2 = k2  s1 = s1  s2 = s2  s3 = s3
    None = None
    AccountOf <- MCAccountOf
    KeyOf <- MCKeyOf
    Accounts = {a}
    Keys = {k1}
    Streams = {s1, s2}
    FetchLimit = 1
    MaxMessages = 2
    MaxFaults = 1
INVARIANTS
    IInv
    RegisteredIsWaited
    FetchIsGapFree
    AnnouncedIsKept
PROPERTIES
    DeadStreamIsForgotten
    MessageReachesSubscriber
    AnnouncedIsFetched
CHECK_DEADLOCK FALSE
