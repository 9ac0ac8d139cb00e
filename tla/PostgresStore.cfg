SPECIFICATION FairSpec
CONSTANTS
    Workers = {w1, w2}
    Ids = {i1, i2}
    Names = {alice}
    m1 = m1
    m2 = m2
    m3 = m3
    Movies = {m1, m2, m3}
    Lists <- MCListsLong
    MaxFavorites = 2
    MaxCalls = 3
    NoWorker = NoWorker
    Unused = Unused
    Dropped = Dropped
INVARIANTS
    WithinLimit
    UniqueNames
    InsertMeetsNoKey
PROPERTIES
    ReturnsTheList
    RefusalJustified
    ImplementsLists
    EveryCallReturns
CHECK_DEADLOCK FALSE
