SPECIFICATION FairSpec
CONSTANTS
    Slots = {s1, s2}
    Accounts = {alice, bob}
    m1 = m1
    m2 = m2
    Movies = {m1, m2}
    Tokens = {k1, k2, k3}
    Nobody = Nobody
    NoToken = NoToken
    MaxFavorites = 1
    Existing = {alice}
    Kept <- OneFavorite
    Earlier = {k1}
    Tabs = {t1}
    Browsers = {b1}
    NoSlot = NoSlot
    MaxActions = 3
    Faults = TRUE
INVARIANTS
    ShownIsOwned
PROPERTIES
    VisitorFavoritesKept
    BusyClears
CHECK_DEADLOCK FALSE
