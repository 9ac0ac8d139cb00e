SPECIFICATION Spec
CONSTANTS
    Slots = {s1, s2}
    Accounts = {alice, bob}
    m1 = m1
    m2 = m2
    Movies = {m1}
    Tokens = {k1, k2, k3}
    Nobody = Nobody
    NoToken = NoToken
    MaxFavorites = 1
    Existing = {alice}
    Kept <- NoFavorites
    Earlier = {k1}
    Tabs = {t1, t2}
    Browsers = {b1, b2}
    NoSlot = NoSlot
    MaxActions = 5
    Faults = FALSE
INVARIANTS
    ShownIsOwned
    SearchIsForAccount
PROPERTIES
    ListsMoveForward
SYMMETRY Symmetry
CHECK_DEADLOCK FALSE
