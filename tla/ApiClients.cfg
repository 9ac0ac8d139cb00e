SPECIFICATION Spec
CONSTANTS
    Slots = {s1, s2}
    Accounts = {alice, bob}
    m1 = m1
    m2 = m2
    Movies = {m1, m2}
    Tokens = {k1, k2, k3}
    Nobody = Nobody
    NoToken = NoToken
    MaxFavorites = 2
    Existing = {alice}
    Kept <- NoFavorites
    Earlier = {k1}
    Lists <- MCLists
    MaxRequests = 2
INVARIANTS
    RefusalChangesNothing
    OldTokenDies
    TokenMatchesReply
    ReplyIsCurrent
PROPERTIES
    NoForeignWrite
    ImplementsLists
SYMMETRY Symmetry
CHECK_DEADLOCK FALSE
