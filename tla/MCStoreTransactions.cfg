CONSTANTS
    Null = Null
    h1 = h1
    h2 = h2
    profile = profile
    detail = detail
    p1 = p1
    m1 = m1
    m2 = m2
    Prune = {worker, admin}
    Key <- MCKey
    Invalidation = {i1}
    Player = {p1}
    Match = {m1, m2}
    Owner <- MCOwner
    ProfileKey = {profile}
    HistoryKey = {h1, h2}
    DetailOf <- MCDetailOf
    Position <- MCPosition
    LastPosition = 2
    PoolSize = 2
SPECIFICATION Spec
INVARIANTS
    TypeOK
    DeadlocksAmongDeletions
    PruneTakesOnlyExpired
