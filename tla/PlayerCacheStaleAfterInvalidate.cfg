CONSTANTS
    Null = Null
    r1 = r1
    r2 = r2
    r3 = r3
    rank = rank
    match = match
    p1 = p1
    Request <- MCRequest
    Key <- MCKey
    Player = {p1}
    KeyOf <- MCKeyOf
    Owner <- MCOwner
    TTL = 1
    MaxClock = 2
    MaxArrivals = 3
SPECIFICATION Spec
INVARIANT
    InvalidationForcesFreshData
