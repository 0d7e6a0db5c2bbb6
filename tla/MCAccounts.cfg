CONSTANTS
    Null = Null
    l1 = l1
    l2 = l2
    s1 = s1
    a = a
    b = b
    p1 = p1
    p2 = p2
    Request = {1, 2, 3}
    Seeded = {s1}
    Mail = {a, b}
    Password = {p1, p2}
    Typed <- MCTyped
    Secret <- MCSecret
    Address <- MCAddress
    Old = {l1, l2}
    Linked <- MCLinked
    Admins = {b}
SPECIFICATION FairSpec
CHECK_DEADLOCK FALSE
INVARIANTS
    TypeOK
    OneUserPerEmail
    PasswordKept
    OnePrimaryUnlessOverlapped
PROPERTIES
    OnlyOwnLinks
    RequestsEnd
