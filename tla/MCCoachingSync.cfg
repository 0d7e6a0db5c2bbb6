CONSTANTS
    Null = Null
    a1 = a1
    a2 = a2
    p = p
    s1 = s1
    s2 = s2
    u1 = u1
    u2 = u2
    Player = {p}
    Subject = {s1, s2}
    Of <- MCOf
    Account = {a1, a2}
    Identity <- MCIdentity
    User <- MCUser
    SyncWorker = worker
    Admin = {}
    Caller = {c1}
    MaxPlayed <- MCPlays
SPECIFICATION FairSpec
INVARIANTS
    TypeOK
    SyncedMeansReported
    LocksHaveReaders
PROPERTIES
    WorkerKeepsSweeping
    TrackedAccountsAreSynced
    ShutdownCompletes
