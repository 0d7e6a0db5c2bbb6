CONSTANTS
    Null = Null
    Retries = 2
    Limit = 2
    MaxHistory = 3
SPECIFICATION FairSpec
INVARIANTS
    TypeOK
    NotFoundIsUnanimous
    EmptyHistoryIsReal
    AttemptsBounded
PROPERTIES
    LooksUpInTurn
    RequestEnds
