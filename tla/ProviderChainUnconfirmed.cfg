CONSTANTS
    Null = Null
    Retries = 2
    Limit = 2
    MaxHistory = 3
SPECIFICATION Spec
INVARIANTS
    NotFoundIsConfirmed
