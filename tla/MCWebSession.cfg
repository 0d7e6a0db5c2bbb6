CONSTANTS
    MaxLogins = 2
    MaxCalls = 3
SPECIFICATION Spec
INVARIANTS
    TypeOK
    SpinnersHaveCalls
PROPERTIES
    EndedSessionsStayEnded
