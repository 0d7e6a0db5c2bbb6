CONSTANTS
    Models = 3
    MaxAttempts = 2
    MaxTurns = 2
    MaxBytes = 7
    Sizes = {1, 2}
    ReplySizes = {1, 2}
    GreetingSize = 1
    MaxAsked = 5
SPECIFICATION FairSpec
INVARIANTS
    TypeOK
PROPERTIES
    KeepsConversation
    SendEnds
