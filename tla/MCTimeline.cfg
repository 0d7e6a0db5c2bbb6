CONSTANTS
    r1 = r1
    b1 = b1
    b2 = b2
    Player = {r1, b1, b2}
    TeamOf <- MCTeamOf
    Hero = b1
    Window = 1
    Half = 12
    Thrifty <- MCThrifty
    AntiEco <- MCAntiEco
    AtLeast <- MCAtLeast
    Rounds <- MCRounds
    Times = {0, 1, 2}
    First = 12
    MaxRounds = 2
    MaxKills = 3
    MaxMatches = 2
SPECIFICATION Spec
INVARIANTS
    TypeOK
    TradesAreTrades
    TeamsMirror
CHECK_DEADLOCK FALSE
