CONSTANTS
    RoleOf <- MCRoleOf
    Agents <- MCAgents
    Name <- MCName
    AgentOf <- MCAgentOf
    Smokes = {"Omen"}
    Flashes = {}
    Recon = {"Sova"}
    Meta = {"Sova", "Omen", "Jett"}
    Counters <- MCCounters
    Dangerous = {"Jett", "Killjoy"}
    Match <- MCMatch
    Statistics <- MCStatistics
    MaxHistory = 3
    MaxReports = 1
    MaxDraft = 4
    Top = 3
SPECIFICATION InsightsSpec
INVARIANTS
    InsightsTypeOK
    TrendsIgnoreListing
PROPERTIES
    OnlyThirdDuelistHurts
