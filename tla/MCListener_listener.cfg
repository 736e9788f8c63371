CONSTANTS
    p1 = p1
    p2 = p2
    p3 = p3
    None = None
    Processes = {p1, p2, p3}
    Configs <- SomeConfigs
    MaxKills = 2
SPECIFICATION FairSpec
INVARIANTS
    TypeOK
    OneReachable
    NoLeftover
PROPERTIES
    StrayKept
    RestartServes
