SPECIFICATION FairSpec
CONSTANTS
    RunIds = {r1}
    Tenants = {t1}
    Keys = {k1}
    Plans <- MCPlans
    NumSteps = 1
    DependsOn <- MCDependsOn
    MaxRetries <- MCMaxRetries
    Order <- MCOrder
    NoOrder = NoOrder
    None = None
    MaxPolls = 1
PROPERTIES
    EveryRunSettles
