SPECIFICATION Spec
CONSTANTS
    RunIds = {r1}
    Tenants = {t1}
    Keys = {k1}
    Plans <- MCPlans
    NumSteps = 2
    DependsOn <- MCDependsOn
    MaxRetries <- MCMaxRetries
    Order <- MCOrder
    NoOrder = NoOrder
    None = None
INVARIANTS
    CancelPersistsTerminalState
