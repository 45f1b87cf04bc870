SPECIFICATION MCFairSpec
CONSTANTS
    AgentRuns = {c1}
    RunIds = {r1}
    Tenants = {home, other}
    NoTenant = NoTenant
    Home = home
    Keys = {uid}
    Key <- MCKey
    None = None
    Gone = Gone
    MaxEdits = 2
PROPERTIES
    DeletionCompletes
    EndIsReported
    GatewayFailureClears
    FinishedRunsAreCleanedUp
