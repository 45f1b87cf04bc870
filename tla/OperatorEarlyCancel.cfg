SPECIFICATION Spec
CONSTANTS
    AgentRuns = {c1}
    RunIds = {r1}
    Tenants = {home}
    NoTenant = NoTenant
    Home = home
    Keys = {uid}
    Key <- MCKey
    None = None
    Gone = Gone
INVARIANTS
    CancelledBeforeSubmitIsTrue
