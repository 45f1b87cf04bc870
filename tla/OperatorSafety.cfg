SPECIFICATION Spec
CONSTANTS
    AgentRuns = {c1}
    RunIds = {r1}
    Tenants = {home, other}
    NoTenant = NoTenant
    Home = home
    Keys = {uid}
    Key <- MCKey
    None = None
    Gone = Gone
INVARIANTS
    TypeOK
    TerminalStatusIsReal
PROPERTIES
    ReportsNeverGoBack
    FinalizerStopsRun
    TTLDeletesOnlyFinished
