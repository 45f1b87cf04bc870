SPECIFICATION MCFairSpec
CONSTANTS
    Policies = {p}
    Agents = {a}
    Tenants = {t}
    NoTenant = NoTenant
    Models = {"m"}
    Tools = {"t"}
    PolicySpecs <- MCPolicySpecs
    AgentSpecs <- MCAgentSpecs
    MaxEdits = 2
    MaxDisturbances = 4
    None = None
    Gone = Gone
INVARIANTS
    TypeOK
    QuietStatusIsCurrent
PROPERTIES
    ImplementsGovernance
    StatusConverges
CHECK_DEADLOCK FALSE
