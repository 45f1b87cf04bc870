SPECIFICATION Spec
CONSTANTS
    RunIds = {r1, r2}
    Tenants = {t1, t2}
    Keys = {k1}
    Plans <- MCPlans
    NumSteps = 2
    DependsOn <- MCDependsOn
    MaxRetries <- MCMaxRetries
    Order <- MCOrder
    NoOrder = NoOrder
    None = None
SYMMETRY Symmetry
INVARIANTS
    TypeOK
    RetryBudget
    DependenciesFirst
    FlagsAgree
    FinishedRunsAreSettled
    CancelSweepsSteps
    AnswersAreConsistent
PROPERTIES
    ImplementsLifecycle
    SuccessIsKept
