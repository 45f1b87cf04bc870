SPECIFICATION ValidationSpec
CONSTANTS
    NoOrder = NoOrder
    Names = {a, b, c}
    MaxNodes = 3
    MaxDeps = 2
    Tokens = {0, 1, 3, 4}
    LongNames = {c}
    ApiMaxNodes = 2
    ApiMaxTokens = 3
    Absent = Absent
INVARIANTS
    AcceptsExactlyWorkflows
    OrderRespectsDependencies
    OperatorAgreesWithApi
    RecursionIsBounded
    RefusedOnlyBeyondLimits
    WorkflowSurvivesProjection
PROPERTIES
    SearchEnds
CHECK_DEADLOCK FALSE
