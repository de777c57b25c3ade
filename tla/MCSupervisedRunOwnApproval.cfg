CONSTANTS
    Order <- MCOrder
    DependsOn <- MCDependsOn
    NoActive = "none"
    Probes = 2
    FailureThreshold = 1
    MaxRequests = 1
    MaxLosses = 1
    MaxRounds = 1
SPECIFICATION SupervisedSpec
INVARIANT MergedOnItsOwnApproval
CHECK_DEADLOCK FALSE
