CONSTANTS
    MaxPartitions = 4
    Plans <- MCPlans
    MaxWorkers = 3
    Budgets <- MCBudgets
SPECIFICATION Spec
INVARIANTS
    AssignedOnce
    OkMeansAll
    ReportAdds
    FailFastStops
PROPERTY ExecuteReturns
