CONSTANTS
    MaxPartitions = 4
    Plans <- MCPlans
    MaxWorkers = 3
    Budgets <- MCBudgets
SPECIFICATION SpecWithLockFaults
INVARIANT OkMeansAll
