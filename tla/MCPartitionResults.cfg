CONSTANTS
    MaxPartitions = 3
    Plans <- MCPlans
    Results <- MCResults
    MaxStatus = 12
    IoError = 2
    DataError = 6
    ParseError = 4
    Strays <- MCStrays
    None = None
    MaxRuns = 2
SPECIFICATION Spec
INVARIANTS
    OkMeansExact
    ExecutorTrue
PROPERTIES
    ExecutorReturns
\* The session may end: nothing is left to do after the reduction.
CHECK_DEADLOCK FALSE
