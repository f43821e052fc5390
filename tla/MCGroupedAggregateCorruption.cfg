CONSTANTS
    MaxCount = 4
    MaxInt = 2
    Refused = Refused
    Keys <- MCKeys
    Observations <- MCObservations
    RecordBytes <- MCRecordBytes
    ForeignRuns <- MCForeignRuns
    GroupCapacity = 1
    BatchCapacity = 2
    MaxRuns = 3
    Quota = 12
    MaxRows = 5
    Corruption = TRUE
SPECIFICATION Spec
INVARIANT OkMeansComplete
