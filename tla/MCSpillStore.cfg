CONSTANTS
    a = a
    b = b
    NoRecord = NoRecord
    Records <- MCRecords
    PayloadLen <- MCPayloadLen
    Configs <- MCConfigs
    CutPoints <- MCCutPoints
    MaxInodes = 3
    MaxCrashes = 1
SPECIFICATION Spec
INVARIANTS
    TypeOK
    HandleMatchesFile
    AckedStays
    EndMeansAll
    DiskBounded
PROPERTY ImplementsLog
