CONSTANTS
    j1 = j1
    j2 = j2
    NoJob = NoJob
    Jobs <- MCJobs
    Groups = {1, 2}
    Metrics = 2
    CsvRows = 3
    Limits <- MCLimits
    HeaderBytes = 3
    GroupBytes = 2
    EntryBytes = 2
    SuffixBytes = 2
    Attempts = 2
    MaxCrashes = 2
SYMMETRY MCSymmetry
SPECIFICATION Spec
INVARIANTS
    OutputWhole
    LimitsHold
    NothingLeft
    ScratchExclusive
PROPERTIES
    OthersFilesStay
    OkIffPublished
