CONSTANTS
    Values = {1, 2}
    Capacity = 1
    FanIn = 2
    PerFile = 140
    Total = 280
    RecordBytes = 28
    OthersSets <- MCOthersSets
    NoOutput = NoOutput
    MaxValues = 6
SPECIFICATION Spec
INVARIANTS
    ScratchBounded
    OnlyOutputLeft
PROPERTIES
    ImplementsSort
