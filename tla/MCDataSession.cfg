SPECIFICATION Spec
CONSTANTS
  Largest <- MCLargest
  MaxSingle = 70
  MaxFinite = 99
  MaxSize = 60
  MaxStride = 40
  HashValues = 3
  CodeOf <- MCCodeOf
  MaxText = 4
  NameText <- MCNameText
  MonthOf <- MCMonthOf
  LooseMonthOf <- MCLooseMonthOf
  NumberOf <- MCNumberOf
  NumeralOf <- MCNumeralOf
  MaxString = 12
  MaxTotalStrings = 30
  MaxName = 8
  MaxModule = 150
  MaxCaps <- MCCaps
  WorkingDirectory <- MCWorkingDirectory
  Role = "feature"
  Sessions <- MCSessions
INVARIANTS
  ArraysSound
  CompilerSound
  StateSound
  ReportsWhole
PROPERTIES
  RelationalResults
  OnlyTheDestinationChanges
  ViewsDenoteTheirElements
  BudgetFollowsFields
CHECK_DEADLOCK FALSE
