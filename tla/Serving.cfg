SPECIFICATION ServingSpec
CONSTANTS
  ParameterName <- MCNames
  DecodedName <- MCDecoded
  CutAt <- MCCut
  BeforeSign <- MCBefore
  Blanked = {"a b"}
  Added <- MCAdded
  Foreign <- MCForeign
  Status = {"ok", "service_unavailable", "high_load", "shutdown"}
  MaxPairs = 3
  MaxHops = 2
  MaxSteps = 2
  MaxBytes = 2
  None = None
  Unknown = Unknown
  Order <- MCOrder
  Numeric <- MCNumeric
  WxmlNumeric <- MCWxmlNumeric
  Times <- MCTimes
  JsonNumbers <- MCJsonNumbers
  With <- MCWith
  NoXmlName <- MCNoXmlName
  Scenarios <- MCScenarios
  CellText <- MCCellText
  MissingValue = "nan"
  Members <- MCMembers
  LowerCase <- MCLowerCase
  Parses <- MCParses
  Files <- MCFiles
  Second = 2
  Minute = 4
  Hour = 8
  Day = 16
  MaxMinutes = 3
  ValueBits = 3
  OffsetBits = 6
  TextDigits = 2
  MinuteSeconds = 2
  HourSeconds = 6
  DaySeconds = 24
  Questions <- MCAllQuestions
  MaxExpansions = 16
  Cores = 8
  Indexes <- MCIndexes
  MaxRedirections = 1
  CrsKeys <- MCCrsKeys
  CodeText <- MCCodeText
  EpsgSystems <- MCEpsgSystems
  Proj4Systems <- MCProj4Systems
  Patterns <- MCPatterns
  CacheNames <- MCCacheNames
  Threads = {t1, t2}
  Ages = {1, 2}
  MaxVersions = 3
  MaxTime = 2
  Singleton = {1, 2, 3}
  MaxPasses = 2
SYMMETRY Symmetry
\* A rejected or answered request is over, and so are a question and a teardown.
CHECK_DEADLOCK FALSE
INVARIANTS TakenWholeUnlessAltered ParametersKept LoggedOnce CellsAreKept OutputReadsBack DocumentsArePutTogether ReportsAreComplete TextsAreHeeded RequestsAreUnderstood OutdatedEntriesAreNoticed EnginesOutliveTheirUsers
PROPERTIES StatusKeptUnlessLeftOver FinalOnceRead BoundedStaleness
