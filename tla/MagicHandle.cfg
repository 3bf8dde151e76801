SPECIFICATION Spec
CONSTANTS
  Paths <- AllPaths
  PathLists <- Lists
  Text <- TextOf
  Compiled <- CompiledOf
  Warns <- WarnsOf
  WarnMax = 3
  Faults <- MayFail
  Actions <- AllActions
  MaxLoads = 2
  NULL = NULL
INVARIANTS
  TypeOK
  LoadedAsAsked
  ListsWhole
  UsesReportedDatabase
  FailureExplained
