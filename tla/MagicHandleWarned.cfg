SPECIFICATION Spec
CONSTANTS
  Paths <- AllPaths
  PathLists <- ShortLists
  Text <- TextOf
  Compiled <- CompiledOf
  Warns <- WarnsOf
  WarnMax = 2
  Faults <- NeverFails
  Actions <- LoadOnly
  MaxLoads = 3
  NULL = NULL
INVARIANTS
  OnlyWarningsSuppressed
