SPECIFICATION FileSpec
CONSTANTS
  FlagSets <- AllFlags
  MayFail = TRUE
  MaxChanges = 2
INVARIANTS
  TypeOK OneDescription  MimeComplete OneAccount
PROPERTIES
  FailuresExplained
