SPECIFICATION FileSpec
CONSTANTS
  FlagSets <- BuiltinOff
  MayFail = FALSE
  MaxChanges = 0
INVARIANTS
  OnlyRulesAnswer
