SPECIFICATION FairSpec
CONSTANTS
  h1 = h1
  h2 = h2
  Handles <- One
  Texts <- AllTexts
  Sources <- FileOnly
  Levels <- ThreeLevels
  InitialLen = 1
  Slack = 1
  LevelModulus = 256
  WarnMax = 1
  Oom <- MayFail
  MaxLoads = 1
INVARIANTS
  TypeOK LevelInBounds GroupsStayTogether ConditionsPaired FileLoadsEveryRule
  DefaultLastOrWarned
PROPERTIES
  LoadsEnd
