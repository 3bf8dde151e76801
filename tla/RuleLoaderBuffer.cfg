SPECIFICATION Spec
CONSTANTS
  h1 = h1
  h2 = h2
  Handles <- One
  Texts <- MixedTexts
  Sources <- BufferOnly
  Levels <- ThreeLevels
  InitialLen = 1
  Slack = 1
  LevelModulus = 256
  WarnMax = 2
  Oom <- NeverFails
  MaxLoads = 1
INVARIANTS
  BufferLoadsEveryRule

