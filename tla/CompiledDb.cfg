SPECIFICATION SerialSpec
CONSTANTS
  Compilers = {"c1", "c2"}
  Loaders = {"l1"}
  Texts = {"a", "b", "short", "none"}
  Count <- MCCount
  Foreign <- FoundOrNone
  Modulus = 8
  ReadMax = 5
INVARIANTS
  TypeOK
  SetsInside
  AcceptedComplete
  CompiledIsLoadable
