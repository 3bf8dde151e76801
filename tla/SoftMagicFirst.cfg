SPECIFICATION Spec
CONSTANTS
  Setups <- PlainSetups
  MaxLevel = 2
  IndirMax = 1
  NameMax = 1
INVARIANTS
  StopsAtFirstMatch
