SPECIFICATION Spec
CONSTANTS
  Setups <- AllSetups
  MaxLevel = 2
  IndirMax = 2
  NameMax = 3
INVARIANTS
  TypeOK RecursionBounded RelativeToParent OneGroupDescribes MatchesSeparated
  ValueReflectsOutput NoNullText
  ContinuationsFollowParents DefaultIsLastResort OneBranchApplies
PROPERTIES
  Terminates
