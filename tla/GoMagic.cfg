SPECIFICATION FairSystemSpec
CONSTANTS
  Goroutines = {g1, g2}
  Handles = {h1}
  Main = g1
  ToolHandle = h1
  Commands <- SomeCommands
  Programs <- SomePrograms
  Bundles <- SomeBundles
  Trees <- SomeTrees
  MaxPasses = 2
INVARIANTS
  LoadsPrefix
  GoTypeOK
  ToolReports
  BundleFaithful
PROPERTIES
  SerialCalls
  MethodsReturn
