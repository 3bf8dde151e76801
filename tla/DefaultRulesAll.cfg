SPECIFICATION Spec
CONSTANTS
  Goroutines = {g1, g2}
  Bundles <- TwoPieces
INVARIANTS
  LoadsAll
