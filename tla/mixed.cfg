SPECIFICATION Spec
CONSTANTS
  Words <- MCMixed
  Keys = {}
  Data = {}
  Strings <- MCMixedStrings
  LinearEdges = 1
  MaxInserts = 3
  Null = Null
INVARIANTS
  FullMeansHeld
