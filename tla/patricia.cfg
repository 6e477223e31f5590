SPECIFICATION Spec
CONSTANTS
  Words <- MCWords
  Keys <- MCKeys
  Data = {d1, d2}
  Strings <- MCStrings
  LinearEdges = 1
  MaxInserts = 4
  Null = Null
INVARIANTS
  TrieSound
  HoldsTheWords
  SearchAnswers
  GetsLatest
