SPECIFICATION Spec
CONSTANTS
  Regexes <- MCRegexes
  Meaning <- MCMeaning
CHECK_DEADLOCK FALSE
INVARIANTS
  PowersetSound
  MeansExpression
  OverflowsOnStarOfEmpty
  GreedyAnswer
