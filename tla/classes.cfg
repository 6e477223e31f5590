SPECIFICATION Spec
CONSTANTS
  Regexes <- ClassRegexes
  Meaning <- MCMeaning
CHECK_DEADLOCK FALSE
INVARIANT AtomsAsListed
