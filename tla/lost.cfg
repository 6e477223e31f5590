SPECIFICATION Spec
CONSTANTS
  Regexes <- BracketRegexes
  Meaning <- MCMeaning
CHECK_DEADLOCK FALSE
INVARIANT ErrorsShow
