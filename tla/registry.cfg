SPECIFICATION ModuleSpec
CONSTANTS
  Paths = {"globs", "web", "missing", "module"}
  Names = {"match", "url", "quote"}
  Files <- MCFiles
  Params = {"p", "["}
  Refused = {"["}
  Null = Null
  MaxAdds = 4
  Compiled = {"match", "url", "quote"}
  Failed = {"open"}
  Valid = {"match", "url"}
  ModulePath = "module"
  OwnCalls <- MCCalls
  MaxErrors = 2
INVARIANTS LibrariesStayOpen AnswersTruly LoadAnswers
CHECK_DEADLOCK FALSE
