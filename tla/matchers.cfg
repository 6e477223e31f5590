SPECIFICATION MCSpec
CONSTANTS
  Unmarked = Unmarked
  Quote = Quote
  Comma = Comma
  CR = CR
  LF = LF
  EndOfRow = EndOfRow
  Symbols = {X, Quote, Comma, CR, LF}
  MaxText = 5
  BatchSizes = {0, 1, 2}
  ByteSpan = 5
  MaxParses = 3
  Inputs <- MCInputs
  Names <- MCNames
  Spaces <- MCSpaces
  Puncts = {"."}
  Lower <- MCLower
INVARIANTS
  GlobAnswers
  TokensFound
  TableAgrees
  RowsRead
  ErrorsCutOff
PROPERTIES
  ScansEnd
