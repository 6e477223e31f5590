SPECIFICATION MCSpec
CONSTANTS
  Unmarked = Unmarked
  Quote = Quote
  Comma = Comma
  CR = CR
  LF = LF
  EndOfRow = EndOfRow
  Symbols = {X, Quote, Comma, CR, LF}
  MaxText = 0
  BatchSizes = {0}
  ByteSpan = 5
  MaxParses = 3
  Inputs <- MCStarInputs
  Names <- MCNames
  Spaces <- MCSpaces
  Puncts = {"."}
  Lower <- MCLower
INVARIANT StarsFindTokens
