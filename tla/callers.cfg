SPECIFICATION Spec
CONSTANTS
  Clients = {"c1", "c2"}
  Threads = {w1, w2}
  Miners = {"bb", "b"}
  Texts = {"b_b"}
  Unreadable = {}
  Given <- MCGiven
  Size <- MCSize
  Matcher <- MCMatcher
  Batches = {1, 2}
  FlagArgs = {{"E_SORT_RESULTS"}}
  MaxCalls = 3
  UintSpan = 64
  Nobody = Nobody
  NoText = NoText
  NoJob = NoJob
  NoOccurrence = NoOccurrence
PROPERTIES
  ImplementsMining
  ReturnedStays
