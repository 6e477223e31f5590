SPECIFICATION Spec
CONSTANTS
  Clients = {"c1"}
  Threads = {w1, w2}
  Miners = {"a", "_a"}
  Texts = {"n_a"}
  Unreadable = {}
  Given <- MCGiven
  Size <- MCSize
  Matcher <- MCMatcher
  Batches = {1, 2}
  FlagArgs = {{"E_NO_ENCLOSED_OCCURRENCES"}}
  MaxCalls = 3
  UintSpan = 64
  Nobody = Nobody
  NoText = NoText
  NoJob = NoJob
  NoOccurrence = NoOccurrence
PROPERTIES
  DroppedAreEnclosed
