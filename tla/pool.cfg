SPECIFICATION FairSpec
CONSTANTS
  Clients = {"c1"}
  Threads = {w1, w2}
  Miners = {"bb", "b"}
  Texts = {"b_b", "unreadable"}
  Unreadable = {"unreadable"}
  Given <- MCGiven
  Size <- MCSize
  Matcher <- MCMatcher
  Batches = {1, 2}
  FlagArgs = {{"E_NO_ENCLOSED_OCCURRENCES"}}
  MaxCalls = 4
  UintSpan = 64
  Nobody = Nobody
  NoText = NoText
  NoJob = NoJob
  NoOccurrence = NoOccurrence
INVARIANTS
  PopFindsJob
  NoLateWriter
  OneThreadPerMiner
  TargsFits
  OutFits
  QuietBetweenCalls
  TeardownAfterThreads
  NoDuplicate
  IInv
PROPERTIES
  ImplementsMining
  NextReturns
  DestroyReturns
