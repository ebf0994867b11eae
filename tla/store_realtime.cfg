SPECIFICATION Spec
CONSTANTS
  MaxDoc = 3
  MaxOpens = 2
  Optimizing = {"default", "realtime"}
  Crashes = FALSE
INVARIANT StopKeepsDocs
