SPECIFICATION Spec
CONSTANTS
  MaxDoc = 4
  MaxOpens = 3
  Optimizing = {"default"}
  Crashes = TRUE
INVARIANTS TypeOK FilesMatch StopKeepsDocs CrashNoticed
