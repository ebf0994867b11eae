SPECIFICATION Spec
CONSTANTS
  Names = {n1, n2}
  Clients = {c1, c2}
  Removals = {"wait", "nowait", "all"}
  MaxJobs = 2
INVARIANTS TypeOK OneAtATime NoCallbackAfterWait
PROPERTIES CallsReturn RemovedRunsOut
