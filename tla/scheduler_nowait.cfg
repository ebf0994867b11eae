SPECIFICATION Spec
CONSTANTS
  Names = {n1}
  Clients = {c1}
  Removals = {"nowait"}
  MaxJobs = 1
INVARIANT DestructionWaits
CHECK_DEADLOCK FALSE
