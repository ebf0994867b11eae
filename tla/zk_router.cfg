SPECIFICATION Spec
CONSTANTS
  Nodes = {n1, n2}
  Backup = {}
  Callers = {c1, c2}
  Versions = {3}
  MaxSize = 1
  Threshold = 3
  Faults = {"exception", "deadline"}
  MaxCalls = 1
  MaxChanges = 2
INVARIANTS TypeOK ConnectionsOwned SizeExact
PROPERTIES NodeLeavesWithPool RemovalReturns
