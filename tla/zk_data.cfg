SPECIFICATION Spec
CONSTANTS
  Nodes = {n1}
  Backup = {n1}
  Callers = {c1}
  Versions = {2, 3, 4}
  MaxSize = 1
  Threshold = 3
  Faults = {}
  MaxCalls = 2
  MaxChanges = 3
INVARIANT AssertionsHold
PROPERTIES NodeLeavesWithPool DataCatchesUp
