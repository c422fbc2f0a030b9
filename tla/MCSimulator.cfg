CONSTANTS
  Address = {a1, a2, a3, a4}
  CAPACITY <- MCCapacity
  LATENCY <- MCLatency
  DESTINATION = 2
  MAX_OUTSTANDING = 2
  TOP_K = 2
  ISSUE_COST = 1
  LOOKUP_COST = 1
  UPDATE_COST = 0
  MaxAccesses = 5
SPECIFICATION Spec
INVARIANTS TypeOK LinesPlaced CountersAccounted
PROPERTY WaitingPays
CHECK_DEADLOCK FALSE
SYMMETRY MCSymmetry
