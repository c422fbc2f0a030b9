CONSTANTS
  Address = {a1, a2, a3}
  CAPACITY <- MCCapacity
  LATENCY <- MCLatency
  DESTINATION = 1
  MAX_OUTSTANDING = 1
  TOP_K = 2
  MaxHorizon = 2
  ISSUE_COST = 1
  COMPUTE = 1
  LOOKUP = 5
  LOOKUP_INTERVAL = 4
  OVERLAP = 4
  QUEUE_DEPTHS = {1, 2}
  UPDATE = 1
  UPDATE_INTERVAL = 9
  BATCH = 2
  READ_PORTS = 1
  MaxLength = 5
SPECIFICATION Spec
INVARIANTS TypeOK LinesPlaced CountersAccounted MissesClassified ClockAttributed
CHECK_DEADLOCK FALSE
SYMMETRY MCSymmetry
