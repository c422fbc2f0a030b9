CONSTANTS
  Line <- MCLine
  Key = {0, 1}
  ZeroKey = 0
  ContextHash <- MCContextHash
  HORIZON = 2
  CONTEXT_DEPTH = 1
  CONFIDENCE_MAX = 2
  CONFIDENCE_THRESHOLD = 1
  MAX_AGE = 2
  Bucket = {0}
  BucketOf <- MCBucketOf
  MaxEvents = 8
  WINDOW = 4
  MINIMUM = 2
  RATE_NUM = 1
  RATE_DEN = 3
  MaxSeen = 8
  MaxFills = 2
SPECIFICATION HybridSpec
INVARIANTS HybridTypeOK SelectorExact SidecarStream SidecarNeverStarves
CHECK_DEADLOCK FALSE
