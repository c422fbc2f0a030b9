CONSTANTS
  Line <- MCLine
  Key <- MCKey
  ZeroKey = 0
  ContextHash <- MCContextHash
  HORIZON = 2
  CONTEXT_DEPTH = 2
  CONFIDENCE_MAX = 3
  CONFIDENCE_THRESHOLD = 2
  MAX_AGE = 2
  Bucket = {0, 1}
  BucketOf <- MCBucketOf
  MaxEvents = 13
SPECIFICATION Spec
PROPERTY ReplacementsCounted
CHECK_DEADLOCK FALSE
