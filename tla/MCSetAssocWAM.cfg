CONSTANTS
  Line <- MCLine
  Key <- MCKey
  ZeroKey = 0
  ContextHash <- MCContextHash
  HORIZON = 1
  CONTEXT_DEPTH = 2
  CONFIDENCE_MAX = 3
  CONFIDENCE_THRESHOLD = 2
  MAX_AGE = 2
  Set = {0, 1}
  SetOf <- MCSetOf
  WAYS = 2
  Bucket = {0, 1, 2, 3}
  BucketOf <- MCBucketOf
  MaxEvents = 10
SPECIFICATION Spec
INVARIANTS TypeOK LookupUnambiguous ConfidenceSupported DirectShadowFaithful
PROPERTIES ImplementsFifo
CHECK_DEADLOCK FALSE
