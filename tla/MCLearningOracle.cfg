CONSTANTS
  Line <- MCLine
  Mix <- MCMix
  Depth = 2
  Horizon = 2
  EntryLimit = 3
  CounterMax = 2
  TableSize = 2
  Levels = 3
  Least = 2
  MaxTrain = 6
  MaxEval = 3
SPECIFICATION Spec
INVARIANTS OracleIsCeiling
CHECK_DEADLOCK FALSE
