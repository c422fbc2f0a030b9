SPECIFICATION StudySpec
CONSTANTS
  WINDOW_SIZES <- MCWindowSizes
  PRIMARY_WINDOW = 3
  FALLBACK_WINDOW = 2
  PHASE_SAMPLES_PER_SIZE = 3
  MIN_TRACE = 3
  TRAIN_CAP = 4
  SELECTOR_GRANULARITIES <- MCGranularities
  Traces <- MCTraces
  Features <- MCFeatures
  Outcomes <- MCOutcomes
  Budgets <- MCBudgets
  Lengths <- MCLengths
  Evidence <- MCEvidence
INVARIANT PipelinesIssue
CHECK_DEADLOCK FALSE
