CONSTANTS
  Job = {1, 2}
  MaxWorkers = 2
  MaxInvocations = 2
SPECIFICATION Spec
INVARIANTS TypeOK RecordVouches
PROPERTIES SummaryTrue ResumeKeepsCompleted InvocationEnds
CHECK_DEADLOCK FALSE
