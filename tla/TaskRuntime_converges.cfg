SPECIFICATION LiveSpec
CONSTANTS
  TaskIds = {t1}
  AttemptIds = {a1}
  Actors = {ann}
  Notes = {n1}
  Receipts = {r0, r1}
  InitReceipt = r0
  None = None
  NoTask = NoTask
  Procs = {p1, p2}
  Finalizations = {f1, f2}
  MaxTime = 1
  MaxFailures = 2
  MaxTransitions = 0
  Free = Free
  ClockSteps = TRUE
CHECK_DEADLOCK FALSE
INVARIANTS
  OneVerdict
  FinishReported
  WriteAhead
  DecisionStands
PROPERTIES
  SetupRecordedBeforeReplaced
  FinishConverges
