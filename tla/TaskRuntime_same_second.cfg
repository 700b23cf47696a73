SPECIFICATION Spec
CONSTANTS
  TaskIds = {t1}
  AttemptIds = {a1}
  Actors = {ann}
  Notes = {n1}
  Receipts = {r0}
  InitReceipt = r0
  None = None
  NoTask = NoTask
  Procs = {p1, p2}
  Finalizations = {f1}
  MaxTime = 0
  MaxFailures = 0
  MaxTransitions = 3
  Free = Free
  ClockSteps = FALSE
SYMMETRY Symmetry
CHECK_DEADLOCK FALSE
INVARIANTS
  TransitionsAnswered
