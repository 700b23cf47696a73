SPECIFICATION Spec
CONSTANTS
  TaskIds = {t1}
  AttemptIds = {a1}
  Actors = {ann}
  Notes = {n1}
  Receipts = {r0}
  InitReceipt = r0
  None = None
  NoTask = NoTask
  Procs = {p1, p2}
  Finalizations = {f1}
  MaxTime = 2
  MaxFailures = 1
  MaxTransitions = 2
  Free = Free
  ClockSteps = FALSE
SYMMETRY Symmetry
CHECK_DEADLOCK FALSE
INVARIANTS
  TransitionsInspectable
