SPECIFICATION Spec
CONSTANTS
  TaskIds = {t1}
  AttemptIds = {a1, a2}
  Actors = {ann}
  Notes = {n1}
  Receipts = {r0, r1}
  InitReceipt = r0
  None = None
  NoTask = NoTask
  Procs = {p1, p2}
  Finalizations = {f1}
  MaxTime = 1
  MaxFailures = 1
  MaxTransitions = 1
  Free = Free
  ClockSteps = FALSE
SYMMETRY Symmetry
CHECK_DEADLOCK FALSE
INVARIANTS
  TypeOK
PROPERTIES
  HistoryAppendOnly
  ImplementsLifecycle
