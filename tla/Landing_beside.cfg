SPECIFICATION Spec
CONSTANTS
    Task = t
    AttemptIds = {a1}
    Procs = {p1, p2}
    None = none
    Free = free
    Calls <- AllCalls
    EndStatuses <- JustBlocked
    LateEdits = TRUE
    MaxEdits = 2
    MaxForeign = 1
    MaxMoves = 0
    MaxFailures = 2
SYMMETRY Symmetry
CHECK_DEADLOCK FALSE
INVARIANTS
    TypeOK
    LandsOnceOnItsBase
    LedgerLoads
    SuccessIsLanded
    NoWorkLost

