SPECIFICATION Spec
CONSTANTS
    Task = t
    AttemptIds = {a1, a2}
    Procs = {p1}
    None = none
    Free = free
    Calls <- AllCalls
    EndStatuses <- JustBlocked
    LateEdits = TRUE
    MaxEdits = 1
    MaxForeign = 1
    MaxMoves = 2
    MaxFailures = 2
CHECK_DEADLOCK FALSE
INVARIANTS
    SettledAgree
