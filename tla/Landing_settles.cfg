SPECIFICATION LiveSpec
CONSTANTS
    Task = t
    AttemptIds = {a1}
    Procs = {p1, p2}
    None = none
    Free = free
    Calls <- LandOnly
    EndStatuses <- JustBlocked
    LateEdits = FALSE
    MaxEdits = 1
    MaxForeign = 1
    MaxMoves = 0
    MaxFailures = 2
CHECK_DEADLOCK FALSE
PROPERTIES
    LandingSettles
