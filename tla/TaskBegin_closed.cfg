SPECIFICATION Spec
CONSTANTS
    Task = t
    AttemptIds = {a1}
    Procs = {p1}
    Lineages = {l1}
    Places = {home}
    Home = home
    None = none
    Recipe = TRUE
    MaxWork = 1
    MaxTrees = 1
    MaxMoves = 2
    MaxFailures = 0
SYMMETRY Symmetry
CHECK_DEADLOCK FALSE
PROPERTIES
    FailureKeepsWork
