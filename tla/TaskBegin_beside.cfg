SPECIFICATION Spec
CONSTANTS
    Task = t
    AttemptIds = {a1, a2}
    Procs = {p1, p2}
    Lineages = {l1, l2}
    Places = {home}
    Home = home
    None = none
    Recipe = TRUE
    MaxWork = 1
    MaxTrees = 2
    MaxMoves = 2
    MaxFailures = 1
SYMMETRY Symmetry
CHECK_DEADLOCK FALSE
INVARIANTS
    TypeOK
    AnswersOwn
    ReadyIsPrepared
PROPERTIES
    ReceiptsAdvance
