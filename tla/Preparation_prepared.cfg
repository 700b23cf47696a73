SPECIFICATION Spec
CONSTANTS
    Worktrees = {w1, w2}
    Procs = {p1, p2}
    Versions = {0, 1}
    Free = free
    None = none
    MaxTools = 1
    MaxChanges = 2
    MaxFailures = 1
SYMMETRY Symmetry
CHECK_DEADLOCK FALSE
INVARIANTS
    TypeOK
    ReceiptSound
    PointerSound
    AnswersAgree
PROPERTIES
    ImplementsEffect
