SPECIFICATION Spec
CONSTANTS
    Procs = {p1, p2}
    Releases = {r1, r2}
    Guides = {g1, g2}
    None = none
    Legacies <- LeftOrOwn
    MaxCalls = 3
    MaxEdits = 1
    MaxFailures = 1
SYMMETRY Symmetry
CHECK_DEADLOCK FALSE
INVARIANTS
    TypeOK
    RefreshConverges
PROPERTIES
    UnbindFinishes
    UnbindKeepsWork
    RegistrationsKept
