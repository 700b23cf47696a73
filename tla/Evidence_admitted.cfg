SPECIFICATION Spec
CONSTANTS
    Attempts = {a1, a2}
    Procs = {p1, p2}
    Requests = {r1, r2}
    Definitions = {d1}
    Criteria = {c1}
    Trees = {t1, t2}
    CommandsOf <- OwnCommands
    Environments = {e1, unknown}
    Unknown = unknown
    None = none
    MaxEvents = 5
    MaxCalls = 2
    MaxEdits = 2
    MaxFailures = 1
SYMMETRY Symmetry
CHECK_DEADLOCK FALSE
INVARIANTS
    TypeOK
    EvidenceLoads
    RunsOnce
    CitedRunsSound
PROPERTIES
    AssessesWhatEnded
