SPECIFICATION Spec
CONSTANTS
    Procs = {p1, p2}
    None = none
    MaxVersions = 1
    MaxTimes = 2
    MaxWork = 1
    MaxFailures = 2
CHECK_DEADLOCK FALSE
INVARIANTS
    TypeOK
    ReadersSeeWhole
PROPERTIES
    NothingOverwritten
    MigrationResolves
