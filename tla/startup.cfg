SPECIFICATION Spec
CONSTANTS
    a = a
    b = b
    c = c
    Processes = {a, b, c}
    Head <- TwoVersions
    Mode <- AllAuto
    Worker = {a, c}
    UsesS3 = {a}
    Faults = {"kill", "stop", "migration", "unlock", "dependency", "drift", "connection"}
    MaxFaults = 2
    MaxBoots = 2
INVARIANTS
    OneMigrator
PROPERTIES
    StartUpEnds
\* The runs and requests are finite: the model ends when they are done.
CHECK_DEADLOCK FALSE
