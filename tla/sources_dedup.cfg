SPECIFICATION Spec
CONSTANTS
    MaxSources = 2
    MaxRuns = 3
    MaxPending = 2
    Asks <- Mixed
    Faults = {"crash", "fail", "switch", "s3", "lost", "dead"}
    MaxFaults = 1
INVARIANTS
    ReusedSourcesAreStored
\* The runs and requests are finite: the model ends when they are done.
CHECK_DEADLOCK FALSE
