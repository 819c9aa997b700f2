SPECIFICATION Spec
CONSTANTS
    r1 = r1  r2 = r2  r3 = r3  d1 = d1  w1 = w1  w2 = w2  w3 = w3
    Global = Global
    NoWorker = NoWorker
    Runs = {r1}
    NumSteps = 2
    Workers = {w1, w2, w3}
    MaxAttempts = 3
    MaxConcurrent = 1
    DatasetOf <- OneDataset
    LegacyRuns = {}
    AtomicSteps = {1}
    RecoveryLimit = 1
    Faults = {"crash", "shutdown", "stall", "engine", "drift", "reconfigure", "recovery"}
INVARIANTS
    StepsInOrder
    NoOrphanStep
    EffectsOnce
PROPERTIES
    CancelIntentKept
SYMMETRY WorkerSymmetry
\* Every worker id may be used up: the system may stop.
CHECK_DEADLOCK FALSE
