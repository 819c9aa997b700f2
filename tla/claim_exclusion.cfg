SPECIFICATION Spec
CONSTANTS
    r1 = r1  r2 = r2  r3 = r3  r4 = r4  d1 = d1  d2 = d2  c1 = c1  c2 = c2
    Global = Global
    NoRun = NoRun
    Runs = {r1, r2, r3}
    DatasetOf <- SharedAndGlobal
    Destructive = {r3}
    MaxAttempts = 2
    Backlog = {r1, r3}
    InitialOrder <- ByName
    MaxInserting = 2
    Claimers = {c1, c2}
    ScanLimit = 2
    InitialPolicy = "none"
    Faults = {"retry", "cancel", "loss"}
INVARIANTS
    OneOwnerPerScope
PROPERTIES
    ClaimsAreAtomic
    OvertakesOnlyInFlight
    ConvergingFinishesDeletions
SYMMETRY ClaimerSymmetry
\* Every process may be lost: the queue may stop.
CHECK_DEADLOCK FALSE
