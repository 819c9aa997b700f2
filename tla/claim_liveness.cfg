SPECIFICATION PollSpec
CONSTANTS
    r1 = r1  r2 = r2  r3 = r3  r4 = r4  d1 = d1  d2 = d2  c1 = c1  c2 = c2
    Global = Global
    NoRun = NoRun
    Runs = {r1, r2, r3, r4}
    DatasetOf <- SharedApartAndGlobal
    Destructive = {}
    MaxAttempts = 2
    Backlog = {}
    InitialOrder <- FourByName
    MaxInserting = 1
    Claimers = {c1}
    ScanLimit = 1
    InitialPolicy = "normal"
    Faults = {"retry"}
PROPERTIES
    FreeScopesProgress
    GlobalRunsNotStarved
