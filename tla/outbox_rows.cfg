SPECIFICATION FairSpec
CONSTANTS
    k = k  m = m  c1 = c1  c2 = c2  d1 = d1  p1 = p1  p2 = p2  ds = ds
    Elements = {k, m}
    Kind <- KindOf
    Endpoints <- Joined
    DatasetOf <- OneDataset
    NumRows = 4
    Command <- ForgottenAndMerged
    Commits = {2, 3, 4}
    Consumers = {c2}
    Drains = {d1}
    ProcessOf <- Home
    MaxAttempts = 2
    Faults = {"outage", "stall", "disconnect", "crash"}
    MaxFaults = 2
PROPERTIES
    DeletesComeLast
    OnlyZombiesResurrect
    DrainsConverge
    BacklogSettles
\* The rows are finite: the outbox may be empty for good.
CHECK_DEADLOCK FALSE
