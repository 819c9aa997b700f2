SPECIFICATION Spec
CONSTANTS
    k = k  a = a  b = b  p1 = p1  p2 = p2  p3 = p3
    None = None
    Requests = {p1, p2, p3}
    Keys = {k}
    Works = {a, b}
    Asks <- Mixed
    Faults = {"crash", "commit", "read", "outage", "archive"}
    MaxFaults = 1
    MaxInFlight = 2
INVARIANTS
    BytesFollowRuns
    RequestsNeverDeadlock
PROPERTIES
    KeysAreKept
    OnlyLateRequestsSlipIn
SYMMETRY RequestSymmetry
\* The runs and requests are finite: the model ends when they are done.
CHECK_DEADLOCK FALSE
