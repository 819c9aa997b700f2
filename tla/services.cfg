SPECIFICATION Spec
CONSTANTS
    p1 = p1  p2 = p2  p3 = p3
    c1 = c1  c2 = c2
    a = a  b = b  c = c
    k = k  t = t  u = u
    Null = Null
    Requests = {p1, p2, p3}
    Keys = {k}
    Texts = {t, u}
    MaxRequests <- Bounds
    MaxFailures = 1
    Chunks = {c1, c2}
    Entities = {a, b, c}
    Mentions <- Chain
    Relations <- Links
SYMMETRY Symmetry
INVARIANTS
    KeysDecide
    LineagesAreSound
    ServedIsLive
PROPERTIES
    ArchiveFreezes
    RevisionsAreHistory
\* The runs and requests are finite: the model ends when they are done.
CHECK_DEADLOCK FALSE
