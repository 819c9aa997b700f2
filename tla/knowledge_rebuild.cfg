SPECIFICATION Spec
CONSTANTS
    s1 = s1
    s2 = s2
    a = a
    b = b
    c = c
    Sources = {s1, s2}
    Keys = {a, b, c}
    Keyed <- TwoKeyed
    Related <- TwoRelated
    Similar <- Chain
    MaxGeneration = 3
    MaxResets = 1
    MaxEntities = 5
    MaxFailures = 1
    MaxRuns = 4
    MaxLength = 1
    TokenLimits = {1, 2, 3}
    MaxBacklog = 0
INVARIANTS
    RebuildReprocesses
\* The runs and requests are finite: the model ends when they are done.
CHECK_DEADLOCK FALSE
