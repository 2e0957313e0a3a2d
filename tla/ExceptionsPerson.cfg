SPECIFICATION Spec
CONSTANTS
    k1 = k1
    f1 = f1
    s1 = s1
    s2 = s2
    p = p
    None = None
    RunKeys = {k1}
    FileKeys = {f1}
    Sessions = {s1, s2}
    People = {p}
    Assignees = {p}
    MaxTxns = 4
CHECK_DEADLOCK FALSE
PROPERTY PersonKept
