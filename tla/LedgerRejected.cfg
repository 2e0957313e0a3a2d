SPECIFICATION Spec
CONSTANTS
    i1 = i1
    i2 = i2
    e1 = e1
    e2 = e2
    r1 = r1
    r2 = r2
    Internals = {i1}
    Externals = {e1}
    Duplicates = {i1}
    Runs = {r1}
    Stages <- FastStages
    ResultIds <- MCResultIds
INVARIANT RejectedNeverRematched
