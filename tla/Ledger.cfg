SPECIFICATION Spec
CONSTANTS
    i1 = i1
    i2 = i2
    e1 = e1
    e2 = e2
    r1 = r1
    r2 = r2
    Internals = {i1, i2}
    Externals = {e1, e2}
    Duplicates = {i2}
    Runs = {r1, r2}
    Stages <- MCStages
    ResultIds <- MCTwo
INVARIANT TypeOK
INVARIANT LiveHoldsClaims
INVARIANT NoOrphanClaim
INVARIANT NoDoubleMatch
INVARIANT StatusTellsMatch
PROPERTY DecidedOnce
PROPERTY ImplementsBook
