SPECIFICATION FairSpec
CONSTANTS
    b1 = b1
    b2 = b2
    k1 = k1
    k2 = k2
    k3 = k3
    s1 = s1
    s2 = s2
    NoRequest = NoRequest
    Workers = {w1, w2}
    RunIds <- MCThreeRunIds
    Requests <- MCOneBankRequests
    StaleAfter = 1
    MaxCrashes = 1
PROPERTY FailedIsFinal
