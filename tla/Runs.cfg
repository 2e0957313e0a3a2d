SPECIFICATION FairSpec
CONSTANTS
    b1 = b1
    b2 = b2
    k1 = k1
    k2 = k2
    k3 = k3
    s1 = s1
    s2 = s2
    NoRequest = NoRequest
    Workers = {w1, w2}
    RunIds <- MCRunIds
    Requests <- MCRequests
    StaleAfter = 1
    MaxCrashes = 2
INVARIANT TypeOK
INVARIANT OneRunningPerBank
INVARIANT WorkIffCompleted
INVARIANT OneExecutor
INVARIANT OneRunPerKey
INVARIANT AuditAgreesUnlessSwept
PROPERTY CompletedIsFinal
PROPERTY RefusedOnlyWhenBusy
PROPERTY RunsSettle
