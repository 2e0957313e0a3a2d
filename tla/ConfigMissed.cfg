SPECIFICATION PartsFairSpec
CONSTANTS
    Parts = {"configs"}
    Procs = {p1}
    Banks <- MCBanks
    Versions = {"a", "b"}
    FirstVersion = "a"
    MaxEdits = 2
    MaxSyncs = 0
    Users = {"ann", "bob"}
    ApiKeys = {"k1", "k2"}
    Admins = {a1, a2}
    Holidays = {3, 4}
    RateUnit = 1
    MaxStaleDays = 2
    Alike <- MCAlike
    AmountTolerance = 1
    DateOffsetDays = 1
    BucketWidth = 100
    WindowDays = 4
    MaxCandidates = 2
    FxTolerance = 150
    SettlementDays = 1
    Fee <- MCFee
    StaleAfterDays = 4
    HighValue = 9000
    HighDay = 200
    Systemic = 5
    MaxStates = 12
    SearchInputs <- MCSearchInputs
    Documents <- MCDocuments
    DefaultCurrency = "INR"
    Ledgers <- MCAllLedgers
    FirstRates <- MCFirstRates
    RateFiles <- MCNoFiles
    Modes = {"FULL"}
    FirstDay = 5
    MaxRuns = 1
    MaxMembers = 3
    MaxSearch = 3
PROPERTY
    EditsGoLive
CHECK_DEADLOCK FALSE
