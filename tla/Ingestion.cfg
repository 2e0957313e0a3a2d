SPECIFICATION IngestSpec
CONSTANTS
    Uploads <- MCUploads
    Contents <- MCContents
    Verifiers = {v1, v2}
    Sweeps = {v2}
    MaxDamage = 1
INVARIANTS
    ContentOnce
    BytesAgree
    FindingsAlerted
PROPERTY
    RequestsEnd
CHECK_DEADLOCK FALSE
