SPECIFICATION FairSpec
CONSTANTS
    t1 = t1
    t2 = t2
    Tins = {t1, t2}
    Columns = {"vat_number", "name", "turnover"}
    Values = {"A", "B", "a", "b", "c", "p", "0", "1"}
    Falsy = {"0"}
    NONE = NONE
    Records <- MCRecords
    Existing = {t1}
    Payloads <- MCPayloads
    MaxJobs = 3
    MaxCrashes = 1
    MaxFailures = 1
INVARIANTS
    TypeOK
    RegisteredOnce
    SerialAlone
PROPERTIES
    SyncAllOrNothing
    TaskSyncEnds
CHECK_DEADLOCK FALSE
