SPECIFICATION FairSpec
CONSTANTS
    i1 = i1
    i2 = i2
    Invoices = {i1, i2}
    Contents <- MCContents
    Keys = {"k1", "k2"}
    Amounts = {1000}
    Registered = {"S", "B1", "B2"}
    NONE = NONE
    Edits <- MCEdits
    Sessions = {s1}
    Workers = {w1, w2}
    Limit = 1
    MaxRequests = 2
    MaxCrashes = 1
INVARIANTS
    TypeOK
    ScanAlertsOnce
    IntakeAccounted
    
PROPERTIES
    SuspicionOnlyWithdrawnByMatch
    ScanDrains
