CONSTANTS
    Taxpayers = {t1}
    Jobs = {j1, j2}
    ACTIVE = ACTIVE
    Statuses = {ACTIVE, SUSPENDED}
    NoEvidence = e0
    Evidence = {e0}
    Skewed = {e0}
    Verdict <- MCVerdict
    HighRisk = 60
    Limit = 2
    SellerLimit = 1
    MaxBeats = 1
    MaxWorkerCrashes = 2
    MaxApiCrashes = 0
    MaxFailures = 0
SPECIFICATION FairSpec
CHECK_DEADLOCK FALSE
PROPERTY QueuedTaskCompletes
PROPERTY WebhookReassessed
PROPERTY ImplementsService
