CONSTANTS
    Taxpayers = {t1}
    Jobs = {j1}
    ACTIVE = ACTIVE
    Statuses = {ACTIVE, SUSPENDED}
    NoEvidence = e0
    Evidence = {e0}
    Skewed = {}
    Verdict <- MCVerdict
    HighRisk = 60
    Limit = 1
    SellerLimit = 1
    MaxBeats = 0
    MaxWorkerCrashes = 0
    MaxApiCrashes = 1
    MaxFailures = 0
SPECIFICATION FairSpec
CHECK_DEADLOCK FALSE
PROPERTY WebhookReassessed
