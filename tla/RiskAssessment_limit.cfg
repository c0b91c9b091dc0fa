CONSTANTS
    Taxpayers = {t1, t2}
    Jobs = {j1, j2, j3}
    ACTIVE = ACTIVE
    Statuses = {ACTIVE, SUSPENDED}
    NoEvidence = e0
    Evidence = {e0}
    Skewed = {}
    Verdict <- MCVerdict
    HighRisk = 60
    Limit = 1
    SellerLimit = 1
    MaxBeats = 1
    MaxWorkerCrashes = 0
    MaxApiCrashes = 0
    MaxFailures = 0
SPECIFICATION Spec
CHECK_DEADLOCK FALSE
SYMMETRY JobSymmetry
INVARIANT AllHighRiskSent
