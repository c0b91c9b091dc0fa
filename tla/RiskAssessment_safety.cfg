CONSTANTS
    Taxpayers = {t1}
    Jobs = {j1, j2, j3}
    ACTIVE = ACTIVE
    Statuses = {ACTIVE, SUSPENDED}
    NoEvidence = e0
    Evidence = {e0, e1}
    Skewed = {e1}
    Verdict <- MCVerdict
    HighRisk = 60
    Limit = 1
    SellerLimit = 1
    MaxBeats = 1
    MaxWorkerCrashes = 1
    MaxApiCrashes = 1
    MaxFailures = 1
SPECIFICATION Spec
CHECK_DEADLOCK FALSE
SYMMETRY JobSymmetry
INVARIANT TypeOK
INVARIANT NeverOverCounted
INVARIANT ReadTotalsBacked
INVARIANT AlertsConserved
INVARIANT CounterExactAlone
INVARIANT ScoreFollowsStatus
PROPERTY StatusOnlyByRequest
INVARIANT AllHighRiskSent
