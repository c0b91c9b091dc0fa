CONSTANTS
    Alerts = {a1}
    Cases = {c1, c2}
    Jobs = {j1, j2}
    NONE = NONE
    OPEN = OPEN
    ESCALATED = ESCALATED
    Statuses = {OPEN, ESCALATED, RESOLVED, CONFIRMED_FRAUD}
    Final = {RESOLVED, CONFIRMED_FRAUD}
    Users = {alice}
    NOBODY = NOBODY
    CASE_OPEN = CASE_OPEN
    CaseStatuses = {CASE_OPEN, CLOSED_FRAUD}
    CaseFinal = {CLOSED_FRAUD}
    Edits = {}
    MaxFailures = 0
SPECIFICATION Spec
CHECK_DEADLOCK FALSE
SYMMETRY JobSymmetry
INVARIANT CaseKeepsAlert
