CONSTANTS
    Alerts = {a1}
    Cases = {c1, c2}
    Jobs = {j1, j2, j3}
    NONE = NONE
    OPEN = OPEN
    ESCALATED = ESCALATED
    Statuses = {OPEN, ESCALATED, RESOLVED, CONFIRMED_FRAUD}
    Final = {RESOLVED, CONFIRMED_FRAUD}
    Users = {alice}
    NOBODY = NOBODY
    CASE_OPEN = CASE_OPEN
    CaseStatuses = {CASE_OPEN, CLOSED_FRAUD}
    CaseFinal = {CLOSED_FRAUD}
    Edits <- MCEdits
    MaxFailures = 1
SPECIFICATION Spec
CHECK_DEADLOCK FALSE
SYMMETRY JobSymmetry
INVARIANT TypeOK
INVARIANT VerdictStamped
INVARIANT AssigneeStamped
INVARIANT VerdictHasItsStamp
INVARIANT EscalationAtomic
INVARIANT LinksCommitted
PROPERTY EscalationTakesEffect
PROPERTY AssigneeByRequest
