---------------------------- MODULE AlertWorkflow ----------------------------
(***************************************************************************)
(* What analysts do to alerts and cases: the PATCH of an alert, its        *)
(* escalation to a new case, the creation and the PATCH of a case.         *)
(*                                                                         *)
(* Every request is a SQLAlchemy session of its own on a READ COMMITTED    *)
(* database.  The handler reads the row, assigns to the object, and get_db *)
(* commits the columns whose value differs from the value READ: requests   *)
(* on one row merge column by column.  There is no lock and no check of    *)
(* the status an alert is in.                                              *)
(*                                                                         *)
(* A time stamp is the job that took it: the code only asks whether there  *)
(* is one, and the properties ask whose it is.                             *)
(***************************************************************************)
EXTENDS Naturals, FiniteSets

CONSTANTS
    Alerts,        \* alerts the engine has inserted
    Cases,         \* ids a new case may get (uuid4)
    Jobs,          \* one-shot request ids
    NONE,          \* NULL in a column, a field not given in a payload
    Statuses,      \* models/alert.py AlertStatus
    OPEN, ESCALATED,
    Final,         \* RESOLVED, FALSE_POSITIVE, CONFIRMED_FRAUD
    Users,         \* names of analysts
    NOBODY,        \* the empty name: it unassigns an alert
    CaseStatuses,  \* models/case.py CaseStatus
    CASE_OPEN,
    CaseFinal,     \* CLOSED_FRAUD, CLOSED_NO_FRAUD, CLOSED_INSUFFICIENT
    Edits,         \* the payloads of PATCH /alerts that clients send
    MaxFailures    \* bound: requests that end with an exception

\* schemas/alert.py AlertUpdate; resolution_notes is written like case_id
\* and no property is about it.
AlertUpdate == [status : Statuses \cup {NONE},
                assigned_to : Users \cup {NOBODY, NONE},
                case_id : Cases \cup {NONE}]

ASSUME AlertsAssumption == Alerts # {} /\ Cases # {}
ASSUME StatusAssumption ==
    /\ {OPEN, ESCALATED} \subseteq Statuses \ Final
    /\ Final \subseteq Statuses
    /\ CASE_OPEN \in CaseStatuses \ CaseFinal
    /\ CaseFinal \subseteq CaseStatuses
ASSUME NoneAssumption ==
    NONE \notin Statuses \cup Users \cup {NOBODY} \cup Cases \cup CaseStatuses \cup Jobs
ASSUME NobodyAssumption == NOBODY \notin Users
ASSUME EditsAssumption == Edits \subseteq AlertUpdate
ASSUME FailureAssumption == MaxFailures \in Nat

VARIABLES
    alert,      \* the rows of alerts
    cases,      \* the ids of the rows of cases
    case,       \* ... and those rows
    job,        \* every request: what it read and what it is asked
    failures,   \* how many have failed
    overlapped  \* history: two requests held an alert at once

vars == <<alert, cases, case, job, failures, overlapped>>

-----------------------------------------------------------------------------
(* Types and the initial state.                                            *)

Stamp == Jobs \cup {NONE}

AlertRow == [status : Statuses, assigned_to : Users \cup {NOBODY, NONE},
             assigned_at : Stamp, resolved_at : Stamp, case_id : Cases \cup {NONE}]
CaseRow  == [status : CaseStatuses, closed_at : Stamp]

\* "patch" and "escalate" are about `alert`, "case" is about `case`.  `row`
\* and `caseRow` are what was read, `edit` and `to` what is asked; `case` of
\* an escalation is the id of the case it makes.
Job == [kind : {"none", "patch", "escalate", "case"},
        stage : {"free", "loaded", "flushed", "done", "failed"},
        alert : Alerts, row : AlertRow, edit : AlertUpdate,
        case : Cases \cup {NONE}, caseRow : CaseRow, to : CaseStatuses]

TypeOK ==
    /\ alert \in [Alerts -> AlertRow]
    /\ cases \subseteq Cases
    /\ case \in [Cases -> CaseRow]
    /\ job \in [Jobs -> Job]
    /\ \A j \in Jobs : job[j].stage = "flushed" => job[j].case # NONE
    /\ failures \in Nat
    /\ overlapped \in [Alerts -> BOOLEAN]

NewAlert == [status |-> OPEN, assigned_to |-> NONE, assigned_at |-> NONE,
             resolved_at |-> NONE, case_id |-> NONE]
NewCase  == [status |-> CASE_OPEN, closed_at |-> NONE]
NoEdit   == [status |-> NONE, assigned_to |-> NONE, case_id |-> NONE]
Unused   == [kind |-> "none", stage |-> "free", alert |-> CHOOSE a \in Alerts : TRUE,
             row |-> NewAlert, edit |-> NoEdit,
             case |-> NONE, caseRow |-> NewCase, to |-> CASE_OPEN]

Init ==
    /\ alert = [a \in Alerts |-> NewAlert]
    /\ cases = {}
    /\ case = [c \in Cases |-> NewCase]
    /\ job = [j \in Jobs |-> Unused]
    /\ failures = 0
    /\ overlapped = [a \in Alerts |-> FALSE]

-----------------------------------------------------------------------------
(* Sessions.                                                               *)

InFlight(j) == job[j].stage \in {"loaded", "flushed"}

\* Request j has read the row of alert a and may still write it.
Holds(j, a) == InFlight(j) /\ job[j].kind # "case" /\ job[j].alert = a

\* A SELECT of the alert by request j, whose session is a new one.
ReadAlert(j, kind, a, edit) ==
    /\ job[j].stage = "free"
    /\ job' = [job EXCEPT ![j] = [Unused EXCEPT !.kind = kind, !.stage = "loaded",
                                  !.alert = a, !.row = alert[a], !.edit = edit]]
    /\ overlapped' = [overlapped EXCEPT ![a] = @ \/ \E k \in Jobs \ {j} : Holds(k, a)]
    /\ UNCHANGED <<alert, cases, case, failures>>

Reach(j, stage) == job' = [job EXCEPT ![j].stage = stage]

\* The value of a column after the commit of a session that read `old` and
\* assigned `new`: the unit of work leaves a column alone if they are equal.
Written(current, old, new) == IF new = old THEN current ELSE new

\* The row of alert a after the commit of request j, which made `new` of the
\* row it read.
\* (Mutant: every column is written.)
Overwrite(a, old, new) == alert' = [alert EXCEPT ![a] = new]
Merge(a, old, new) ==
    alert' = [alert EXCEPT ![a] =
        [status      |-> Written(@.status, old.status, new.status),
         assigned_to |-> Written(@.assigned_to, old.assigned_to, new.assigned_to),
         assigned_at |-> Written(@.assigned_at, old.assigned_at, new.assigned_at),
         resolved_at |-> Written(@.resolved_at, old.resolved_at, new.resolved_at),
         case_id     |-> Written(@.case_id, old.case_id, new.case_id)]]

-----------------------------------------------------------------------------
(* PATCH /alerts/{id}.                                                     *)

\* A field that was not given leaves the attribute alone; none can be set
\* to NULL.
\* (Mutant: the dump of the payload does not exclude it.)
GivenOrNull(field, old) == field
Given(field, old) == IF field = NONE THEN old ELSE field

\* Every verdict is stamped, one that replaces another too; the stamp stays
\* when the alert is reopened.
\* (Mutants: the status tested is the one read, not the one asked for; only
\* the first verdict is stamped.)
LateResolvedAt(j) == IF job[j].row.status \in Final THEN j ELSE job[j].row.resolved_at
FirstResolvedAt(j) ==
    IF job[j].edit.status \in Final /\ job[j].row.resolved_at = NONE
    THEN j ELSE job[j].row.resolved_at
ResolvedAt(j) == IF job[j].edit.status \in Final THEN j ELSE job[j].row.resolved_at

\* A name that is not empty is stamped if the alert read had no stamp.
\* (Mutant: if it was not assigned.)
AssignedAtUnassigned(j) ==
    IF job[j].edit.assigned_to \in Users /\ job[j].row.assigned_to = NONE
    THEN j ELSE job[j].row.assigned_at
AssignedAt(j) ==
    IF job[j].edit.assigned_to \in Users /\ job[j].row.assigned_at = NONE
    THEN j ELSE job[j].row.assigned_at

\* What the handler makes of the alert it read.
Edited(j) ==
    LET old == job[j].row  edit == job[j].edit IN
    [status      |-> Given(edit.status, old.status),
     assigned_to |-> Given(edit.assigned_to, old.assigned_to),
     assigned_at |-> AssignedAt(j),
     resolved_at |-> ResolvedAt(j),
     case_id     |-> Given(edit.case_id, old.case_id)]

UpdateAlert(j, a, edit) == ReadAlert(j, "patch", a, edit)

\* The foreign key alerts.case_id -> cases.id, of the rows committed.
\* (Mutant: the column has no foreign key.)
AnyId(c) == c \in Cases \cup {NONE}
Refers(c) == c \in cases \cup {NONE}

CommitUpdate(j) ==
    /\ job[j].kind = "patch" /\ job[j].stage = "loaded"
    /\ Refers(job[j].edit.case_id)
    /\ Merge(job[j].alert, job[j].row, Edited(j))
    /\ Reach(j, "done")
    /\ UNCHANGED <<cases, case, failures, overlapped>>

\* The commit violates the foreign key and is rolled back.
RejectUpdate(j) ==
    /\ job[j].kind = "patch" /\ job[j].stage = "loaded"
    /\ ~Refers(job[j].edit.case_id)
    /\ Reach(j, "failed")
    /\ UNCHANGED <<alert, cases, case, failures, overlapped>>

-----------------------------------------------------------------------------
(* POST /alerts/{id}/escalate.                                             *)

EscalateAlert(j, a) == ReadAlert(j, "escalate", a, NoEdit)

\* A uuid4: nobody has used it, and no client has guessed it.
NewId(c) ==
    c \notin cases /\ \A k \in Jobs : c \notin {job[k].case, job[k].edit.case_id}

\* The case is inserted inside the transaction: nobody else sees it.
\* (Mutant: in a transaction of its own.)
InsertAtOnce(c) == cases' = cases \cup {c}
InsertUnseen(c) == UNCHANGED cases

FlushCase(j, c) ==
    /\ job[j].kind = "escalate" /\ job[j].stage = "loaded"
    /\ NewId(c)
    /\ InsertUnseen(c)
    /\ job' = [job EXCEPT ![j].stage = "flushed", ![j].case = c]
    /\ UNCHANGED <<alert, case, failures, overlapped>>

\* What the handler makes of the alert it read.
\* (Mutant: the alert keeps a case it already has.)
FirstCase(j) ==
    [job[j].row EXCEPT !.status = ESCALATED,
                       !.case_id = IF @ = NONE THEN job[j].case ELSE @]
Escalated(j) == [job[j].row EXCEPT !.status = ESCALATED, !.case_id = job[j].case]

CommitEscalation(j) ==
    /\ job[j].kind = "escalate" /\ job[j].stage = "flushed"
    /\ cases' = cases \cup {job[j].case}
    /\ Merge(job[j].alert, job[j].row, Escalated(j))
    /\ Reach(j, "done")
    /\ UNCHANGED <<case, failures, overlapped>>

-----------------------------------------------------------------------------
(* Cases.                                                                  *)

\* POST /cases: a case of no alert.
CreateCase(c) ==
    /\ NewId(c)
    /\ cases' = cases \cup {c}
    /\ UNCHANGED <<alert, case, job, failures, overlapped>>

\* PATCH /cases/{id} with a status reads the row; without one it writes
\* columns that are not modelled.
UpdateCase(j, c, to) ==
    /\ job[j].stage = "free"
    /\ c \in cases
    /\ job' = [job EXCEPT ![j] = [Unused EXCEPT !.kind = "case", !.stage = "loaded",
                                  !.case = c, !.caseRow = case[c], !.to = to]]
    /\ UNCHANGED <<alert, cases, case, failures, overlapped>>

\* As with alerts, the stamp stays when the case is reopened.
ClosedAt(j) == IF job[j].to \in CaseFinal THEN j ELSE job[j].caseRow.closed_at

CommitCase(j) ==
    LET old == job[j].caseRow IN
    /\ job[j].kind = "case" /\ job[j].stage = "loaded"
    /\ case' = [case EXCEPT ![job[j].case] =
          [status    |-> Written(@.status, old.status, job[j].to),
           closed_at |-> Written(@.closed_at, old.closed_at, ClosedAt(j))]]
    /\ Reach(j, "done")
    /\ UNCHANGED <<alert, cases, failures, overlapped>>

\* An exception, or the loss of the API process, rolls a session back.
Fail(j) ==
    /\ failures < MaxFailures
    /\ InFlight(j)
    /\ failures' = failures + 1
    /\ Reach(j, "failed")
    /\ UNCHANGED <<alert, cases, case, overlapped>>

-----------------------------------------------------------------------------
(* The specification.                                                      *)

Request(j) ==
    \/ \E a \in Alerts, edit \in Edits : UpdateAlert(j, a, edit)
    \/ \E a \in Alerts : EscalateAlert(j, a)
    \/ \E c \in Cases, to \in CaseStatuses : UpdateCase(j, c, to)

Progress(j) ==
    \/ CommitUpdate(j) \/ RejectUpdate(j)
    \/ \E c \in Cases : FlushCase(j, c)
    \/ CommitEscalation(j) \/ CommitCase(j)

Next ==
    \/ \E j \in Jobs : Request(j) \/ Progress(j) \/ Fail(j)
    \/ \E c \in Cases : CreateCase(c)

Spec == Init /\ [][Next]_vars

-----------------------------------------------------------------------------
(* Properties.                                                             *)

\* However PATCHes and escalations overlap, an alert that has a verdict has
\* a resolved_at, and a closed case a closed_at: the status of one request
\* never lands without its stamp, and no request clears a stamp that another
\* has set.
VerdictStamped ==
    /\ \A a \in Alerts : alert[a].status \in Final => alert[a].resolved_at # NONE
    /\ \A c \in cases : case[c].status \in CaseFinal => case[c].closed_at # NONE

\* An alert assigned to somebody has an assigned_at, though a request writes
\* it only if it has read none: the stamp it relied on is still there.
AssigneeStamped ==
    \A a \in Alerts : alert[a].assigned_to \in Users => alert[a].assigned_at # NONE

\* While requests on an alert do not overlap, its resolved_at is that of a
\* request that asked for the verdict the alert has.
VerdictHasItsStamp ==
    \A a \in Alerts :
        (~overlapped[a] /\ alert[a].status \in Final) =>
            job[alert[a].resolved_at].edit.status = alert[a].status

\* The case and the link to it commit together: the case of an escalation is
\* there if the escalation succeeded and only then, whatever fails.
EscalationAtomic ==
    \A j \in Jobs : (job[j].kind = "escalate" /\ job[j].case # NONE) =>
        (job[j].case \in cases <=> job[j].stage = "done")

\* No alert points to a case that is not there.
LinksCommitted == \A a \in Alerts : alert[a].case_id \in cases \cup {NONE}

\* An escalation that succeeds leaves the alert with the new case, whatever
\* else happens to the alert; and leaves it ESCALATED unless another request
\* held the alert meanwhile (the handler's status may equal the one it read,
\* and is then not written over the other's).
EscalationTakesEffect ==
    [][\A j \in Jobs :
         (job[j].kind = "escalate" /\ job[j].stage # "done" /\ job'[j].stage = "done") =>
           LET a == job[j].alert IN
           /\ alert'[a].case_id = job[j].case
           /\ overlapped[a] \/ alert'[a].status = ESCALATED]_vars

\* No request puts back a column it did not ask about: an alert is unassigned
\* or assigned to somebody else only by a PATCH that names the assignee.
AssigneeByRequest ==
    [][\A a \in Alerts : alert'[a].assigned_to # alert[a].assigned_to =>
         \E j \in Jobs : /\ job[j].alert = a /\ job[j].stage = "loaded"
                        /\ job'[j].stage = "done"
                        /\ job[j].edit.assigned_to = alert'[a].assigned_to]_vars

\* models/case.py:2 "a formal investigation case grouping one or more
\* alerts": the case that an escalation makes keeps an alert, if nobody moves
\* the alert by a PATCH.
CaseKeepsAlert ==
    \A j \in Jobs : (job[j].kind = "escalate" /\ job[j].stage = "done") =>
        \E a \in Alerts : alert[a].case_id = job[j].case
=============================================================================
