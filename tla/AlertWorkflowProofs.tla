------------------------- MODULE AlertWorkflowProofs -------------------------
(***************************************************************************)
(* What AlertWorkflow guarantees for any alerts, cases, users, payloads    *)
(* and requests in flight at once.                                         *)
(*                                                                         *)
(* VerdictStamped and AssigneeStamped relate columns that a commit writes  *)
(* or leaves one by one, by comparison with a row that was read some time  *)
(* ago.  They are inductive together with what each request may rely on:   *)
(* its own stamp is not in the row it read, so that it is written, and a   *)
(* stamp that is in the row it read is still in the table.                 *)
(***************************************************************************)
EXTENDS AlertWorkflow, TLAPS

-----------------------------------------------------------------------------
(* Type correctness.                                                       *)

LEMMA UnusedType ==
    /\ Unused \in Job /\ NewAlert \in AlertRow /\ NewCase \in CaseRow
    /\ Unused.stage = "free" /\ Unused.case = NONE
<1>1. (CHOOSE a \in Alerts : TRUE) \in Alerts
  BY AlertsAssumption
<1>2. NewAlert \in AlertRow /\ NewCase \in CaseRow /\ NoEdit \in AlertUpdate
  BY StatusAssumption DEF NewAlert, NewCase, NoEdit, AlertRow, CaseRow, AlertUpdate, Stamp
<1> QED  BY <1>1, <1>2, StatusAssumption DEF Unused, Job

LEMMA ReadAlertType ==
    ASSUME TypeOK, NEW j \in Jobs, NEW a \in Alerts, NEW edit \in AlertUpdate,
           NEW kind \in {"patch", "escalate"}, ReadAlert(j, kind, a, edit)
    PROVE  TypeOK'
<1>1. [Unused EXCEPT !.kind = kind, !.stage = "loaded", !.alert = a,
                     !.row = alert[a], !.edit = edit] \in Job
  BY UnusedType DEF TypeOK, Job
<1>2. /\ job' \in [Jobs -> Job]
      /\ \A k \in Jobs : job'[k].stage = "flushed" => job'[k].case # NONE
  BY <1>1 DEF TypeOK, ReadAlert, Unused
<1>3. overlapped' \in [Alerts -> BOOLEAN]
  BY DEF TypeOK, ReadAlert
<1> QED  BY <1>2, <1>3 DEF TypeOK, ReadAlert

LEMMA ReachType ==
    ASSUME TypeOK, NEW j \in Jobs, NEW stage \in {"done", "failed"}, Reach(j, stage)
    PROVE  /\ job' \in [Jobs -> Job]
           /\ \A k \in Jobs : job'[k].stage = "flushed" => job'[k].case # NONE
BY DEF TypeOK, Reach, Job

\* A commit merges rows of the table's type.
LEMMA MergeType ==
    ASSUME TypeOK, NEW a \in Alerts, NEW old \in AlertRow, NEW new \in AlertRow,
           Merge(a, old, new)
    PROVE  alert' \in [Alerts -> AlertRow]
<1>1. alert[a] \in AlertRow
  BY DEF TypeOK
<1>2. [status      |-> Written(alert[a].status, old.status, new.status),
       assigned_to |-> Written(alert[a].assigned_to, old.assigned_to, new.assigned_to),
       assigned_at |-> Written(alert[a].assigned_at, old.assigned_at, new.assigned_at),
       resolved_at |-> Written(alert[a].resolved_at, old.resolved_at, new.resolved_at),
       case_id     |-> Written(alert[a].case_id, old.case_id, new.case_id)] \in AlertRow
  BY <1>1 DEF AlertRow, Written
<1> QED  BY <1>2 DEF TypeOK, Merge

\* What a handler makes of the row it read is a row.
LEMMA HandlerType ==
    ASSUME TypeOK, NEW j \in Jobs
    PROVE  /\ job[j] \in Job /\ job[j].row \in AlertRow
           /\ Edited(j) \in AlertRow
           /\ Escalated(j) \in AlertRow
           /\ ClosedAt(j) \in Stamp
<1>1. job[j] \in Job /\ job[j].row \in AlertRow /\ job[j].edit \in AlertUpdate
      /\ job[j].caseRow \in CaseRow
  BY DEF TypeOK, Job
<1>2. AssignedAt(j) \in Stamp /\ ResolvedAt(j) \in Stamp
  BY <1>1 DEF AssignedAt, ResolvedAt, Stamp, AlertRow
<1>3. Edited(j) \in AlertRow
  BY <1>1, <1>2 DEF Edited, Given, AlertRow, AlertUpdate
<1>4. Escalated(j) \in AlertRow
  BY <1>1, StatusAssumption DEF Escalated, AlertRow, Job
<1>5. ClosedAt(j) \in Stamp
  BY <1>1 DEF ClosedAt, Stamp, CaseRow
<1> QED  BY <1>1, <1>3, <1>4, <1>5

LEMMA InitType == Init => TypeOK
BY UnusedType DEF Init, TypeOK

LEMMA StepType == TypeOK /\ [Next]_vars => TypeOK'
<1> SUFFICES ASSUME TypeOK, [Next]_vars PROVE TypeOK'
  OBVIOUS
<1>1. ASSUME NEW j \in Jobs, Request(j)  PROVE TypeOK'
  <2>1. ASSUME NEW a \in Alerts, NEW edit \in Edits, UpdateAlert(j, a, edit)
        PROVE  TypeOK'
    BY <2>1, EditsAssumption, ReadAlertType DEF UpdateAlert
  <2>2. ASSUME NEW a \in Alerts, EscalateAlert(j, a)  PROVE TypeOK'
    <3>1. NoEdit \in AlertUpdate
      BY DEF NoEdit, AlertUpdate
    <3> QED  BY <2>2, <3>1, ReadAlertType DEF EscalateAlert
  <2>3. ASSUME NEW c \in Cases, NEW to \in CaseStatuses, UpdateCase(j, c, to)
        PROVE  TypeOK'
    <3>1. [Unused EXCEPT !.kind = "case", !.stage = "loaded", !.case = c,
                         !.caseRow = case[c], !.to = to] \in Job
      BY UnusedType DEF TypeOK, Job
    <3> QED  BY <2>3, <3>1 DEF UpdateCase, TypeOK, Unused
  <2> QED  BY <1>1, <2>1, <2>2, <2>3 DEF Request
<1>2. ASSUME NEW j \in Jobs, Progress(j)  PROVE TypeOK'
  <2>0. job[j].alert \in Alerts
    BY HandlerType DEF Job
  <2>1. CASE CommitUpdate(j)
    <3>1. alert' \in [Alerts -> AlertRow]
      BY <2>0, <2>1, HandlerType, MergeType DEF CommitUpdate
    <3> QED  BY <2>1, <3>1, ReachType DEF CommitUpdate, TypeOK
  <2>2. CASE RejectUpdate(j)
    BY <2>2, ReachType DEF RejectUpdate, TypeOK
  <2>3. ASSUME NEW c \in Cases, FlushCase(j, c)  PROVE TypeOK'
    <3> DEFINE flushed == [job[j] EXCEPT !.stage = "flushed", !.case = c]
    <3>1. flushed \in Job /\ flushed.case = c /\ c # NONE
      BY HandlerType, NoneAssumption DEF Job
    <3>2. job' = [job EXCEPT ![j] = flushed]
      BY <2>3 DEF FlushCase
    <3>3. /\ job' \in [Jobs -> Job]
          /\ \A k \in Jobs : job'[k].stage = "flushed" => job'[k].case # NONE
      BY <3>1, <3>2 DEF TypeOK
    <3> QED  BY <2>3, <3>3 DEF FlushCase, InsertUnseen, TypeOK
  <2>4. CASE CommitEscalation(j)
    <3>1. alert' \in [Alerts -> AlertRow]
      BY <2>0, <2>4, HandlerType, MergeType DEF CommitEscalation
    <3>2. job[j].case \in Cases
      BY <2>4, HandlerType DEF CommitEscalation, TypeOK, Job
    <3> QED  BY <2>4, <3>1, <3>2, ReachType DEF CommitEscalation, TypeOK
  <2>5. CASE CommitCase(j)
    <3> DEFINE old == job[j].caseRow
               new == [status    |-> Written(case[job[j].case].status, old.status, job[j].to),
                       closed_at |-> Written(case[job[j].case].closed_at, old.closed_at,
                                             ClosedAt(j))]
    <3>1. case' = [case EXCEPT ![job[j].case] = new]
      BY <2>5 DEF CommitCase
    <3>2. ASSUME job[j].case \in Cases  PROVE new \in CaseRow
      BY <3>2, HandlerType DEF Written, CaseRow, TypeOK, Job
    <3>3. case' \in [Cases -> CaseRow]
      BY <3>1, <3>2 DEF TypeOK
    <3> QED  BY <2>5, <3>3, ReachType DEF CommitCase, TypeOK
  <2> QED  BY <1>2, <2>1, <2>2, <2>3, <2>4, <2>5 DEF Progress
<1>3. ASSUME NEW j \in Jobs, Fail(j)  PROVE TypeOK'
  BY <1>3, ReachType DEF Fail, TypeOK
<1>4. ASSUME NEW c \in Cases, CreateCase(c)  PROVE TypeOK'
  BY <1>4 DEF CreateCase, TypeOK
<1>5. CASE UNCHANGED vars
  BY <1>5 DEF vars, TypeOK
<1> QED  BY <1>1, <1>2, <1>3, <1>4, <1>5 DEF Next
\* Every reachable state has the types TypeOK states.
THEOREM TypeCorrect == Spec => []TypeOK
BY InitType, StepType, PTL DEF Spec

-----------------------------------------------------------------------------
(* Links.                                                                  *)

\* The links a request has read are committed, and cases are never deleted.
Linked == /\ TypeOK
          /\ LinksCommitted
          /\ \A j \in Jobs : job[j].row.case_id \in cases \cup {NONE}

\* A commit leaves each column as it is or as the handler made it.
LEMMA MergeChoice ==
    ASSUME TypeOK, NEW a \in Alerts, NEW old \in AlertRow, NEW new \in AlertRow,
           Merge(a, old, new), NEW b \in Alerts
    PROVE  \/ alert'[b] = alert[b]
           \/ /\ b = a
              /\ alert'[a].status = Written(alert[a].status, old.status, new.status)
              /\ alert'[a].assigned_to
                   = Written(alert[a].assigned_to, old.assigned_to, new.assigned_to)
              /\ alert'[a].assigned_at
                   = Written(alert[a].assigned_at, old.assigned_at, new.assigned_at)
              /\ alert'[a].resolved_at
                   = Written(alert[a].resolved_at, old.resolved_at, new.resolved_at)
              /\ alert'[a].case_id = Written(alert[a].case_id, old.case_id, new.case_id)
BY DEF Merge, TypeOK

LEMMA InitLinked == Init => Linked
<1> SUFFICES ASSUME Init PROVE Linked
  OBVIOUS
<1>1. NewAlert.case_id = NONE /\ Unused.row = NewAlert
  BY DEF NewAlert, Unused
<1> QED  BY <1>1, InitType DEF Init, Linked, LinksCommitted

LEMMA StepLinked == Linked /\ [Next]_vars => Linked'
<1> SUFFICES ASSUME Linked, [Next]_vars PROVE Linked'
  OBVIOUS
<1> USE DEF Linked
<1>t. TypeOK'
  BY StepType
<1>u. Unused.row.case_id = NONE
  BY DEF Unused, NewAlert
<1>1. ASSUME NEW j \in Jobs, Request(j)  PROVE Linked'
  <2>1. ASSUME NEW kind, NEW a \in Alerts, NEW edit, ReadAlert(j, kind, a, edit)
        PROVE  Linked'
    <3>1. alert[a].case_id \in cases \cup {NONE}
      BY DEF LinksCommitted
    <3>2. \A k \in Jobs : job'[k].row.case_id \in cases \cup {NONE}
      BY <2>1, <3>1 DEF ReadAlert, TypeOK, Unused
    <3> QED  BY <2>1, <3>2, <1>t DEF ReadAlert, LinksCommitted
  <2>2. ASSUME NEW c \in Cases, NEW to \in CaseStatuses, UpdateCase(j, c, to)
        PROVE  Linked'
    <3>1. \A k \in Jobs : job'[k].row.case_id \in cases \cup {NONE}
      BY <2>2, <1>u DEF UpdateCase, TypeOK, Unused
    <3> QED  BY <2>2, <3>1, <1>t DEF UpdateCase, LinksCommitted
  <2> QED  BY <1>1, <2>1, <2>2 DEF Request, UpdateAlert, EscalateAlert
<1>2. ASSUME NEW j \in Jobs, Progress(j)  PROVE Linked'
  <2>0. job[j].alert \in Alerts
    BY HandlerType DEF Job
  <2>r. ASSUME NEW stage, Reach(j, stage)
        PROVE  \A k \in Jobs : job'[k].row = job[k].row
    BY <2>r DEF Reach, TypeOK, Job
  <2>1. CASE CommitUpdate(j)
    <3>1. Edited(j).case_id \in {job[j].row.case_id, job[j].edit.case_id}
      BY DEF Edited, Given
    <3>2. \A b \in Alerts : alert'[b].case_id \in cases \cup {NONE}
      BY <2>0, <2>1, <3>1, HandlerType, MergeChoice
      DEF CommitUpdate, Refers, Written, LinksCommitted
    <3> QED  BY <2>1, <3>2, <2>r, <1>t DEF CommitUpdate, LinksCommitted
  <2>2. CASE RejectUpdate(j)
    BY <2>2, <2>r, <1>t DEF RejectUpdate, LinksCommitted
  <2>3. ASSUME NEW c \in Cases, FlushCase(j, c)  PROVE Linked'
    <3>1. \A k \in Jobs : job'[k].row = job[k].row
      BY <2>3 DEF FlushCase, TypeOK, Job
    <3> QED  BY <2>3, <3>1, <1>t DEF FlushCase, InsertUnseen, LinksCommitted
  <2>4. CASE CommitEscalation(j)
    <3>1. Escalated(j).case_id = job[j].case /\ cases' = cases \cup {job[j].case}
      BY <2>4, HandlerType DEF Escalated, CommitEscalation, AlertRow
    <3>2. \A b \in Alerts : alert'[b].case_id \in cases' \cup {NONE}
      BY <2>0, <2>4, <3>1, HandlerType, MergeChoice
      DEF CommitEscalation, Written, LinksCommitted
    <3> QED  BY <2>4, <3>1, <3>2, <2>r, <1>t DEF CommitEscalation, LinksCommitted
  <2>5. CASE CommitCase(j)
    BY <2>5, <2>r, <1>t DEF CommitCase, LinksCommitted
  <2> QED  BY <1>2, <2>1, <2>2, <2>3, <2>4, <2>5 DEF Progress
<1>3. ASSUME NEW j \in Jobs, Fail(j)  PROVE Linked'
  <2>1. \A k \in Jobs : job'[k].row = job[k].row
    BY <1>3 DEF Fail, Reach, TypeOK, Job
  <2> QED  BY <1>3, <2>1, <1>t DEF Fail, LinksCommitted
<1>4. ASSUME NEW c \in Cases, CreateCase(c)  PROVE Linked'
  BY <1>4, <1>t DEF CreateCase, LinksCommitted
<1>5. CASE UNCHANGED vars
  BY <1>5, <1>t DEF vars, LinksCommitted
<1> QED  BY <1>1, <1>2, <1>3, <1>4, <1>5 DEF Next

\* An alert never points to a case that was not committed.
THEOREM LinksStayCommitted == Spec => []LinksCommitted
<1>1. Linked => LinksCommitted
  BY DEF Linked
<1> QED  BY <1>1, InitLinked, StepLinked, PTL DEF Spec

-----------------------------------------------------------------------------
(* Stamps.                                                                 *)

Stamped(row) ==
    /\ row.status \in Final => row.resolved_at # NONE
    /\ row.assigned_to \in Users => row.assigned_at # NONE

\* Stamps that a row had are there still.
Kept(old, row) ==
    /\ old.resolved_at # NONE => row.resolved_at # NONE
    /\ old.assigned_at # NONE => row.assigned_at # NONE

ClosedOK(row) == row.status \in CaseFinal => row.closed_at # NONE

\* What request j may rely on: it has stamped nothing, so that its stamp will
\* differ from the one it read and be written; and it has read a row whose
\* stamps are still in the table.
Reads(j) ==
    /\ job[j].stage # "done" =>
         /\ \A a \in Alerts : alert[a].resolved_at # j
         /\ \A c \in Cases : case[c].closed_at # j
    /\ InFlight(j) =>
         /\ job[j].row.resolved_at # j
         /\ job[j].caseRow.closed_at # j
         /\ job[j].kind \in {"patch", "escalate"} =>
              Kept(job[j].row, alert[job[j].alert])

AllStamped ==
    /\ TypeOK
    /\ \A a \in Alerts : Stamped(alert[a])
    /\ \A c \in Cases : ClosedOK(case[c])
    /\ \A j \in Jobs : Reads(j)

LEMMA InitStamped == Init => AllStamped
<1> SUFFICES ASSUME Init PROVE AllStamped
  OBVIOUS
<1>1. Stamped(NewAlert) /\ ClosedOK(NewCase)
  BY StatusAssumption, NoneAssumption DEF NewAlert, NewCase, Stamped, ClosedOK
<1>2. ASSUME NEW j \in Jobs  PROVE Reads(j)
  <2>1. j # NONE
    BY NoneAssumption
  <2>2. ~InFlight(j)
    BY UnusedType DEF Init, InFlight
  <2> QED  BY <2>1, <2>2 DEF Reads, Init, NewAlert, NewCase
<1> QED  BY <1>1, <1>2, InitType DEF Init, AllStamped

\* The merge of a row with what a PATCH made of an earlier reading of it.
LEMMA UpdateKeepsStamps ==
    ASSUME AllStamped, NEW j \in Jobs, CommitUpdate(j), NEW b \in Alerts
    PROVE  /\ Stamped(alert'[b]) /\ Kept(alert[b], alert'[b])
           /\ alert'[b].resolved_at \in {alert[b].resolved_at, j}
<1> DEFINE a == job[j].alert
           old == job[j].row
           new == Edited(j)
<1>1. a \in Alerts /\ old \in AlertRow /\ new \in AlertRow
  BY HandlerType DEF AllStamped, Job
<1>2. Merge(a, old, new)
  BY DEF CommitUpdate
<1>3. Stamped(alert[b])
  BY DEF AllStamped
<1>4. CASE alert'[b] = alert[b]
  BY <1>3, <1>4 DEF Kept
<1>5. CASE alert'[b] # alert[b]
  <2>1. /\ b = a
        /\ alert'[a].status = Written(alert[a].status, old.status, new.status)
        /\ alert'[a].assigned_to
             = Written(alert[a].assigned_to, old.assigned_to, new.assigned_to)
        /\ alert'[a].assigned_at
             = Written(alert[a].assigned_at, old.assigned_at, new.assigned_at)
        /\ alert'[a].resolved_at
             = Written(alert[a].resolved_at, old.resolved_at, new.resolved_at)
    BY <1>1, <1>2, <1>5, MergeChoice DEF AllStamped
  <2>2. j # NONE /\ old.resolved_at # j /\ Kept(old, alert[a])
    BY NoneAssumption DEF AllStamped, Reads, InFlight, CommitUpdate
  <2>3. /\ new.resolved_at = ResolvedAt(j) /\ new.assigned_at = AssignedAt(j)
        /\ new.status # old.status => new.status = job[j].edit.status
        /\ new.assigned_to # old.assigned_to => new.assigned_to = job[j].edit.assigned_to
    BY DEF Edited, Given
  <2>4. alert'[a].resolved_at \in {alert[a].resolved_at, j}
    BY <2>1, <2>3 DEF ResolvedAt, Written
  <2>5. alert'[a].assigned_at \in {alert[a].assigned_at, j}
    BY <2>1, <2>3 DEF AssignedAt, Written
  <2>6. Kept(alert[a], alert'[a])
    BY <2>2, <2>4, <2>5 DEF Kept
  <2>7. ASSUME alert'[a].status \in Final  PROVE alert'[a].resolved_at # NONE
    <3>1. CASE new.status = old.status
      BY <1>3, <2>1, <2>2, <2>4, <2>7, <3>1 DEF Stamped, Written
    <3>2. CASE new.status # old.status
      BY <2>1, <2>2, <2>3, <2>7, <3>2 DEF ResolvedAt, Written
    <3> QED  BY <3>1, <3>2
  <2>8. ASSUME alert'[a].assigned_to \in Users  PROVE alert'[a].assigned_at # NONE
    <3>1. CASE new.assigned_to = old.assigned_to
      BY <1>3, <2>1, <2>2, <2>5, <2>8, <3>1 DEF Stamped, Written
    <3>2. CASE new.assigned_to # old.assigned_to
      <4>1. job[j].edit.assigned_to \in Users
        BY <2>1, <2>3, <2>8, <3>2 DEF Written
      <4>2. CASE old.assigned_at = NONE
        BY <2>1, <2>2, <2>3, <4>1, <4>2 DEF AssignedAt, Written
      <4>3. CASE old.assigned_at # NONE
        BY <2>2, <2>5, <4>3 DEF Kept
      <4> QED  BY <4>2, <4>3
    <3> QED  BY <3>1, <3>2
  <2> QED  BY <2>1, <2>4, <2>6, <2>7, <2>8 DEF Stamped
<1> QED  BY <1>4, <1>5

\* ... and with what an escalation made of it.
LEMMA EscalationKeepsStamps ==
    ASSUME AllStamped, NEW j \in Jobs, CommitEscalation(j), NEW b \in Alerts
    PROVE  /\ Stamped(alert'[b]) /\ Kept(alert[b], alert'[b])
           /\ alert'[b].resolved_at = alert[b].resolved_at
<1> DEFINE a == job[j].alert
           old == job[j].row
           new == Escalated(j)
<1>1. a \in Alerts /\ old \in AlertRow /\ new \in AlertRow
  BY HandlerType DEF AllStamped, Job
<1>2. /\ new.assigned_to = old.assigned_to /\ new.assigned_at = old.assigned_at
      /\ new.resolved_at = old.resolved_at /\ new.status = ESCALATED
  BY <1>1 DEF Escalated, AlertRow
<1>3. Stamped(alert[b])
  BY DEF AllStamped
<1>4. \/ alert'[b] = alert[b]
      \/ /\ alert'[b].assigned_to = alert[b].assigned_to
         /\ alert'[b].assigned_at = alert[b].assigned_at
         /\ alert'[b].resolved_at = alert[b].resolved_at
         /\ alert'[b].status \in {alert[b].status, ESCALATED}
  BY <1>1, <1>2, MergeChoice DEF AllStamped, CommitEscalation, Written
<1>5. ESCALATED \notin Final
  BY StatusAssumption
<1> QED  BY <1>3, <1>4, <1>5 DEF Stamped, Kept

\* The merge of a case with what a PATCH made of an earlier reading of it.
LEMMA CaseKeepsStamps ==
    ASSUME AllStamped, NEW j \in Jobs, CommitCase(j), NEW c \in Cases
    PROVE  ClosedOK(case'[c]) /\ case'[c].closed_at \in {case[c].closed_at, j}
<1> DEFINE old == job[j].caseRow
<1>1. \/ case'[c] = case[c]
      \/ case'[c] = [status    |-> Written(case[c].status, old.status, job[j].to),
                     closed_at |-> Written(case[c].closed_at, old.closed_at, ClosedAt(j))]
  BY DEF CommitCase, AllStamped, TypeOK
<1>2. j # NONE /\ old.closed_at # j /\ ClosedOK(case[c])
  BY NoneAssumption DEF AllStamped, Reads, InFlight, CommitCase
<1> QED  BY <1>1, <1>2 DEF ClosedOK, ClosedAt, Written

\* A commit of request j that is done with it leaves the others' reads good.
LEMMA CommitKeepsReads ==
    ASSUME AllStamped, NEW j \in Jobs, Reach(j, "done"),
           \A b \in Alerts : /\ Kept(alert[b], alert'[b])
                             /\ alert'[b].resolved_at \in {alert[b].resolved_at, j},
           \A c \in Cases : case'[c].closed_at \in {case[c].closed_at, j},
           NEW k \in Jobs
    PROVE  Reads(k)'
<1>1. CASE k = j
  <2>1. job'[k].stage = "done"
    BY <1>1 DEF Reach, AllStamped, TypeOK, Job
  <2> QED  BY <2>1 DEF Reads, InFlight
<1>2. CASE k # j
  <2>1. job'[k] = job[k] /\ job[k].alert \in Alerts
    BY <1>2, HandlerType DEF Reach, AllStamped, TypeOK, Job
  <2>2. Reads(k)
    BY DEF AllStamped
  <2> QED  BY <1>2, <2>1, <2>2 DEF Reads, InFlight, Kept
<1> QED  BY <1>1, <1>2

\* A step that writes no row: a request may start or move on.
LEMMA ReadKeepsReads ==
    ASSUME AllStamped, alert' = alert, case' = case, NEW k \in Jobs,
           \/ job'[k] = job[k]
           \/ /\ job'[k].stage \notin {"loaded", "flushed", "done"}
              /\ job[k].stage # "done"
           \/ /\ InFlight(k) /\ job'[k].stage # "done"
              /\ job'[k].row = job[k].row /\ job'[k].caseRow = job[k].caseRow
              /\ job'[k].kind = job[k].kind /\ job'[k].alert = job[k].alert
    PROVE  Reads(k)'
<1>1. Reads(k)
  BY DEF AllStamped
<1> QED  BY <1>1 DEF Reads, InFlight

LEMMA StepStamped == AllStamped /\ [Next]_vars => AllStamped'
<1> SUFFICES ASSUME AllStamped, [Next]_vars PROVE AllStamped'
  OBVIOUS
<1>t. TypeOK /\ TypeOK'
  BY StepType DEF AllStamped
<1>r. ASSUME alert' = alert, case' = case, \A k \in Jobs : Reads(k)'
      PROVE  AllStamped'
  BY <1>t, <1>r DEF AllStamped
<1>1. ASSUME NEW j \in Jobs, Request(j)  PROVE AllStamped'
  <2>0. /\ job[j].stage = "free" =>
             /\ \A a \in Alerts : alert[a].resolved_at # j
             /\ \A c \in Cases : case[c].closed_at # j
        /\ j # NONE
    BY NoneAssumption DEF AllStamped, Reads
  <2>1. ASSUME NEW kind, NEW a \in Alerts, NEW edit, ReadAlert(j, kind, a, edit)
        PROVE  AllStamped'
    <3>1. /\ job'[j].row = alert[a] /\ job'[j].alert = a
          /\ job'[j].caseRow.closed_at = NONE /\ job'[j].stage = "loaded"
      BY <2>1, <1>t DEF ReadAlert, TypeOK, Unused, NewCase
    <3>2. Reads(j)'
      BY <2>0, <2>1, <3>1 DEF Reads, ReadAlert, Kept
    <3>3. ASSUME NEW k \in Jobs, k # j  PROVE Reads(k)'
      <4>1. job'[k] = job[k]
        BY <2>1, <3>3, <1>t DEF ReadAlert, TypeOK
      <4> QED  BY <2>1, <4>1, ReadKeepsReads DEF ReadAlert
    <3> QED  BY <1>r, <2>1, <3>2, <3>3 DEF ReadAlert
  <2>2. ASSUME NEW c \in Cases, NEW to \in CaseStatuses, UpdateCase(j, c, to)
        PROVE  AllStamped'
    <3>1. /\ job'[j].row.resolved_at = NONE /\ job'[j].kind = "case"
          /\ job'[j].caseRow = case[c] /\ job'[j].stage = "loaded"
      BY <2>2, <1>t DEF UpdateCase, TypeOK, Unused, NewAlert
    <3>2. Reads(j)'
      BY <2>0, <2>2, <3>1 DEF Reads, UpdateCase
    <3>3. ASSUME NEW k \in Jobs, k # j  PROVE Reads(k)'
      <4>1. job'[k] = job[k]
        BY <2>2, <3>3, <1>t DEF UpdateCase, TypeOK
      <4> QED  BY <2>2, <4>1, ReadKeepsReads DEF UpdateCase
    <3> QED  BY <1>r, <2>2, <3>2, <3>3 DEF UpdateCase
  <2> QED  BY <1>1, <2>1, <2>2 DEF Request, UpdateAlert, EscalateAlert
<1>2. ASSUME NEW j \in Jobs, Progress(j)  PROVE AllStamped'
  <2>f. ASSUME Reach(j, "failed"), job[j].stage # "done", alert' = alert, case' = case
        PROVE  AllStamped'
    <3>1. ASSUME NEW k \in Jobs  PROVE Reads(k)'
      <4>1. job'[k] = job[k] \/ (k = j /\ job'[k].stage = "failed")
        BY <2>f, <1>t DEF Reach, TypeOK, Job
      <4> QED  BY <2>f, <4>1, ReadKeepsReads
    <3> QED  BY <1>r, <2>f, <3>1
  <2>1. CASE CommitUpdate(j)
    <3>1. \A b \in Alerts : /\ Stamped(alert'[b]) /\ Kept(alert[b], alert'[b])
                            /\ alert'[b].resolved_at \in {alert[b].resolved_at, j}
      BY <2>1, UpdateKeepsStamps
    <3>2. \A k \in Jobs : Reads(k)'
      BY <2>1, <3>1, CommitKeepsReads DEF CommitUpdate
    <3> QED  BY <2>1, <3>1, <3>2, <1>t DEF CommitUpdate, AllStamped
  <2>2. CASE RejectUpdate(j)
    BY <2>2, <2>f DEF RejectUpdate
  <2>3. ASSUME NEW c \in Cases, FlushCase(j, c)  PROVE AllStamped'
    <3>1. ASSUME NEW k \in Jobs  PROVE Reads(k)'
      <4>1. \/ job'[k] = job[k]
            \/ /\ k = j /\ InFlight(k) /\ job'[k].stage # "done"
               /\ job'[k].row = job[k].row /\ job'[k].caseRow = job[k].caseRow
               /\ job'[k].kind = job[k].kind /\ job'[k].alert = job[k].alert
        BY <2>3, <1>t DEF FlushCase, InFlight, TypeOK, Job
      <4> QED  BY <2>3, <4>1, ReadKeepsReads DEF FlushCase
    <3> QED  BY <1>r, <2>3, <3>1 DEF FlushCase
  <2>4. CASE CommitEscalation(j)
    <3>1. \A b \in Alerts : /\ Stamped(alert'[b]) /\ Kept(alert[b], alert'[b])
                            /\ alert'[b].resolved_at = alert[b].resolved_at
      BY <2>4, EscalationKeepsStamps
    <3>2. \A k \in Jobs : Reads(k)'
      BY <2>4, <3>1, CommitKeepsReads DEF CommitEscalation
    <3> QED  BY <2>4, <3>1, <3>2, <1>t DEF CommitEscalation, AllStamped
  <2>5. CASE CommitCase(j)
    <3>1. \A c \in Cases : /\ ClosedOK(case'[c])
                           /\ case'[c].closed_at \in {case[c].closed_at, j}
      BY <2>5, CaseKeepsStamps
    <3>2. \A k \in Jobs : Reads(k)'
      BY <2>5, <3>1, CommitKeepsReads DEF CommitCase, Kept
    <3> QED  BY <2>5, <3>1, <3>2, <1>t DEF CommitCase, AllStamped
  <2> QED  BY <1>2, <2>1, <2>2, <2>3, <2>4, <2>5 DEF Progress
<1>3. ASSUME NEW j \in Jobs, Fail(j)  PROVE AllStamped'
  <2>1. ASSUME NEW k \in Jobs  PROVE Reads(k)'
    <3>1. job'[k] = job[k] \/ (k = j /\ job'[k].stage = "failed")
      BY <1>3, <1>t DEF Fail, Reach, TypeOK, Job
    <3> QED  BY <1>3, <3>1, ReadKeepsReads DEF Fail, InFlight
  <2> QED  BY <1>r, <1>3, <2>1 DEF Fail
<1>4. ASSUME NEW c \in Cases, CreateCase(c)  PROVE AllStamped'
  <2>1. \A k \in Jobs : Reads(k)'
    BY <1>4, ReadKeepsReads DEF CreateCase
  <2> QED  BY <1>r, <1>4, <2>1 DEF CreateCase
<1>5. CASE UNCHANGED vars
  <2>1. \A k \in Jobs : Reads(k)'
    BY <1>5, ReadKeepsReads DEF vars
  <2> QED  BY <1>r, <1>5, <2>1 DEF vars
<1> QED  BY <1>1, <1>2, <1>3, <1>4, <1>5 DEF Next

\* However requests overlap, an alert with a verdict has a resolved_at and a
\* closed case has a closed_at.
THEOREM VerdictsStayStamped == Spec => []VerdictStamped
<1>1. AllStamped => VerdictStamped
  BY DEF AllStamped, VerdictStamped, Stamped, ClosedOK, TypeOK
<1> QED  BY <1>1, InitStamped, StepStamped, PTL DEF Spec

\* ... and an assigned alert has an assigned_at.
THEOREM AssigneesStayStamped == Spec => []AssigneeStamped
<1>1. AllStamped => AssigneeStamped
  BY DEF AllStamped, AssigneeStamped, Stamped
<1> QED  BY <1>1, InitStamped, StepStamped, PTL DEF Spec

-----------------------------------------------------------------------------
(* Assignees.                                                              *)

\* Whoever an alert is assigned to was named by the PATCH that commits: an
\* escalation, or a PATCH about something else, never puts an assignee back.
THEOREM AssigneeNamedByRequest == Spec => AssigneeByRequest
<1> DEFINE Named ==
        \A a \in Alerts : alert'[a].assigned_to # alert[a].assigned_to =>
          \E j \in Jobs : /\ job[j].alert = a /\ job[j].stage = "loaded"
                         /\ job'[j].stage = "done"
                         /\ job[j].edit.assigned_to = alert'[a].assigned_to
<1>1. TypeOK /\ [Next]_vars => [Named]_vars
  <2> SUFFICES ASSUME TypeOK, Next, NEW b \in Alerts,
                      alert'[b].assigned_to # alert[b].assigned_to
               PROVE  \E j \in Jobs : /\ job[j].alert = b /\ job[j].stage = "loaded"
                                      /\ job'[j].stage = "done"
                                      /\ job[j].edit.assigned_to = alert'[b].assigned_to
    OBVIOUS
  <2>1. PICK j \in Jobs : CommitUpdate(j) \/ CommitEscalation(j)
    BY DEF Next, Request, Progress, UpdateAlert, EscalateAlert, ReadAlert, UpdateCase,
           RejectUpdate, FlushCase, CommitCase, Fail, CreateCase
  <2>2. job[j].alert \in Alerts
    BY HandlerType DEF Job
  <2>3. CASE CommitUpdate(j)
    <3>1. /\ b = job[j].alert
          /\ alert'[b].assigned_to = Written(alert[b].assigned_to, job[j].row.assigned_to,
                                             Edited(j).assigned_to)
      BY <2>2, <2>3, HandlerType, MergeChoice DEF CommitUpdate
    <3>2. alert'[b].assigned_to = job[j].edit.assigned_to
      BY <3>1 DEF Written, Edited, Given
    <3>3. job'[j].stage = "done"
      BY <2>3 DEF CommitUpdate, Reach, TypeOK, Job
    <3> QED  BY <2>3, <3>1, <3>2, <3>3 DEF CommitUpdate
  <2>4. CASE CommitEscalation(j)
    <3>1. Escalated(j).assigned_to = job[j].row.assigned_to
      BY HandlerType DEF Escalated, AlertRow
    <3> QED  BY <2>2, <2>4, <3>1, HandlerType, MergeChoice DEF CommitEscalation, Written
  <2> QED  BY <2>1, <2>3, <2>4
<1> QED  BY <1>1, TypeCorrect, PTL DEF Spec, AssigneeByRequest

-----------------------------------------------------------------------------
(* Escalations.                                                            *)

\* The id of a case that request j has inserted, or is about to.
Made(j, c) == job[j].kind = "escalate" /\ job[j].case = c /\ c # NONE

\* Before its commit nobody sees the case that an escalation makes, and no
\* other escalation makes it.
CasesApart ==
    /\ \A j \in Jobs : job[j].kind = "escalate" /\ job[j].stage \in {"free", "loaded"}
                       => job[j].case = NONE
    /\ \A j, k \in Jobs, c \in Cases : Made(j, c) /\ Made(k, c) => j = k

Escalations == Linked /\ EscalationAtomic /\ CasesApart

LEMMA InitEscalations == Init => Escalations
<1> SUFFICES ASSUME Init PROVE Escalations
  OBVIOUS
<1>1. \A j \in Jobs : job[j].kind = "none"
  BY DEF Init, Unused
<1> QED  BY <1>1, InitLinked DEF Escalations, EscalationAtomic, CasesApart, Made

\* A request that makes no case, now or later, disturbs no escalation.
LEMMA OthersKeepEscalations ==
    ASSUME Escalations, Linked', NEW j \in Jobs, cases' = cases,
           \A k \in Jobs \ {j} : job'[k] = job[k],
           job'[j].kind = "escalate" =>
               \/ job'[j].case = NONE
               \/ /\ job[j].kind = "escalate" /\ job'[j].case = job[j].case
                  /\ job[j].stage # "done" /\ job'[j].stage \notin {"done", "free", "loaded"}
    PROVE  Escalations'
<1>1. EscalationAtomic'
  BY DEF Escalations, EscalationAtomic
<1>2. CasesApart'
  BY DEF Escalations, CasesApart, Made
<1> QED  BY <1>1, <1>2 DEF Escalations

LEMMA StepEscalations == Escalations /\ [Next]_vars => Escalations'
<1> SUFFICES ASSUME Escalations, [Next]_vars PROVE Escalations'
  OBVIOUS
<1>t. TypeOK /\ Linked' /\ TypeOK'
  BY StepLinked, StepType DEF Escalations, Linked
<1>r. ASSUME NEW j \in Jobs, NEW stage, Reach(j, stage)
      PROVE  /\ \A k \in Jobs \ {j} : job'[k] = job[k]
             /\ job'[j].kind = job[j].kind /\ job'[j].case = job[j].case
             /\ job'[j].stage = stage
  BY <1>r, <1>t DEF Reach, TypeOK, Job
<1>1. ASSUME NEW j \in Jobs, Request(j)  PROVE Escalations'
  <2>1. /\ \A k \in Jobs \ {j} : job'[k] = job[k]
        /\ cases' = cases
        /\ job'[j].kind = "case" \/ job'[j].case = NONE
    <3>1. ASSUME NEW kind, NEW a \in Alerts, NEW edit, ReadAlert(j, kind, a, edit)
          PROVE  /\ \A k \in Jobs \ {j} : job'[k] = job[k]
                 /\ cases' = cases /\ job'[j].case = NONE
      BY <3>1, <1>t DEF ReadAlert, TypeOK, Unused
    <3>2. ASSUME NEW c \in Cases, NEW to \in CaseStatuses, UpdateCase(j, c, to)
          PROVE  /\ \A k \in Jobs \ {j} : job'[k] = job[k]
                 /\ cases' = cases /\ job'[j].kind = "case"
      BY <3>2, <1>t DEF UpdateCase, TypeOK, Unused
    <3> QED  BY <1>1, <3>1, <3>2 DEF Request, UpdateAlert, EscalateAlert
  <2> QED  BY <1>t, <2>1, OthersKeepEscalations
<1>2. ASSUME NEW j \in Jobs, Progress(j)  PROVE Escalations'
  <2>1. CASE CommitUpdate(j)
    BY <2>1, <1>t, <1>r, OthersKeepEscalations DEF CommitUpdate
  <2>2. CASE RejectUpdate(j)
    BY <2>2, <1>t, <1>r, OthersKeepEscalations DEF RejectUpdate
  <2>3. ASSUME NEW c \in Cases, FlushCase(j, c)  PROVE Escalations'
    <3>1. /\ \A k \in Jobs \ {j} : job'[k] = job[k]
          /\ job'[j].kind = "escalate" /\ job'[j].case = c /\ job'[j].stage = "flushed"
          /\ cases' = cases /\ c \notin cases /\ \A k \in Jobs : job[k].case # c
      BY <2>3, <1>t DEF FlushCase, InsertUnseen, NewId, TypeOK, Job
    <3>2. EscalationAtomic'
      BY <3>1 DEF Escalations, EscalationAtomic
    <3>3. CasesApart'
      BY <3>1 DEF Escalations, CasesApart, Made
    <3> QED  BY <1>t, <3>2, <3>3 DEF Escalations
  <2>4. CASE CommitEscalation(j)
    <3>1. /\ \A k \in Jobs \ {j} : job'[k] = job[k]
          /\ job'[j].kind = job[j].kind /\ job'[j].case = job[j].case
          /\ job'[j].stage = "done"
      BY <2>4, <1>r DEF CommitEscalation
    <3>2. /\ cases' = cases \cup {job[j].case}
          /\ job[j].kind = "escalate" /\ job[j].case \in Cases /\ job[j].case # NONE
      BY <2>4, <1>t, NoneAssumption DEF CommitEscalation, TypeOK, Job
    <3>3. \A k \in Jobs \ {j} : job[k].kind = "escalate" => job[k].case # job[j].case
      BY <3>2 DEF Escalations, CasesApart, Made
    <3>4. EscalationAtomic'
      BY <3>1, <3>2, <3>3 DEF Escalations, EscalationAtomic
    <3>5. CasesApart'
      BY <3>1, <3>2 DEF Escalations, CasesApart, Made
    <3> QED  BY <1>t, <3>4, <3>5 DEF Escalations
  <2>5. CASE CommitCase(j)
    BY <2>5, <1>t, <1>r, OthersKeepEscalations DEF CommitCase
  <2> QED  BY <1>2, <2>1, <2>2, <2>3, <2>4, <2>5 DEF Progress
<1>3. ASSUME NEW j \in Jobs, Fail(j)  PROVE Escalations'
  BY <1>3, <1>t, <1>r, OthersKeepEscalations DEF Fail, InFlight
<1>4. ASSUME NEW c \in Cases, CreateCase(c)  PROVE Escalations'
  <2>1. job' = job /\ cases' = cases \cup {c} /\ \A k \in Jobs : job[k].case # c
    BY <1>4 DEF CreateCase, NewId
  <2>2. EscalationAtomic'
    BY <2>1 DEF Escalations, EscalationAtomic
  <2>3. CasesApart'
    BY <2>1 DEF Escalations, CasesApart, Made
  <2> QED  BY <1>t, <2>2, <2>3 DEF Escalations
<1>5. CASE UNCHANGED vars
  BY <1>5, <1>t DEF vars, Escalations, EscalationAtomic, CasesApart, Made
<1> QED  BY <1>1, <1>2, <1>3, <1>4, <1>5 DEF Next

\* The case of an escalation is in the table if the escalation committed, and
\* only then.
THEOREM EscalationsAreAtomic == Spec => []EscalationAtomic
<1>1. Escalations => EscalationAtomic
  BY DEF Escalations
<1> QED  BY <1>1, InitEscalations, StepEscalations, PTL DEF Spec

-----------------------------------------------------------------------------
(* What an escalation leaves.                                              *)

\* While requests on an alert did not overlap, one holds it at most and what
\* that one has read is current.
Alone ==
    \A j \in Jobs, a \in Alerts : Holds(j, a) /\ ~overlapped[a] =>
        /\ job[j].row = alert[a]
        /\ \A k \in Jobs \ {j} : ~Holds(k, a)

LEMMA StepAlone == TypeOK /\ Alone /\ [Next]_vars => Alone'
<1> SUFFICES ASSUME TypeOK, Alone, [Next]_vars PROVE Alone'
  OBVIOUS
<1>1. ASSUME NEW j \in Jobs, \A k \in Jobs \ {j} : job'[k] = job[k],
             \A a \in Alerts : ~Holds(j, a)', overlapped' = overlapped,
             \A b \in Alerts : alert'[b] # alert[b] => Holds(j, b)
      PROVE  Alone'
  BY <1>1 DEF Alone, Holds, InFlight
<1>2. ASSUME NEW j \in Jobs, NEW stage \in {"done", "failed"}, Reach(j, stage)
      PROVE  /\ \A k \in Jobs \ {j} : job'[k] = job[k]
             /\ \A a \in Alerts : ~Holds(j, a)'
  BY <1>2 DEF Reach, TypeOK, Job, Holds, InFlight
<1>3. ASSUME NEW j \in Jobs, Request(j)  PROVE Alone'
  <2>1. ASSUME NEW kind, NEW a \in Alerts, NEW edit, ReadAlert(j, kind, a, edit)
        PROVE  Alone'
    <3>1. /\ \A k \in Jobs \ {j} : job'[k] = job[k]
          /\ job'[j].row = alert[a] /\ job'[j].alert = a /\ alert' = alert
      BY <2>1 DEF ReadAlert, TypeOK, Unused
    <3>2. \A b \in Alerts : ~overlapped'[b] => ~overlapped[b]
      BY <2>1 DEF ReadAlert, TypeOK
    <3>3. ~overlapped'[a] => \A k \in Jobs \ {j} : ~Holds(k, a)
      BY <2>1 DEF ReadAlert, TypeOK
    <3>4. \A k \in Jobs \ {j}, b \in Alerts : Holds(k, b)' <=> Holds(k, b)
      BY <3>1 DEF Holds, InFlight
    <3>5. \A b \in Alerts : Holds(j, b)' => b = a
      BY <3>1 DEF Holds
    <3> QED  BY <3>1, <3>2, <3>3, <3>4, <3>5 DEF Alone
  <2>2. ASSUME NEW c \in Cases, NEW to \in CaseStatuses, UpdateCase(j, c, to)
        PROVE  Alone'
    <3>1. /\ \A k \in Jobs \ {j} : job'[k] = job[k]
          /\ job'[j].kind = "case"
      BY <2>2 DEF UpdateCase, TypeOK, Unused
    <3> QED  BY <2>2, <3>1, <1>1 DEF UpdateCase, Holds
  <2> QED  BY <1>3, <2>1, <2>2 DEF Request, UpdateAlert, EscalateAlert
<1>4. ASSUME NEW j \in Jobs, Progress(j)  PROVE Alone'
  <2>0. job[j].alert \in Alerts
    BY HandlerType DEF Job
  <2>1. CASE CommitUpdate(j)
    <3>1. \A b \in Alerts : alert'[b] # alert[b] => Holds(j, b)
      BY <2>0, <2>1, HandlerType, MergeChoice DEF CommitUpdate, Holds, InFlight
    <3> QED  BY <2>1, <3>1, <1>1, <1>2 DEF CommitUpdate
  <2>2. CASE RejectUpdate(j)
    BY <2>2, <1>1, <1>2 DEF RejectUpdate
  <2>3. ASSUME NEW c \in Cases, FlushCase(j, c)  PROVE Alone'
    <3>1. \A k \in Jobs : /\ job'[k].row = job[k].row
                          /\ \A a \in Alerts : Holds(k, a)' <=> Holds(k, a)
      BY <2>3 DEF FlushCase, TypeOK, Job, Holds, InFlight
    <3> QED  BY <2>3, <3>1 DEF FlushCase, Alone
  <2>4. CASE CommitEscalation(j)
    <3>1. \A b \in Alerts : alert'[b] # alert[b] => Holds(j, b)
      BY <2>0, <2>4, HandlerType, MergeChoice DEF CommitEscalation, Holds, InFlight
    <3> QED  BY <2>4, <3>1, <1>1, <1>2 DEF CommitEscalation
  <2>5. CASE CommitCase(j)
    BY <2>5, <1>1, <1>2 DEF CommitCase
  <2> QED  BY <1>4, <2>1, <2>2, <2>3, <2>4, <2>5 DEF Progress
<1>5. ASSUME NEW j \in Jobs, Fail(j)  PROVE Alone'
  BY <1>5, <1>1, <1>2 DEF Fail
<1>6. ASSUME NEW c \in Cases, CreateCase(c)  PROVE Alone'
  BY <1>6 DEF CreateCase, Alone, Holds, InFlight
<1>7. CASE UNCHANGED vars
  BY <1>7 DEF vars, Alone, Holds, InFlight
<1> QED  BY <1>3, <1>4, <1>5, <1>6, <1>7 DEF Next

LEMMA InitAlone == Init => Alone
BY UnusedType DEF Init, Alone, Holds, InFlight

\* An escalation that commits leaves the alert with its case, for the case
\* was in no row that it can have read; and ESCALATED, unless another request
\* held the alert at the same time.
THEOREM EscalationsTakeEffect == Spec => EscalationTakesEffect
<1> DEFINE Effect ==
        \A j \in Jobs :
          (job[j].kind = "escalate" /\ job[j].stage # "done" /\ job'[j].stage = "done") =>
            /\ alert'[job[j].alert].case_id = job[j].case
            /\ overlapped[job[j].alert] \/ alert'[job[j].alert].status = ESCALATED
<1>1. Escalations /\ Alone /\ [Next]_vars => [Effect]_vars
  <2> SUFFICES ASSUME Escalations, Alone, Next, NEW j \in Jobs,
                      job[j].kind = "escalate", job[j].stage # "done",
                      job'[j].stage = "done"
               PROVE  /\ alert'[job[j].alert].case_id = job[j].case
                      /\ \/ overlapped[job[j].alert]
                         \/ alert'[job[j].alert].status = ESCALATED
    OBVIOUS
  <2>t. TypeOK /\ job[j].row \in AlertRow
    BY HandlerType DEF Escalations, Linked
  <2>r. ASSUME NEW k \in Jobs, NEW stage, Reach(k, stage), k # j \/ stage # "done"
        PROVE  FALSE
    BY <2>r, <2>t DEF Reach, TypeOK, Job
  <2>1. CommitEscalation(j)
    <3>1. ASSUME NEW k \in Jobs, Request(k)  PROVE FALSE
      <4>1. \A i \in Jobs : job'[i].stage = "loaded" \/ job'[i] = job[i]
        <5>1. ASSUME NEW kind, NEW b \in Alerts, NEW edit, ReadAlert(k, kind, b, edit)
              PROVE  \A i \in Jobs : job'[i].stage = "loaded" \/ job'[i] = job[i]
          BY <5>1, <2>t DEF ReadAlert, Unused, TypeOK
        <5>2. ASSUME NEW c \in Cases, NEW to \in CaseStatuses, UpdateCase(k, c, to)
              PROVE  \A i \in Jobs : job'[i].stage = "loaded" \/ job'[i] = job[i]
          BY <5>2, <2>t DEF UpdateCase, Unused, TypeOK
        <5> QED  BY <3>1, <5>1, <5>2 DEF Request, UpdateAlert, EscalateAlert
      <4> QED  BY <4>1
    <3>2. ASSUME NEW k \in Jobs, Progress(k)  PROVE k = j /\ CommitEscalation(k)
      <4>1. CASE CommitUpdate(k)
        BY <4>1, <2>r DEF CommitUpdate
      <4>2. CASE RejectUpdate(k)
        BY <4>2, <2>r DEF RejectUpdate
      <4>3. ASSUME NEW c \in Cases, FlushCase(k, c)  PROVE FALSE
        BY <4>3, <2>t DEF FlushCase, TypeOK, Job
      <4>4. CASE CommitEscalation(k)
        BY <4>4, <2>r DEF CommitEscalation
      <4>5. CASE CommitCase(k)
        BY <4>5, <2>r DEF CommitCase
      <4> QED  BY <3>2, <4>1, <4>2, <4>3, <4>4, <4>5 DEF Progress
    <3>3. ASSUME NEW k \in Jobs, Fail(k)  PROVE FALSE
      BY <3>3, <2>r DEF Fail
    <3>4. ASSUME NEW c \in Cases, CreateCase(c)  PROVE FALSE
      BY <3>4 DEF CreateCase
    <3> QED  BY <3>1, <3>2, <3>3, <3>4 DEF Next
  <2> DEFINE a == job[j].alert
             old == job[j].row
  <2>2. /\ a \in Alerts
        /\ alert' = [alert EXCEPT ![a] =
             [status      |-> Written(@.status, old.status, Escalated(j).status),
              assigned_to |-> Written(@.assigned_to, old.assigned_to,
                                      Escalated(j).assigned_to),
              assigned_at |-> Written(@.assigned_at, old.assigned_at,
                                      Escalated(j).assigned_at),
              resolved_at |-> Written(@.resolved_at, old.resolved_at,
                                      Escalated(j).resolved_at),
              case_id     |-> Written(@.case_id, old.case_id, Escalated(j).case_id)]]
    BY <2>1, <2>t, HandlerType DEF CommitEscalation, Merge, Job
  <2>3. /\ alert'[a].status = Written(alert[a].status, old.status, ESCALATED)
        /\ alert'[a].case_id = Written(alert[a].case_id, old.case_id, job[j].case)
    BY <2>2, <2>t DEF Escalated, AlertRow, TypeOK
  <2>4. old.case_id # job[j].case
    <3>1. job[j].case # NONE /\ job[j].case \notin cases
      BY <2>1, <2>t DEF CommitEscalation, TypeOK, Escalations, EscalationAtomic
    <3> QED  BY <3>1 DEF Escalations, Linked
  <2>5. overlapped[a] \/ old = alert[a]
    BY <2>1, <2>2 DEF Alone, Holds, InFlight, CommitEscalation
  <2> QED  BY <2>3, <2>4, <2>5 DEF Written
<1>2. Spec => [](Escalations /\ Alone)
  <2>1. Escalations => TypeOK
    BY DEF Escalations, Linked
  <2> QED  BY <2>1, InitEscalations, StepEscalations, InitAlone, StepAlone, PTL DEF Spec
<1> QED  BY <1>1, <1>2, PTL DEF Spec, EscalationTakesEffect

-----------------------------------------------------------------------------
(* Whose stamp a verdict has.                                              *)

\* Without overlap, the stamp is that of a request which has committed and
\* had asked for the verdict.
VerdictOwned ==
    \A a \in Alerts : ~overlapped[a] /\ alert[a].status \in Final =>
        /\ alert[a].resolved_at \in Jobs
        /\ job[alert[a].resolved_at].stage = "done"
        /\ job[alert[a].resolved_at].edit.status = alert[a].status

\* A step under which alerts keep what they have and a request that is done
\* stays as it is.
LEMMA SameVerdicts ==
    ASSUME VerdictOwned, \A a \in Alerts : overlapped[a] => overlapped'[a],
           \A a \in Alerts : ~overlapped'[a] =>
               \/ alert'[a].status = alert[a].status /\ alert'[a].resolved_at = alert[a].resolved_at
               \/ alert'[a].status \notin Final,
           \A k \in Jobs : job[k].stage = "done" => job'[k] = job[k]
    PROVE  VerdictOwned'
BY DEF VerdictOwned

\* The verdict of a PATCH that has read the current row.
LEMMA UpdateOwnsVerdict ==
    ASSUME AllStamped, Alone, VerdictOwned, NEW j \in Jobs, CommitUpdate(j)
    PROVE  VerdictOwned'
<1> DEFINE a == job[j].alert
           new == Edited(j)
<1>t. TypeOK /\ a \in Alerts /\ job[j].row \in AlertRow /\ new \in AlertRow
  BY HandlerType DEF AllStamped, Job
<1>1. /\ \A k \in Jobs \ {j} : job'[k] = job[k]
      /\ job'[j].edit = job[j].edit /\ job'[j].stage = "done"
      /\ job[j].stage = "loaded" /\ overlapped' = overlapped
  BY <1>t DEF CommitUpdate, Reach, TypeOK, Job
<1>2. ASSUME NEW b \in Alerts, ~overlapped[b], alert'[b].status \in Final
      PROVE  /\ alert'[b].resolved_at \in Jobs
             /\ job'[alert'[b].resolved_at].stage = "done"
             /\ job'[alert'[b].resolved_at].edit.status = alert'[b].status
  <2>1. CASE alert'[b] = alert[b]
    BY <1>1, <1>2, <2>1 DEF VerdictOwned
  <2>2. CASE alert'[b] # alert[b]
    <3>1. /\ b = a
          /\ alert'[a].status = Written(alert[a].status, job[j].row.status, new.status)
          /\ alert'[a].resolved_at
               = Written(alert[a].resolved_at, job[j].row.resolved_at, new.resolved_at)
      BY <1>t, <2>2, MergeChoice DEF CommitUpdate
    <3>2. job[j].row = alert[a]
      BY <1>2, <1>t, <3>1 DEF Alone, Holds, InFlight, CommitUpdate
    <3>3. /\ alert'[a].status = Given(job[j].edit.status, alert[a].status)
          /\ alert'[a].resolved_at = ResolvedAt(j)
      BY <3>1, <3>2 DEF Written, Edited
    <3>4. CASE job[j].edit.status \in Final
      <4>1. alert'[a].resolved_at = j /\ alert'[a].status = job[j].edit.status
        BY <3>3, <3>4, StatusAssumption, NoneAssumption DEF ResolvedAt, Given
      <4> QED  BY <1>1, <3>1, <4>1
    <3>5. CASE job[j].edit.status \notin Final
      <4>1. /\ alert'[a].resolved_at = alert[a].resolved_at
            /\ alert'[a].status = alert[a].status
        BY <1>2, <3>1, <3>2, <3>3, <3>5 DEF ResolvedAt, Given
      <4> QED  BY <1>1, <1>2, <3>1, <4>1 DEF VerdictOwned
    <3> QED  BY <3>4, <3>5
  <2> QED  BY <2>1, <2>2
<1> QED  BY <1>1, <1>2 DEF VerdictOwned

LEMMA StepVerdict == AllStamped /\ Alone /\ VerdictOwned /\ [Next]_vars => VerdictOwned'
<1> SUFFICES ASSUME AllStamped, Alone, VerdictOwned, [Next]_vars PROVE VerdictOwned'
  OBVIOUS
<1>t. TypeOK
  BY DEF AllStamped
<1>r. ASSUME NEW j \in Jobs, NEW stage, Reach(j, stage), job[j].stage # "done"
      PROVE  \A k \in Jobs : job[k].stage = "done" => job'[k] = job[k]
  BY <1>r, <1>t DEF Reach, TypeOK
<1>1. ASSUME NEW j \in Jobs, Request(j)  PROVE VerdictOwned'
  <2>1. /\ alert' = alert /\ \A k \in Jobs : job[k].stage = "done" => job'[k] = job[k]
        /\ \A a \in Alerts : overlapped[a] => overlapped'[a]
    <3>1. ASSUME NEW kind, NEW a \in Alerts, NEW edit, ReadAlert(j, kind, a, edit)
          PROVE  /\ alert' = alert /\ \A k \in Jobs : job[k].stage = "done" => job'[k] = job[k]
                 /\ \A b \in Alerts : overlapped[b] => overlapped'[b]
      <4>1. job[j].stage = "free"
            /\ alert' = alert /\ \A k \in Jobs \ {j} : job'[k] = job[k]
        BY <3>1, <1>t DEF ReadAlert, TypeOK
      <4>2. \A b \in Alerts : overlapped[b] => overlapped'[b]
        BY <3>1, <1>t DEF ReadAlert, TypeOK
      <4> QED  BY <4>1, <4>2
    <3>2. ASSUME NEW c \in Cases, NEW to \in CaseStatuses, UpdateCase(j, c, to)
          PROVE  /\ alert' = alert /\ overlapped' = overlapped
                 /\ \A k \in Jobs : job[k].stage = "done" => job'[k] = job[k]
      BY <3>2, <1>t DEF UpdateCase, TypeOK
    <3> QED  BY <1>1, <3>1, <3>2 DEF Request, UpdateAlert, EscalateAlert
  <2> QED  BY <2>1, SameVerdicts
<1>2. ASSUME NEW j \in Jobs, Progress(j)  PROVE VerdictOwned'
  <2>1. CASE CommitUpdate(j)
    BY <2>1, UpdateOwnsVerdict
  <2>2. CASE RejectUpdate(j)
    BY <2>2, <1>r, SameVerdicts DEF RejectUpdate
  <2>3. ASSUME NEW c \in Cases, FlushCase(j, c)  PROVE VerdictOwned'
    <3>1. \A k \in Jobs : job[k].stage = "done" => job'[k] = job[k]
      BY <2>3, <1>t DEF FlushCase, TypeOK
    <3> QED  BY <2>3, <3>1, SameVerdicts DEF FlushCase
  <2>4. CASE CommitEscalation(j)
    <3>1. /\ job[j].alert \in Alerts /\ job[j].row \in AlertRow /\ Escalated(j) \in AlertRow
          /\ Escalated(j).status = ESCALATED
          /\ Escalated(j).resolved_at = job[j].row.resolved_at
      BY <1>t, HandlerType DEF Escalated, AlertRow, Job
    <3>2. ESCALATED \notin Final
      BY StatusAssumption
    <3>3. \A a \in Alerts :
             /\ alert'[a].resolved_at = alert[a].resolved_at
             /\ alert'[a].status \in {alert[a].status, ESCALATED}
      BY <1>t, <2>4, <3>1, MergeChoice DEF CommitEscalation, Written
    <3> QED  BY <2>4, <3>2, <3>3, <1>r, SameVerdicts DEF CommitEscalation
  <2>5. CASE CommitCase(j)
    BY <2>5, <1>r, SameVerdicts DEF CommitCase
  <2> QED  BY <1>2, <2>1, <2>2, <2>3, <2>4, <2>5 DEF Progress
<1>3. ASSUME NEW j \in Jobs, Fail(j)  PROVE VerdictOwned'
  BY <1>3, <1>r, SameVerdicts DEF Fail, InFlight
<1>4. ASSUME NEW c \in Cases, CreateCase(c)  PROVE VerdictOwned'
  BY <1>4, SameVerdicts DEF CreateCase
<1>5. CASE UNCHANGED vars
  BY <1>5, SameVerdicts DEF vars
<1> QED  BY <1>1, <1>2, <1>3, <1>4, <1>5 DEF Next

LEMMA InitVerdict == Init => VerdictOwned
<1>1. NewAlert.status \notin Final
  BY StatusAssumption DEF NewAlert
<1> QED  BY <1>1 DEF Init, VerdictOwned

\* While requests on an alert do not overlap, its resolved_at is that of a
\* request that asked for the verdict it has.
THEOREM VerdictsHaveTheirStamp == Spec => []VerdictHasItsStamp
<1>1. VerdictOwned => VerdictHasItsStamp
  BY DEF VerdictOwned, VerdictHasItsStamp
<1>2. AllStamped => TypeOK
  BY DEF AllStamped
<1> QED  BY <1>1, <1>2, InitStamped, StepStamped, InitAlone, StepAlone, InitVerdict,
            StepVerdict, PTL DEF Spec
=============================================================================
