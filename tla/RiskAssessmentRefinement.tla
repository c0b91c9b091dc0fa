----------------------- MODULE RiskAssessmentRefinement -----------------------
(***************************************************************************)
(* RiskAssessment implements the safety part of AssessmentService, for any *)
(* instance: every step of the sessions, the beat, the crashes and the     *)
(* failures is a step of the service or leaves what it shows unchanged.    *)
(***************************************************************************)
EXTENDS RiskAssessmentProofs

USE DEF table

-----------------------------------------------------------------------------
(* How a step shows.                                                       *)

LEMMA Seen ==
    /\ \A kind, stage : kind # "full" => SeenAs(kind, stage) = "none"
    /\ SeenAs("full", "free") = "none"
    /\ \A stage \in {"queued", "loaded", "analysed"} : SeenAs("full", stage) = "pending"
    /\ SeenAs("full", "committed") = "stored"
    /\ SeenAs("full", "done") = "done"
    /\ SeenAs("full", "failed") = "lost"
<1>1. \A kind, stage : kind # "full" => SeenAs(kind, stage) = "none"
  BY DEF SeenAs
<1>2. \A stage \in {"queued", "loaded", "analysed"} : SeenAs("full", stage) = "pending"
  BY DEF SeenAs
<1>3. SeenAs("full", "free") = "none" /\ SeenAs("full", "committed") = "stored"
  BY DEF SeenAs
<1>4. SeenAs("full", "done") = "done" /\ SeenAs("full", "failed") = "lost"
  BY DEF SeenAs
<1> QED  BY <1>1, <1>2, <1>3, <1>4

\* The session's own task is the only one whose state changes with it.
LEMMA OneTask ==
    ASSUME TypeOK, TypeOK', NEW j \in Jobs, \A k \in Jobs \ {j} : job'[k] = job[k]
    PROVE  TaskStates' = [TaskStates EXCEPT ![j] = TaskState(j)']
<1>1. \A k \in Jobs \ {j} : TaskState(k)' = TaskState(k)
  BY DEF TaskState
<1> QED  BY <1>1 DEF TaskStates

\* A session that keeps its task's state hides behind it.
LEMMA SameTask ==
    ASSUME TypeOK, TypeOK', NEW j \in Jobs, \A k \in Jobs \ {j} : job'[k] = job[k],
           TaskState(j)' = TaskState(j)
    PROVE  TaskStates' = TaskStates
<1>1. \A k \in Jobs : TaskState(k)' = TaskState(k)
  BY DEF TaskState
<1> QED  BY <1>1 DEF TaskStates

LEMMA MovesTask ==
    ASSUME TypeOK, TypeOK', NEW j \in Jobs, \A k \in Jobs \ {j} : job'[k] = job[k],
           NEW from, NEW to, TaskState(j) = from, TaskState(j)' = to
    PROVE  Service!Move(j, from, to)
<1>1. TaskStates[j] = from
  BY DEF TaskStates
<1> QED  BY <1>1, OneTask DEF Service!Move

\* Storing alerts for one taxpayer is what the service calls Add: the new
\* total is backed by the rows, which is why the invariant is needed.
LEMMA InsertsAdd ==
    ASSUME Backed, Backed', NEW j \in Jobs, InsertAlerts(j),
           \A u \in Taxpayers \ {job[j].tin} : total'[u] = total[u]
    PROVE  \E t \in Taxpayers : Service!Add({t})
<1>1. job[j].tin \in Taxpayers /\ job[j].found.alerts \in Nat /\ rows \in [Taxpayers -> Nat]
  BY DEF Backed, TypeOK, Job, Findings
<1>2. /\ \A u \in Taxpayers \ {job[j].tin} : rows'[u] = rows[u]
      /\ rows'[job[j].tin] >= rows[job[j].tin]
  BY <1>1 DEF InsertAlerts
<1>3. total'[job[j].tin] <= rows'[job[j].tin]
  BY <1>1 DEF Backed, NeverOverCounted
<1>4. Service!Add({job[j].tin})
  BY <1>1, <1>2, <1>3 DEF Service!Add
<1> QED  BY <1>1, <1>4

-----------------------------------------------------------------------------
(* Steps.                                                                  *)

Shown == UNCHANGED <<rows, total>>

\* The sessions' own steps.
LEMMA ProgressShows ==
    ASSUME Backed, Backed', NEW j \in Jobs, Progress(j)
    PROVE  Service!Next \/ UNCHANGED Service!vars
<1>1. TypeOK /\ TypeOK'
  BY DEF Backed
<1>2. job \in [Jobs -> Job]
  BY <1>1 DEF TypeOK
<1>3. \A k \in Jobs \ {j} : job'[k] = job[k]
  BY <1>2 DEF Progress, Load, ReadRow, Analyse, Commit, CommitAssessment,
     CommitReassessment, CommitInvoiceAnalysis, CommitStatus, Background, Acknowledge, Reach
<1>4. CASE Load(j) \/ Analyse(j)
  <2>1. TaskState(j)' = TaskState(j)
    BY <1>2, <1>4, Seen DEF Load, ReadRow, Analyse, TaskState, Job
  <2>2. Shown
    BY <1>4 DEF Load, Analyse, Shown
  <2> QED  BY <1>1, <1>3, <2>1, <2>2, SameTask DEF Service!vars, Shown
<1>5. CASE CommitAssessment(j)
  <2>1. \E t \in Taxpayers : Service!Add({t})
    <3>1. \A u \in Taxpayers \ {job[j].tin} : total'[u] = total[u]
      BY <1>1, <1>5 DEF CommitAssessment, TypeOK
    <3>2. InsertAlerts(j)
      BY <1>5 DEF CommitAssessment
    <3> QED  BY <3>1, <3>2, InsertsAdd
  <2>2. CASE job[j].kind = "full"
    <3>1. TaskState(j) = "pending" /\ TaskState(j)' = "stored"
      BY <1>2, <1>5, <2>2, Seen DEF CommitAssessment, Reach, TaskState, Job
    <3>2. Service!Move(j, "pending", "stored")
      BY <1>1, <1>3, <3>1, MovesTask
    <3> QED  BY <2>1, <3>2 DEF Service!Next, Service!Store
  <2>3. CASE job[j].kind # "full"
    <3>1. TaskState(j)' = TaskState(j)
      BY <1>2, <1>5, <2>3, Seen DEF CommitAssessment, Reach, TaskState, Job
    <3> QED  BY <1>1, <1>3, <2>1, <3>1, SameTask DEF Service!Next, Service!Other
  <2> QED  BY <2>2, <2>3
<1>6. CASE CommitReassessment(j) \/ CommitInvoiceAnalysis(j)
  <2>1. InsertAlerts(j) /\ total' = total
    BY <1>6 DEF CommitReassessment, CommitInvoiceAnalysis
  <2>2. \E t \in Taxpayers : Service!Add({t})
    BY <2>1, InsertsAdd
  <2>3. TaskState(j)' = TaskState(j)
    BY <1>2, <1>6, Seen
    DEF CommitReassessment, CommitInvoiceAnalysis, Reach, TaskState, Job
  <2> QED  BY <1>1, <1>3, <2>2, <2>3, SameTask DEF Service!Next, Service!Other
<1>7. CASE CommitStatus(j)
  <2>1. TaskState(j)' = TaskState(j)
    BY <1>2, <1>7, Seen DEF CommitStatus, StatusWriters, Background, Reach, TaskState, Job
  <2>2. Shown
    BY <1>7 DEF CommitStatus, Shown
  <2> QED  BY <1>1, <1>3, <2>1, <2>2, SameTask DEF Service!vars, Shown
<1>8. CASE Acknowledge(j)
  <2>1. Shown
    BY <1>8 DEF Acknowledge, Shown
  <2>2. CASE job[j].kind = "full"
    <3>1. TaskState(j) = "stored" /\ TaskState(j)' = "done"
      BY <1>2, <1>8, <2>2, Seen DEF Acknowledge, Reach, TaskState, Job
    <3>2. Service!Move(j, "stored", "done")
      BY <1>1, <1>3, <3>1, MovesTask
    <3> QED  BY <2>1, <3>2 DEF Service!Next, Service!Finish, Shown
  <2>3. CASE job[j].kind # "full"
    <3>1. TaskState(j)' = TaskState(j)
      BY <1>2, <1>8, <2>3, Seen DEF Acknowledge, Reach, TaskState, Job
    <3> QED  BY <1>1, <1>3, <2>1, <3>1, SameTask DEF Service!vars, Shown
  <2> QED  BY <2>2, <2>3
<1> QED  BY <1>4, <1>5, <1>6, <1>7, <1>8 DEF Progress, Commit

\* A worker that dies has its task delivered again; an exception loses it.
LEMMA FaultShows ==
    ASSUME Backed, Backed', NEW j \in Jobs, CrashWorker(j) \/ Fail(j)
    PROVE  Service!Next \/ UNCHANGED Service!vars
<1>1. TypeOK /\ TypeOK' /\ job \in [Jobs -> Job]
  BY DEF Backed, TypeOK
<1>2. Shown /\ \A k \in Jobs \ {j} : job'[k] = job[k]
  BY <1>1 DEF CrashWorker, Redeliver, Fail, Reach, Shown
<1>3. CASE CrashWorker(j) /\ job[j].stage = "committed"
  <2>1. TaskState(j) = "stored" /\ TaskState(j)' = "pending"
    BY <1>1, <1>3, Seen DEF CrashWorker, Redeliver, Reach, TaskState, Job
  <2>2. Service!Move(j, "stored", "pending")
    BY <1>1, <1>2, <2>1, MovesTask
  <2> QED  BY <1>2, <2>2 DEF Service!Next, Service!Again, Shown
<1>4. CASE CrashWorker(j) /\ job[j].stage # "committed"
  <2>1. TaskState(j)' = TaskState(j)
    BY <1>1, <1>4, Seen DEF CrashWorker, Redeliver, Reach, TaskState, Job
  <2> QED  BY <1>1, <1>2, <2>1, SameTask DEF Service!vars, Shown
<1>5. CASE Fail(j) /\ job[j].kind = "full"
  <2>1. TaskState(j) = "pending" /\ TaskState(j)' = "lost"
    BY <1>1, <1>5, Seen DEF Fail, InFlight, Reach, TaskState, Job
  <2>2. Service!Move(j, "pending", "lost")
    BY <1>1, <1>2, <2>1, MovesTask
  <2> QED  BY <1>2, <2>2 DEF Service!Next, Service!Lose, Shown
<1>6. CASE Fail(j) /\ job[j].kind # "full"
  <2>1. TaskState(j)' = TaskState(j)
    BY <1>1, <1>6, Seen DEF Fail, Reach, TaskState, Job
  <2> QED  BY <1>1, <1>2, <2>1, SameTask DEF Service!vars, Shown
<1> QED  BY <1>3, <1>4, <1>5, <1>6

\* Of the requests only the beat's queues a task.
LEMMA RequestShows ==
    ASSUME Backed, Backed', NEW j \in Jobs, NEW t \in Taxpayers, Request(j, t)
    PROVE  Service!Next \/ UNCHANGED Service!vars
<1>1. TypeOK /\ TypeOK' /\ job \in [Jobs -> Job]
  BY DEF Backed, TypeOK
<1>2. Shown /\ job[j].stage = "free" /\ \A k \in Jobs \ {j} : job'[k] = job[k]
  BY <1>1 DEF Request, AssessRisk, ReceiveUpdate, UpdateTaxpayer, Synchronise, SubmitInvoice,
     QueueAnalysis, ReadRow, Enqueue, Shown
<1>3. TaskState(j) = "none"
  BY <1>2, Seen DEF TaskState
<1>4. CASE QueueAnalysis(j, t)
  <2>1. TaskState(j)' = "pending"
    BY <1>1, <1>4, Seen DEF QueueAnalysis, Enqueue, TaskState, Job
  <2>2. Service!Move(j, "none", "pending")
    BY <1>1, <1>2, <1>3, <2>1, MovesTask
  <2> QED  BY <1>2, <2>2 DEF Service!Next, Service!Queue, Shown
<1>5. CASE ~QueueAnalysis(j, t)
  <2>1. job'[j].kind \in {"assess", "webhook", "patch", "sync", "invoice"}
    <3>1. CASE \E kind \in {"assess", "webhook", "patch", "sync"}, s \in Statuses : ReadRow(j, kind, t, s)
      BY <1>1, <3>1 DEF ReadRow
    <3>2. CASE Enqueue(j, "invoice", t)
      BY <1>1, <3>2 DEF Enqueue, Job
    <3>3. status[t] \in Statuses
      BY <1>1 DEF TypeOK
    <3> QED
      BY <1>5, <3>1, <3>2, <3>3 DEF Request, AssessRisk, ReceiveUpdate, UpdateTaxpayer, Synchronise, SubmitInvoice
  <2>2. TaskState(j)' = "none"
    BY <2>1, Seen DEF TaskState
  <2> QED  BY <1>1, <1>2, <1>3, <2>2, SameTask DEF Service!vars, Shown
<1> QED  BY <1>4, <1>5

\* The beat and a crash of the API touch no task that is queued.
LEMMA RestShows ==
    ASSUME Backed, Backed',
           \/ \E S \in SUBSET Taxpayers : SelectHighRisk(S)
           \/ Beat \/ FinishBeat \/ CrashBeat \/ FailBeat \/ CrashApi
    PROVE  UNCHANGED Service!vars
<1>1. job \in [Jobs -> Job]
  BY DEF Backed, TypeOK
<1>2. \A k \in Jobs : TaskState(k)' = TaskState(k)
  <2>1. CASE CrashApi
    <3>1. ASSUME NEW k \in Jobs, job[k].kind = "full"  PROVE TaskState(k)' = TaskState(k)
      BY <2>1, <3>1 DEF CrashApi, TaskState
    <3>2. ASSUME NEW k \in Jobs, job[k].kind # "full"  PROVE TaskState(k)' = TaskState(k)
      <4>1. job'[k].kind = job[k].kind
        BY <1>1, <2>1 DEF CrashApi, Job
      <4> QED  BY <3>2, <4>1, Seen DEF TaskState
    <3> QED  BY <3>1, <3>2
  <2>2. CASE job' = job
    BY <2>2 DEF TaskState
  <2> QED  BY <2>1, <2>2 DEF SelectHighRisk, Beat, FinishBeat, CrashBeat, FailBeat
<1>3. Shown
  BY DEF SelectHighRisk, Beat, FinishBeat, CrashBeat, FailBeat, CrashApi, Shown
<1> QED  BY <1>2, <1>3 DEF TaskStates, Service!vars, Shown

\* The weekly scan adds alerts for several taxpayers, and no total counts them.
LEMMA ScanShows ==
    ASSUME Backed, Backed', WeeklyScan
    PROVE  Service!Next \/ UNCHANGED Service!vars
<1>1. UNCHANGED <<total, job>> /\ (rows' = rows \/ CommitScan)
  BY ScanTouches
<1>2. TaskStates' = TaskStates
  BY <1>1 DEF TaskStates, TaskState
<1>3. CASE rows' = rows
  BY <1>1, <1>2, <1>3 DEF Service!vars
<1>4. CASE CommitScan
  <2>1. /\ \A t \in Taxpayers : rows'[t] >= rows[t]
        /\ \A t \in Taxpayers : total'[t] <= rows'[t]
    BY <1>4 DEF CommitScan, Backed, TypeOK, NeverOverCounted
  <2>2. Service!Add(Taxpayers)
    BY <2>1 DEF Service!Add
  <2> QED  BY <1>2, <2>2 DEF Service!Next, Service!Other
<1> QED  BY <1>1, <1>3, <1>4

-----------------------------------------------------------------------------
(* The refinement.                                                         *)

LEMMA StartShows == Init => Service!Init
<1> SUFFICES ASSUME Init PROVE Service!Init
  OBVIOUS
<1>1. \A j \in Jobs : TaskState(j) = "none"
  BY Seen DEF Init, TaskState
<1> QED  BY <1>1 DEF Init, TaskStates, Service!Init

LEMMA StepShows == Backed /\ Backed' /\ [Next]_vars => [Service!Next]_(Service!vars)
<1> SUFFICES ASSUME Backed, Backed', [Next]_vars
             PROVE  Service!Next \/ UNCHANGED Service!vars
  OBVIOUS
<1>1. CASE UNCHANGED vars
  <2>1. \A k \in Jobs : TaskState(k)' = TaskState(k)
    BY <1>1 DEF vars, TaskState
  <2> QED  BY <1>1, <2>1 DEF vars, TaskStates, Service!vars
<1>2. CASE Next
  BY <1>2, ProgressShows, FaultShows, RequestShows, RestShows, ScanShows DEF Next
<1> QED  BY <1>1, <1>2

\* Overlapping sessions, stale totals, worker crashes and redelivery keep
\* what AssessmentService promises: a queued analysis is stored before it is
\* done, a stored one is never lost, alerts are never taken back, and the
\* total shown never exceeds them.
THEOREM SessionsImplementService == Spec => Service!Safety
<1>1. Spec => []Backed
  BY InitBacked, StepBacked, PTL DEF Spec
<1> QED  BY <1>1, StartShows, StepShows, PTL DEF Spec, Service!Safety
=============================================================================
