------------------------ MODULE RiskAssessmentProofs ------------------------
(***************************************************************************)
(* What RiskAssessment guarantees for any taxpayers, sessions, verdicts of *)
(* the engine and numbers of faults: its types, that total_alerts never    *)
(* claims more alerts than the table holds, and which alerts both hold.    *)
(*                                                                         *)
(* The counter is written from a total that was read some time ago, so     *)
(* NeverOverCounted alone is not inductive: a session could hold a total   *)
(* that no rows back.  ReadTotalsBacked adds what every session in flight  *)
(* has read, and it survives the others' commits because alert rows are    *)
(* only ever inserted.                                                     *)
(***************************************************************************)
EXTENDS RiskAssessment, FoldFacts, FiniteSetTheorems, TLAPS

USE DEF table

-----------------------------------------------------------------------------
(* Type correctness.                                                       *)

\* The row a session reads is one of the taxpayers table.
LEMMA ReadRowType ==
    ASSUME TypeOK, NEW j \in Jobs, NEW kind \in Kinds, NEW t \in Taxpayers,
           NEW want \in Statuses, ReadRow(j, kind, t, want)
    PROVE  job' \in [Jobs -> Job] /\ overlapped' \in [Taxpayers -> BOOLEAN]
<1>1. [kind |-> kind, tin |-> t, stage |-> "loaded", want |-> want,
       row |-> RowOf(t), found |-> Nothing] \in Job
  BY DEF TypeOK, Job, Rows, RowOf, Stages, Findings, Nothing
<1>2. job' \in [Jobs -> Job]
  BY <1>1 DEF TypeOK, ReadRow
<1>3. overlapped' \in [Taxpayers -> BOOLEAN]
  BY DEF TypeOK, ReadRow
<1> QED  BY <1>2, <1>3

\* A session that only moves on to another stage keeps its type.
LEMMA ReachType ==
    ASSUME TypeOK, NEW j \in Jobs, NEW stage \in Stages, Reach(j, stage)
    PROVE  job' \in [Jobs -> Job]
<1>1. NewRow \in Rows
  BY StatusAssumption DEF NewRow, Rows
<1> QED  BY <1>1 DEF TypeOK, Reach, Job

\* The weekly scan touches no row of the taxpayers table and no session.
LEMMA ScanTouches ==
    ASSUME WeeklyScan
    PROVE  /\ UNCHANGED <<status, risk, total, evidence, job, beat, overlapped>>
           /\ rows' = rows \/ CommitScan
BY DEF WeeklyScan, TestSellers, CommitScan, AcknowledgeScan, CrashScan, FailScan

\* A fault counted is a number of faults still.
LEMMA FaultType ==
    ASSUME TypeOK
    PROVE  /\ [faults EXCEPT !.worker = @ + 1] \in Faults
           /\ [faults EXCEPT !.api = @ + 1] \in Faults
           /\ [faults EXCEPT !.failure = @ + 1] \in Faults
BY DEF TypeOK, Faults

\* A free job that becomes a queued task keeps its type.
LEMMA QueueType ==
    ASSUME TypeOK, NEW j \in Jobs, NEW kind \in Kinds, NEW t \in Taxpayers,
           Enqueue(j, kind, t)
    PROVE  job' \in [Jobs -> Job]
<1>1. [job[j] EXCEPT !.kind = kind, !.tin = t, !.stage = "queued"] \in Job
  BY DEF TypeOK, Job, Stages
<1> QED  BY <1>1 DEF TypeOK, Enqueue

\* What the commits write has the type of its column.
LEMMA CommitType ==
    ASSUME TypeOK, NEW j \in Jobs
    PROVE  /\ InsertAlerts(j) => rows' \in [Taxpayers -> Nat]
           /\ WriteScore(j) => risk' \in [Taxpayers -> Nat]
           /\ NewTotal(j) \in Nat
<1>1. /\ job[j].tin \in Taxpayers
      /\ job[j].found.alerts \in Nat /\ job[j].found.score \in Nat
      /\ job[j].row.total \in Nat /\ job[j].row.risk \in Nat
  BY DEF TypeOK, Job, Findings, Rows
<1>2. InsertAlerts(j) => rows' \in [Taxpayers -> Nat]
  BY <1>1 DEF TypeOK, InsertAlerts
<1>3. WriteScore(j) => risk' \in [Taxpayers -> Nat]
  BY <1>1 DEF TypeOK, WriteScore, Written
<1>4. NewTotal(j) \in Nat
  BY <1>1 DEF NewTotal
<1> QED  BY <1>2, <1>3, <1>4

LEMMA InitType == Init => TypeOK
<1> SUFFICES ASSUME Init PROVE TypeOK
  OBVIOUS
<1>1. AnyTin \in Taxpayers
  BY TaxpayerAssumption DEF AnyTin
<1>2. job \in [Jobs -> Job]
  BY <1>1, StatusAssumption
  DEF Init, Job, Kinds, Analyses, Scoring, Counting, Stages, Rows, Findings, NewRow, Nothing
<1>3. beat \in BeatTask /\ faults \in Faults /\ scan \in ScanTask
  BY DEF Init, BeatTask, Faults, ScanTask
<1> QED
  BY <1>2, <1>3, StatusAssumption DEF Init, TypeOK

LEMMA StepType == TypeOK /\ [Next]_vars => TypeOK'
<1> SUFFICES ASSUME TypeOK, [Next]_vars PROVE TypeOK'
  OBVIOUS
<1>k. Kinds = {"assess", "full", "reassess", "invoice", "webhook", "patch", "sync", "none"}
  BY DEF Kinds, Analyses, Scoring, Counting, StatusWriters
<1>1. ASSUME NEW j \in Jobs, Progress(j)  PROVE TypeOK'
  <2>1. CASE Load(j)
    <3>1. job[j].kind \in Kinds /\ job[j].tin \in Taxpayers /\ job[j].want \in Statuses
      BY DEF TypeOK, Job
    <3>2. job' \in [Jobs -> Job] /\ overlapped' \in [Taxpayers -> BOOLEAN]
      BY <2>1, <3>1, ReadRowType DEF Load
    <3> QED  BY <2>1, <3>2 DEF Load, TypeOK
  <2>2. CASE Analyse(j)
    <3>1. <<job[j].kind, job[j].row.status, evidence[job[j].tin]>>
            \in Analyses \X Statuses \X Evidence
      BY <2>2 DEF Analyse, TypeOK, Job, Rows
    <3>2. EngineVerdict(j) \in Findings
      BY <3>1, VerdictAssumption DEF EngineVerdict
    <3>3. job' \in [Jobs -> Job]
      BY <2>2, <3>2 DEF Analyse, TypeOK, Job, Stages
    <3> QED  BY <2>2, <3>3 DEF Analyse, TypeOK
  <2>3. CASE CommitAssessment(j)
    <3>1. job' \in [Jobs -> Job]
      BY <2>3, ReachType DEF CommitAssessment, Stages
    <3>2. rows' \in [Taxpayers -> Nat] /\ risk' \in [Taxpayers -> Nat]
      BY <2>3, CommitType DEF CommitAssessment
    <3>3. total' \in [Taxpayers -> Nat]
      BY <2>3, CommitType DEF CommitAssessment, TypeOK, Written
    <3> QED  BY <2>3, <3>1, <3>2, <3>3 DEF CommitAssessment, WriteScore, TypeOK
  <2>4. CASE CommitReassessment(j)
    <3>1. job' \in [Jobs -> Job]
      BY <2>4, ReachType DEF CommitReassessment, Stages
    <3>2. rows' \in [Taxpayers -> Nat] /\ risk' \in [Taxpayers -> Nat]
      BY <2>4, CommitType DEF CommitReassessment
    <3> QED  BY <2>4, <3>1, <3>2 DEF CommitReassessment, WriteScore, TypeOK
  <2>5. CASE CommitInvoiceAnalysis(j)
    <3>1. job' \in [Jobs -> Job]
      BY <2>5, ReachType DEF CommitInvoiceAnalysis, Stages
    <3>2. rows' \in [Taxpayers -> Nat]
      BY <2>5, CommitType DEF CommitInvoiceAnalysis
    <3> QED  BY <2>5, <3>1, <3>2 DEF CommitInvoiceAnalysis, TypeOK
  <2>6. CASE CommitStatus(j)
    <3>1. status' \in [Taxpayers -> Statuses]
      BY <2>6 DEF CommitStatus, NewStatus, Written, TypeOK, Job
    <3>2. CASE job[j].kind = "webhook"
      <4>1. job' \in [Jobs -> Job]
        BY <2>6, <3>2, <1>k, StatusAssumption
        DEF CommitStatus, Background, TypeOK, Job, Stages, NewRow, Rows
      <4> QED  BY <2>6, <3>1, <4>1 DEF CommitStatus, TypeOK
    <3>3. CASE job[j].kind # "webhook"
      <4>1. job' \in [Jobs -> Job]
        BY <2>6, <3>3, ReachType DEF CommitStatus, Stages
      <4> QED  BY <2>6, <3>1, <4>1 DEF CommitStatus, TypeOK
    <3> QED  BY <3>2, <3>3
  <2>7. CASE Acknowledge(j)
    <3>1. job' \in [Jobs -> Job]
      BY <2>7, ReachType DEF Acknowledge, Stages
    <3> QED  BY <2>7, <3>1 DEF Acknowledge, TypeOK
  <2> QED  BY <1>1, <2>1, <2>2, <2>3, <2>4, <2>5, <2>6, <2>7 DEF Progress, Commit
<1>2. ASSUME NEW j \in Jobs, CrashWorker(j)  PROVE TypeOK'
  <2>1. job' \in [Jobs -> Job]
    BY <1>2, ReachType DEF CrashWorker, Redeliver, Stages
  <2>2. faults' \in Faults
    BY <1>2, FaultType DEF CrashWorker
  <2> QED  BY <1>2, <2>1, <2>2 DEF CrashWorker, TypeOK
<1>3. ASSUME NEW j \in Jobs, Fail(j)  PROVE TypeOK'
  <2>1. job' \in [Jobs -> Job]
    BY <1>3, ReachType DEF Fail, Stages
  <2>2. faults' \in Faults
    BY <1>3, FaultType DEF Fail
  <2> QED  BY <1>3, <2>1, <2>2 DEF Fail, TypeOK
<1>4. ASSUME NEW j \in Jobs, NEW t \in Taxpayers, Request(j, t)  PROVE TypeOK'
  <2>1. CASE AssessRisk(j, t)
    <3>1. status[t] \in Statuses
      BY DEF TypeOK
    <3>2. job' \in [Jobs -> Job] /\ overlapped' \in [Taxpayers -> BOOLEAN]
      BY <2>1, <3>1, <1>k, ReadRowType DEF AssessRisk
    <3> QED  BY <2>1, <3>2 DEF AssessRisk, TypeOK
  <2>2. ASSUME NEW s \in Statuses, ReceiveUpdate(j, t, s)  PROVE TypeOK'
    <3>1. job' \in [Jobs -> Job] /\ overlapped' \in [Taxpayers -> BOOLEAN]
      BY <2>2, <1>k, ReadRowType DEF ReceiveUpdate
    <3> QED  BY <2>2, <3>1 DEF ReceiveUpdate, TypeOK
  <2>3. ASSUME NEW s \in Statuses, UpdateTaxpayer(j, t, s)  PROVE TypeOK'
    <3>1. job' \in [Jobs -> Job] /\ overlapped' \in [Taxpayers -> BOOLEAN]
      BY <2>3, <1>k, ReadRowType DEF UpdateTaxpayer
    <3> QED  BY <2>3, <3>1 DEF UpdateTaxpayer, TypeOK
  <2>4. ASSUME NEW s \in Statuses, Synchronise(j, t, s)  PROVE TypeOK'
    <3>1. job' \in [Jobs -> Job] /\ overlapped' \in [Taxpayers -> BOOLEAN]
      BY <2>4, <1>k, ReadRowType DEF Synchronise
    <3> QED  BY <2>4, <3>1 DEF Synchronise, TypeOK
  <2>5. ASSUME NEW e \in Evidence, SubmitInvoice(j, t, e)  PROVE TypeOK'
    <3>1. job' \in [Jobs -> Job]
      BY <2>5, <1>k, QueueType DEF SubmitInvoice
    <3> QED  BY <2>5, <3>1 DEF SubmitInvoice, TypeOK
  <2>6. CASE QueueAnalysis(j, t)
    <3>1. job' \in [Jobs -> Job]
      BY <2>6, <1>k, QueueType DEF QueueAnalysis
    <3>2. beat' \in BeatTask
      BY <2>6 DEF QueueAnalysis, TypeOK, BeatTask
    <3> QED  BY <2>6, <3>1, <3>2 DEF QueueAnalysis, TypeOK
  <2> QED  BY <1>4, <2>1, <2>2, <2>3, <2>4, <2>5, <2>6 DEF Request
<1>5. ASSUME NEW S \in SUBSET Taxpayers, SelectHighRisk(S)  PROVE TypeOK'
  BY <1>5 DEF SelectHighRisk, High, TypeOK, BeatTask
<1>6. ASSUME Beat \/ FinishBeat  PROVE TypeOK'
  <2>1. beat \in BeatTask
    BY DEF TypeOK
  <2>2. CASE Beat
    <3>1. beat.fired + 1 \in Nat
      BY <2>1 DEF BeatTask
    <3>2. beat' \in BeatTask
      BY <2>1, <2>2, <3>1 DEF Beat, BeatTask
    <3> QED  BY <2>2, <3>2 DEF Beat, TypeOK
  <2>3. CASE FinishBeat
    <3>1. beat' \in BeatTask
      BY <2>1, <2>3 DEF FinishBeat, BeatTask
    <3> QED  BY <2>3, <3>1 DEF FinishBeat, TypeOK
  <2> QED  BY <1>6, <2>2, <2>3
<1>7. ASSUME CrashBeat \/ FailBeat  PROVE TypeOK'
  <2>1. beat' \in BeatTask
    BY <1>7 DEF CrashBeat, RedeliverBeat, FailBeat, TypeOK, BeatTask
  <2>2. faults' \in Faults
    BY <1>7, FaultType DEF CrashBeat, FailBeat
  <2> QED  BY <1>7, <2>1, <2>2 DEF CrashBeat, FailBeat, TypeOK
<1>8. ASSUME CrashApi  PROVE TypeOK'
  <2>1. job' \in [Jobs -> Job]
    <3>1. \A j \in Jobs : [job[j] EXCEPT !.stage = "failed", !.row = NewRow] \in Job
      BY StatusAssumption DEF TypeOK, Job, Stages, NewRow, Rows
    <3> QED  BY <1>8, <3>1 DEF CrashApi, TypeOK
  <2>2. faults' \in Faults
    BY <1>8, FaultType DEF CrashApi
  <2> QED  BY <1>8, <2>1, <2>2 DEF CrashApi, TypeOK
<1>9. ASSUME WeeklyScan  PROVE TypeOK'
  <2>1. UNCHANGED <<status, risk, total, evidence, job, beat, overlapped>>
    BY <1>9, ScanTouches
  <2>2. rows' \in [Taxpayers -> Nat]
    BY <1>9, ScanTouches DEF CommitScan, TypeOK
  <2>3. faults' \in Faults
    BY <1>9, FaultType
    DEF WeeklyScan, TestSellers, CommitScan, AcknowledgeScan, CrashScan, FailScan, TypeOK
  <2>4. scan' \in ScanTask
    <3>1. scan \in ScanTask /\ scan.fired + 1 \in Nat
      BY DEF TypeOK, ScanTask
    <3>2. ASSUME NEW S \in SUBSET Taxpayers, TestSellers(S)  PROVE scan' \in ScanTask
      BY <3>1, <3>2 DEF TestSellers, ScanTask
    <3>3. CASE CommitScan
      <4>1. [t \in Taxpayers |-> scan.raised[t] + (IF t \in scan.found THEN 1 ELSE 0)]
              \in [Taxpayers -> Nat]
        BY <3>1 DEF ScanTask
      <4> QED  BY <3>1, <3>3, <4>1 DEF CommitScan, ScanTask
    <3>4. CASE AcknowledgeScan \/ CrashScan \/ FailScan
      BY <3>1, <3>4 DEF AcknowledgeScan, CrashScan, FailScan, ScanTask
    <3> QED  BY <1>9, <3>2, <3>3, <3>4 DEF WeeklyScan
  <2> QED  BY <2>1, <2>2, <2>3, <2>4 DEF TypeOK
<1>10. CASE UNCHANGED vars
  BY <1>10 DEF vars, TypeOK
<1> QED
  BY <1>1, <1>2, <1>3, <1>4, <1>5, <1>6, <1>7, <1>8, <1>9, <1>10 DEF Next

\* Every reachable state has the types TypeOK states.
THEOREM TypeCorrect == Spec => []TypeOK
BY InitType, StepType, PTL DEF Spec

-----------------------------------------------------------------------------
(* The counter.                                                            *)

Backed == TypeOK /\ NeverOverCounted /\ ReadTotalsBacked

\* The table only gains alerts.
LEMMA InsertsOnly ==
    ASSUME TypeOK, [Next]_vars, NEW t \in Taxpayers
    PROVE  rows'[t] \in Nat /\ rows[t] <= rows'[t]
<1>1. \A j \in Jobs : InsertAlerts(j) => rows'[t] \in Nat /\ rows[t] <= rows'[t]
  BY DEF InsertAlerts, TypeOK, Job, Findings
<1>2. CASE rows' = rows
  BY <1>2 DEF TypeOK
<1>3. CASE \E j \in Jobs : Commit(j)
  BY <1>1, <1>3 DEF Commit, CommitAssessment, CommitReassessment, CommitInvoiceAnalysis
<1>4. CASE CommitScan
  BY <1>4 DEF CommitScan, TypeOK
<1>5. rows' = rows \/ CommitScan \/ \E j \in Jobs : Commit(j)
  BY ScanTouches
     DEF Next, Progress, Request, Load, ReadRow, Analyse, CommitStatus, Acknowledge,
         CrashWorker, Fail, AssessRisk, ReceiveUpdate, UpdateTaxpayer, Synchronise, SubmitInvoice,
         QueueAnalysis, SelectHighRisk, Beat, FinishBeat, CrashBeat, FailBeat,
         CrashApi, vars
<1> QED  BY <1>2, <1>3, <1>4, <1>5

\* A step leaves what a session has read alone, or reads the row anew.
LEMMA ReadsAreCurrentOrKept ==
    ASSUME TypeOK, [Next]_vars, NEW j \in Jobs, InFlight(j)'
    PROVE  \/ InFlight(j) /\ job'[j].row = job[j].row /\ job'[j].tin = job[j].tin
           \/ job'[j].row.total = total[job'[j].tin] /\ job'[j].tin \in Taxpayers
<1> DEFINE Kept == InFlight(j) /\ job'[j].row = job[j].row /\ job'[j].tin = job[j].tin
           Anew == job'[j].row.total = total[job'[j].tin] /\ job'[j].tin \in Taxpayers
<1>1. ASSUME NEW k \in Jobs, NEW kind, NEW t \in Taxpayers, NEW want,
             ReadRow(k, kind, t, want)
      PROVE  Kept \/ Anew
  BY <1>1 DEF ReadRow, RowOf, InFlight, TypeOK
<1>2. ASSUME NEW k \in Jobs, NEW stage, Reach(k, stage), stage \notin {"loaded", "analysed"}
      PROVE  Kept \/ Anew
  BY <1>2 DEF Reach, InFlight, TypeOK, Job
<1>3. ASSUME NEW k \in Jobs, NEW kind, NEW t, Enqueue(k, kind, t)
      PROVE  Kept \/ Anew
  BY <1>3 DEF Enqueue, InFlight, TypeOK, Job
<1>4. ASSUME NEW k \in Jobs, Progress(k)  PROVE Kept \/ Anew
  <2>1. CASE Load(k)
    <3>1. job[k].tin \in Taxpayers
      BY DEF TypeOK, Job
    <3> QED  BY <2>1, <3>1, <1>1 DEF Load
  <2>2. CASE Analyse(k)
    BY <2>2 DEF Analyse, InFlight, TypeOK, Job
  <2>3. CASE Commit(k)
    BY <2>3, <1>2 DEF Commit, CommitAssessment, CommitReassessment, CommitInvoiceAnalysis
  <2>4. CASE CommitStatus(k)
    <3>1. CASE Background(k)
      BY <3>1 DEF Background, InFlight, TypeOK, Job
    <3> QED  BY <2>4, <3>1, <1>2 DEF CommitStatus
  <2>5. CASE Acknowledge(k)
    BY <2>5, <1>2 DEF Acknowledge
  <2> QED  BY <1>4, <2>1, <2>2, <2>3, <2>4, <2>5 DEF Progress
<1>5. ASSUME NEW k \in Jobs, CrashWorker(k) \/ Fail(k)  PROVE Kept \/ Anew
  BY <1>5, <1>2 DEF CrashWorker, Redeliver, Fail
<1>6. ASSUME NEW k \in Jobs, NEW t \in Taxpayers, Request(k, t)  PROVE Kept \/ Anew
  BY <1>6, <1>1, <1>3
  DEF Request, AssessRisk, ReceiveUpdate, UpdateTaxpayer, Synchronise,
       SubmitInvoice, QueueAnalysis
<1>7. ASSUME CrashApi  PROVE Kept \/ Anew
  BY <1>7 DEF CrashApi, InFlight, TypeOK, Job
<1>8. CASE job' = job
  BY <1>8 DEF InFlight
<1>9. CASE \/ \E S \in SUBSET Taxpayers : SelectHighRisk(S)
           \/ Beat \/ FinishBeat \/ CrashBeat \/ FailBeat \/ WeeklyScan \/ UNCHANGED vars
  BY <1>8, <1>9, ScanTouches DEF SelectHighRisk, Beat, FinishBeat, CrashBeat, FailBeat, vars
<1> QED
  BY <1>4, <1>5, <1>6, <1>7, <1>9 DEF Next

\* A step leaves a counter alone, or sets it to what a session in flight had
\* read plus the alerts that the same step inserts.
LEMMA TotalStep ==
    ASSUME TypeOK, [Next]_vars, NEW t \in Taxpayers
    PROVE  \/ total'[t] = total[t]
           \/ \E j \in Jobs : /\ InFlight(j) /\ job[j].tin = t
                              /\ total'[t] = NewTotal(j)
                              /\ InsertAlerts(j)
<1>1. CASE \E j \in Jobs : CommitAssessment(j)
  BY <1>1 DEF CommitAssessment, Written, InFlight, TypeOK
<1>2. total' = total \/ \E j \in Jobs : CommitAssessment(j)
  BY ScanTouches
     DEF Next, Progress, Commit, CommitReassessment, CommitInvoiceAnalysis, Request,
         Load, Analyse, CommitStatus, Acknowledge, CrashWorker, Fail, AssessRisk,
         ReceiveUpdate, UpdateTaxpayer, Synchronise, SubmitInvoice, QueueAnalysis, SelectHighRisk,
         Beat, FinishBeat, CrashBeat, FailBeat, CrashApi, vars
<1> QED  BY <1>1, <1>2

LEMMA InitBacked == Init => Backed
<1> SUFFICES ASSUME Init PROVE NeverOverCounted /\ ReadTotalsBacked
  BY InitType DEF Backed
<1> QED  BY DEF Init, NeverOverCounted, ReadTotalsBacked, InFlight

LEMMA StepBacked == Backed /\ [Next]_vars => Backed'
<1> SUFFICES ASSUME Backed, [Next]_vars PROVE Backed'
  OBVIOUS
<1>1. TypeOK /\ TypeOK'
  BY StepType DEF Backed
<1>2. ASSUME NEW t \in Taxpayers  PROVE total'[t] <= rows'[t]
  <2>1. CASE total'[t] = total[t]
    BY <2>1, <1>1, InsertsOnly DEF Backed, NeverOverCounted, TypeOK
  <2>2. ASSUME NEW j \in Jobs, InFlight(j), job[j].tin = t,
               total'[t] = NewTotal(j), InsertAlerts(j)
        PROVE  total'[t] <= rows'[t]
    <3>1. rows'[t] = rows[t] + job[j].found.alerts
      BY <2>2, <1>1 DEF InsertAlerts, TypeOK
    <3>2. job[j].row.total <= rows[t]
      BY <2>2 DEF Backed, ReadTotalsBacked
    <3>3. /\ job[j].row.total \in Nat /\ job[j].found.alerts \in Nat
          /\ rows[t] \in Nat
      BY <1>1 DEF TypeOK, Job, Rows, Findings
    <3> QED  BY <2>2, <3>1, <3>2, <3>3 DEF NewTotal
  <2> QED  BY <1>1, <2>1, <2>2, TotalStep
<1>3. ASSUME NEW j \in Jobs, InFlight(j)'
      PROVE  job'[j].row.total <= rows'[job'[j].tin]
  <2>1. job'[j].tin \in Taxpayers /\ job'[j].row.total \in Nat
    BY <1>1 DEF TypeOK, Job, Rows
  <2>2. /\ rows'[job'[j].tin] \in Nat /\ rows[job'[j].tin] \in Nat
        /\ rows[job'[j].tin] <= rows'[job'[j].tin]
    BY <1>1, <2>1, InsertsOnly DEF TypeOK
  <2>3. CASE InFlight(j) /\ job'[j].row = job[j].row /\ job'[j].tin = job[j].tin
    <3>1. job[j].row.total <= rows[job[j].tin]
      BY <2>3 DEF Backed, ReadTotalsBacked
    <3> QED  BY <2>1, <2>2, <2>3, <3>1
  <2>4. CASE job'[j].row.total = total[job'[j].tin]
    <3>1. total[job'[j].tin] <= rows[job'[j].tin]
      BY <2>1 DEF Backed, NeverOverCounted
    <3> QED  BY <2>1, <2>2, <2>4, <3>1
  <2> QED  BY <1>1, <1>3, <2>3, <2>4, ReadsAreCurrentOrKept
<1> QED  BY <1>1, <1>2, <1>3 DEF Backed, NeverOverCounted, ReadTotalsBacked, InFlight

\* total_alerts never exceeds the alerts in the table, for any interleaving
\* of sessions and any number of crashes, redeliveries and failures.
THEOREM CounterNeverOverCounts == Spec => []NeverOverCounted
<1>1. Backed => NeverOverCounted
  BY DEF Backed
<1> QED  BY <1>1, InitBacked, StepBacked, PTL DEF Spec

\* ... for no session in flight holds a total the table does not back.
THEOREM ReadTotalsStayBacked == Spec => []ReadTotalsBacked
<1>1. Backed => ReadTotalsBacked
  BY DEF Backed
<1> QED  BY <1>1, InitBacked, StepBacked, PTL DEF Spec

-----------------------------------------------------------------------------
(* The status.                                                             *)

\* No analysis writes back the status it read.
THEOREM StatusChangesByRequest == Spec => StatusOnlyByRequest
<1>1. ASSUME TypeOK, Next
      PROVE  [\A t \in Taxpayers : status'[t] # status[t] =>
                \E j \in Jobs : /\ job[j].kind \in StatusWriters
                               /\ job[j].tin = t /\ job[j].want = status'[t]
                               /\ job'[j].stage # job[j].stage]_status
  <2>1. status' = status \/ \E j \in Jobs : CommitStatus(j)
    BY <1>1, ScanTouches
       DEF Next, Progress, Commit, CommitAssessment, CommitReassessment, WriteScore,
       CommitInvoiceAnalysis, Request, Load, Analyse, Acknowledge, CrashWorker, Fail,
       AssessRisk, ReceiveUpdate, UpdateTaxpayer, Synchronise, SubmitInvoice, QueueAnalysis,
       SelectHighRisk, Beat, FinishBeat, CrashBeat, FailBeat, CrashApi
  <2>2. ASSUME NEW j \in Jobs, CommitStatus(j), NEW t \in Taxpayers, status'[t] # status[t]
        PROVE  /\ job[j].kind \in StatusWriters
               /\ job[j].tin = t /\ job[j].want = status'[t]
               /\ job'[j].stage # job[j].stage
    <3>1. job'[j].stage # job[j].stage
      BY <1>1, <2>2 DEF CommitStatus, Background, Reach, TypeOK, Job
    <3>2. job[j].tin = t /\ job[j].want = status'[t]
      BY <1>1, <2>2 DEF CommitStatus, NewStatus, Written, TypeOK
    <3> QED  BY <2>2, <3>1, <3>2 DEF CommitStatus
  <2> QED  BY <2>1, <2>2
<1>2. TypeOK /\ [Next]_vars
      => [\A t \in Taxpayers : status'[t] # status[t] =>
                \E j \in Jobs : /\ job[j].kind \in StatusWriters
                               /\ job[j].tin = t /\ job[j].want = status'[t]
                               /\ job'[j].stage # job[j].stage]_status
  BY <1>1 DEF vars
<1> QED  BY <1>2, TypeCorrect, PTL DEF Spec, StatusOnlyByRequest

-----------------------------------------------------------------------------
(* The beat.                                                               *)

\* What a beat has selected is sent or to be sent, through redelivery.
Sending ==
    /\ beat.stage = "idle" => beat.high \subseteq beat.sent
    /\ beat.stage = "sending" => beat.high \subseteq beat.sent \cup beat.todo

LEMMA SelectsAll ==
    ASSUME IsFiniteSet(Taxpayers), Cardinality(Taxpayers) <= Limit,
           NEW S \in SUBSET High, Cardinality(S) = Min({Limit, Cardinality(High)})
    PROVE  S = High
<1>1. /\ IsFiniteSet(High) /\ Cardinality(High) <= Cardinality(Taxpayers)
      /\ Cardinality(High) \in Nat /\ Cardinality(Taxpayers) \in Nat
  BY FS_Subset, FS_CardinalityType DEF High
<1>2. Cardinality(High) <= Limit /\ Limit \in Nat
  BY <1>1, BoundAssumption
<1>3. Min({Limit, Cardinality(High)}) = Cardinality(High)
  <2> DEFINE n == Cardinality(High)
             M == {Limit, n}
  <2>1. n \in M /\ \A y \in M : n <= y
    BY <1>1, <1>2
  <2>2. Min(M) \in M /\ \A y \in M : Min(M) <= y
    BY <2>1 DEF Min
  <2> HIDE DEF n
  <2>3. Min(M) \in Nat /\ n \in Nat
    BY <1>1, <1>2, <2>2 DEF n
  <2>4. Min(M) <= n /\ n <= Min(M)
    BY <2>1, <2>2
  <2> QED  BY <2>3, <2>4 DEF n
<1> QED  BY <1>1, <1>3, FS_Subset

\* If the high-risk taxpayers are within the limit, a beat that has ended
\* without failure has sent them all, however often its worker died.
THEOREM BeatSendsAll ==
    ASSUME IsFiniteSet(Taxpayers), Cardinality(Taxpayers) <= Limit
    PROVE  Spec => []AllHighRiskSent
<1>1. Init => Sending
  BY DEF Init, Sending
<1>2. TypeOK /\ Sending /\ [Next]_vars => Sending'
  <2> SUFFICES ASSUME TypeOK, Sending, [Next]_vars PROVE Sending'
    OBVIOUS
  <2>t. beat \in BeatTask
    BY DEF TypeOK
  <2>1. CASE beat' = beat
    BY <2>1 DEF Sending
  <2>2. CASE Beat \/ CrashBeat \/ FailBeat \/ FinishBeat
    BY <2>2, <2>t DEF Beat, CrashBeat, RedeliverBeat, FailBeat, FinishBeat, BeatTask, Sending
  <2>3. ASSUME NEW S \in SUBSET Taxpayers, SelectHighRisk(S)  PROVE Sending'
    <3>1. S = High
      BY <2>3, SelectsAll DEF SelectHighRisk
    <3> QED  BY <2>3, <2>t, <3>1 DEF SelectHighRisk, BeatTask, Sending
  <2>4. ASSUME NEW j \in Jobs, NEW t \in Taxpayers, QueueAnalysis(j, t)  PROVE Sending'
    BY <2>4, <2>t DEF QueueAnalysis, BeatTask, Sending
  <2>5. \/ beat' = beat \/ Beat \/ CrashBeat \/ FailBeat \/ FinishBeat
        \/ \E S \in SUBSET Taxpayers : SelectHighRisk(S)
        \/ \E j \in Jobs, t \in Taxpayers : QueueAnalysis(j, t)
    BY ScanTouches
       DEF Next, Progress, Commit, CommitAssessment, CommitReassessment,
           CommitInvoiceAnalysis, CommitStatus, Request, Load, Analyse, Acknowledge,
           CrashWorker, Fail, AssessRisk, ReceiveUpdate, UpdateTaxpayer, Synchronise, SubmitInvoice,
           CrashApi, vars
  <2> QED  BY <2>1, <2>2, <2>3, <2>4, <2>5
<1>3. Sending => AllHighRiskSent
  BY DEF Sending, AllHighRiskSent
<1> QED  BY <1>1, <1>2, <1>3, TypeCorrect, PTL DEF Spec

-----------------------------------------------------------------------------
(* The score of a pushed status.                                           *)

\* What every step is, for the columns of the taxpayers and the sessions: a
\* read, an analysis, a commit, or a step that ends sessions or queues jobs
\* and leaves the columns alone.
Reads(j) ==
    \E kind, want : \E t \in Taxpayers :
        /\ ReadRow(j, kind, t, want)
        /\ \/ job[j].stage = "free" /\ kind \in {"assess", "webhook", "patch", "sync"}
           \/ job[j].stage = "queued" /\ kind = job[j].kind /\ t = job[j].tin
        /\ UNCHANGED <<status, risk, total>>

Scores(j) ==
    /\ job[j].stage = "analysed" /\ job[j].kind \in Scoring
    /\ WriteScore(j)
    /\ \A t \in Taxpayers : t # job[j].tin => total'[t] = total[t]
    /\ \E stage \in {"committed", "done"} :
           Reach(j, stage) /\ (stage = "committed" => job[j].kind = "full")
    /\ UNCHANGED overlapped

\* Job k waits, has failed or is done, and that it is done makes no
\* re-assessment of it.
Rests(k) ==
    \/ job'[k] = job[k]
    \/ /\ job'[k].stage \in {"queued", "failed"}
       /\ job'[k].kind = job[k].kind /\ job'[k].tin = job[k].tin
    \/ /\ job'[k].stage = "done" /\ job[k].stage = "committed"
       /\ job'[k].kind = job[k].kind /\ job'[k].tin = job[k].tin
    \/ /\ job'[k].stage = "done" /\ job[k].kind = "invoice" /\ job'[k].kind = "invoice"
    \/ /\ job[k].stage = "free" /\ job'[k].kind \in {"full", "invoice"}
       /\ job'[k].stage = "queued"

RestsAll == UNCHANGED <<status, risk, total, overlapped>> /\ \A k \in Jobs : Rests(k)

LEMMA ReachRests ==
    ASSUME TypeOK, NEW j \in Jobs, NEW stage, Reach(j, stage),
           \/ stage \in {"queued", "failed"}
           \/ stage = "done" /\ (job[j].stage = "committed" \/ job[j].kind = "invoice")
    PROVE  \A k \in Jobs : Rests(k)
BY DEF Reach, Rests, TypeOK, Job

LEMMA EnqueueRests ==
    ASSUME TypeOK, NEW j \in Jobs, NEW kind \in {"full", "invoice"}, NEW t,
           job[j].stage = "free", Enqueue(j, kind, t)
    PROVE  \A k \in Jobs : Rests(k)
BY DEF Enqueue, Rests, TypeOK, Job

LEMMA StepIs ==
    ASSUME TypeOK, [Next]_vars
    PROVE  \/ \E j \in Jobs : Reads(j) \/ Analyse(j) \/ Scores(j) \/ CommitStatus(j)
           \/ RestsAll
<1> DEFINE Is == \/ \E j \in Jobs : Reads(j) \/ Analyse(j) \/ Scores(j) \/ CommitStatus(j)
                 \/ RestsAll
<1>0. CASE UNCHANGED <<status, risk, total, overlapped, job>>
  BY <1>0 DEF RestsAll, Rests
<1>1. ASSUME NEW j \in Jobs, Progress(j)  PROVE Is
  <2>1. CASE Load(j)
    <3>1. job[j].tin \in Taxpayers
      BY DEF TypeOK, Job
    <3>2. Reads(j)
      BY <2>1, <3>1 DEF Load, Reads
    <3> QED  BY <3>2
  <2>2. CASE CommitAssessment(j)
    <3>1. \A t \in Taxpayers : t # job[j].tin => total'[t] = total[t]
      BY <2>2 DEF CommitAssessment, TypeOK
    <3>2. \E stage \in {"committed", "done"} :
             Reach(j, stage) /\ (stage = "committed" => job[j].kind = "full")
      BY <2>2 DEF CommitAssessment
    <3>3. Scores(j)
      BY <2>2, <3>1, <3>2 DEF CommitAssessment, Scores, Scoring
    <3> QED  BY <3>3
  <2>3. CASE CommitReassessment(j)
    <3>1. Scores(j)
      BY <2>3 DEF CommitReassessment, Scores, Scoring
    <3> QED  BY <3>1
  <2>4. CASE CommitInvoiceAnalysis(j)
    <3>1. \A k \in Jobs : Rests(k)
      BY <2>4, ReachRests DEF CommitInvoiceAnalysis
    <3> QED  BY <2>4, <3>1 DEF CommitInvoiceAnalysis, RestsAll
  <2>5. CASE Acknowledge(j)
    <3>1. \A k \in Jobs : Rests(k)
      BY <2>5, ReachRests DEF Acknowledge
    <3> QED  BY <2>5, <3>1 DEF Acknowledge, RestsAll
  <2> QED  BY <1>1, <2>1, <2>2, <2>3, <2>4, <2>5 DEF Progress, Commit
<1>2. ASSUME NEW j \in Jobs, CrashWorker(j) \/ Fail(j)  PROVE Is
  <2>1. \A k \in Jobs : Rests(k)
    BY <1>2, ReachRests DEF CrashWorker, Redeliver, Fail
  <2> QED  BY <1>2, <2>1 DEF CrashWorker, Fail, RestsAll
<1>3. ASSUME NEW j \in Jobs, NEW t \in Taxpayers, Request(j, t)  PROVE Is
  <2>1. CASE AssessRisk(j, t) \/ \E s \in Statuses : ReceiveUpdate(j, t, s)
                                                     \/ UpdateTaxpayer(j, t, s)
                                                     \/ Synchronise(j, t, s)
    <3>1. Reads(j)
      BY <2>1 DEF AssessRisk, ReceiveUpdate, UpdateTaxpayer, Synchronise, Reads
    <3> QED  BY <3>1
  <2>2. CASE QueueAnalysis(j, t) \/ \E e \in Evidence : SubmitInvoice(j, t, e)
    <3>1. \A k \in Jobs : Rests(k)
      BY <2>2, EnqueueRests DEF QueueAnalysis, SubmitInvoice
    <3> QED  BY <2>2, <3>1 DEF QueueAnalysis, SubmitInvoice, RestsAll
  <2> QED  BY <1>3, <2>1, <2>2 DEF Request
<1>4. ASSUME CrashApi  PROVE Is
  <2>1. \A k \in Jobs : Rests(k)
    BY <1>4 DEF CrashApi, Rests, TypeOK, Job
  <2> QED  BY <1>4, <2>1 DEF CrashApi, RestsAll
<1>5. CASE \/ \E S \in SUBSET Taxpayers : SelectHighRisk(S)
           \/ Beat \/ FinishBeat \/ CrashBeat \/ FailBeat \/ WeeklyScan \/ UNCHANGED vars
  BY <1>0, <1>5, ScanTouches
  DEF SelectHighRisk, Beat, FinishBeat, CrashBeat, FailBeat, vars
<1> QED  BY <1>1, <1>2, <1>3, <1>4, <1>5 DEF Next

\* While sessions on a row did not overlap, one holds it at most and what
\* that one has read is current.
Alone ==
    \A j \in Jobs, t \in Taxpayers : Holds(j, t) /\ ~overlapped[t] =>
        /\ job[j].row = RowOf(t)
        /\ \A k \in Jobs \ {j} : ~Holds(k, t)

\* What an analysis has found is the verdict on the status that it read;
\* only a Celery task waits for its acknowledgement, and a free job is of no
\* kind.
Found ==
    \A j \in Jobs :
        /\ job[j].stage = "analysed" =>
              \E e \in Evidence :
                  job[j].found = Verdict[<<job[j].kind, job[j].row.status, e>>]
        /\ job[j].stage = "committed" => job[j].kind = "full"
        /\ job[j].stage = "free" => job[j].kind = "none"

LEMMA StepFound == TypeOK /\ Found /\ [Next]_vars => Found'
<1> SUFFICES ASSUME TypeOK, Found, [Next]_vars PROVE Found'
  OBVIOUS
<1>1. ASSUME NEW j \in Jobs, Reads(j)  PROVE Found'
  <2>1. /\ \A k \in Jobs \ {j} : job'[k] = job[k]
        /\ job'[j].stage = "loaded"
    BY <1>1 DEF Reads, ReadRow, TypeOK
  <2> QED  BY <2>1 DEF Found
<1>2. ASSUME NEW j \in Jobs, Analyse(j)  PROVE Found'
  <2>1. /\ \A k \in Jobs \ {j} : job'[k] = job[k]
        /\ job'[j].stage = "analysed" /\ job'[j].kind = job[j].kind
        /\ job'[j].row = job[j].row /\ job'[j].found = EngineVerdict(j)
    BY <1>2 DEF Analyse, TypeOK, Job
  <2>2. evidence[job[j].tin] \in Evidence
    BY DEF TypeOK, Job
  <2>3. job'[j].found = Verdict[<<job'[j].kind, job'[j].row.status, evidence[job[j].tin]>>]
    BY <2>1 DEF EngineVerdict
  <2>4. ASSUME NEW k \in Jobs, job'[k].stage = "analysed"
        PROVE  \E e \in Evidence :
                   job'[k].found = Verdict[<<job'[k].kind, job'[k].row.status, e>>]
    <3>1. CASE k = j
      BY <2>2, <2>3, <3>1
    <3>2. CASE k # j
      BY <2>1, <2>4, <3>2 DEF Found
    <3> QED  BY <3>1, <3>2
  <2>5. \A k \in Jobs : /\ job'[k].stage = "committed" => job'[k].kind = "full"
                        /\ job'[k].stage = "free" => job'[k].kind = "none"
    BY <2>1 DEF Found
  <2> QED  BY <2>4, <2>5 DEF Found
<1>3. ASSUME NEW j \in Jobs, Scores(j)  PROVE Found'
  <2>1. /\ \A k \in Jobs \ {j} : job'[k] = job[k]
        /\ job'[j].kind = job[j].kind /\ job'[j].stage \in {"committed", "done"}
        /\ job'[j].stage = "committed" => job[j].kind = "full"
    BY <1>3 DEF Scores, Reach, TypeOK, Job
  <2> QED  BY <2>1 DEF Found
<1>4. ASSUME NEW j \in Jobs, CommitStatus(j)  PROVE Found'
  <2>1. /\ \A k \in Jobs \ {j} : job'[k] = job[k]
        /\ job'[j].stage \in {"queued", "done"}
    BY <1>4 DEF CommitStatus, Background, Reach, TypeOK, Job
  <2> QED  BY <2>1 DEF Found
<1>5. CASE RestsAll
  BY <1>5 DEF RestsAll, Rests, Found
<1> QED  BY <1>1, <1>2, <1>3, <1>4, <1>5, StepIs

LEMMA StepAlone == TypeOK /\ Alone /\ [Next]_vars => Alone'
<1> SUFFICES ASSUME TypeOK, Alone, [Next]_vars PROVE Alone'
  OBVIOUS
<1>0. ASSUME NEW j \in Jobs, \A k \in Jobs \ {j} : job'[k] = job[k],
             overlapped' = overlapped, \A t \in Taxpayers : ~Holds(j, t)',
             \A t \in Taxpayers : RowOf(t)' # RowOf(t) => Holds(j, t)
      PROVE  Alone'
  <2>1. \A k \in Jobs \ {j}, t \in Taxpayers : Holds(k, t)' <=> Holds(k, t)
    BY <1>0 DEF Holds, InFlight
  <2>2. ASSUME NEW k \in Jobs, NEW t \in Taxpayers, Holds(k, t)', ~overlapped'[t]
        PROVE  job'[k].row = RowOf(t)' /\ \A i \in Jobs \ {k} : ~Holds(i, t)'
    <3>1. k # j /\ Holds(k, t) /\ job'[k] = job[k] /\ ~overlapped[t]
      BY <1>0, <2>1, <2>2
    <3>2. job[k].row = RowOf(t) /\ \A i \in Jobs \ {k} : ~Holds(i, t)
      BY <3>1 DEF Alone
    <3>3. RowOf(t)' = RowOf(t)
      BY <1>0, <3>1, <3>2
    <3> QED  BY <1>0, <2>1, <3>1, <3>2, <3>3
  <2> QED  BY <2>2 DEF Alone
<1>1. ASSUME NEW j \in Jobs, Reads(j)  PROVE Alone'
  <2>1. PICK kind, want : \E t \in Taxpayers :
           /\ ReadRow(j, kind, t, want) /\ UNCHANGED <<status, risk, total>>
    BY <1>1 DEF Reads
  <2>2. PICK t \in Taxpayers :
           /\ ReadRow(j, kind, t, want) /\ UNCHANGED <<status, risk, total>>
    BY <2>1
  <2>3. /\ \A k \in Jobs \ {j} : job'[k] = job[k]
        /\ job'[j].tin = t /\ job'[j].row = RowOf(t) /\ job'[j].kind = kind
        /\ \A u \in Taxpayers : RowOf(u)' = RowOf(u)
    BY <2>2 DEF ReadRow, RowOf, TypeOK
  <2>4. /\ \A u \in Taxpayers : ~overlapped'[u] => ~overlapped[u]
        /\ ~overlapped'[t] /\ kind # "invoice" => \A k \in Jobs \ {j} : ~Holds(k, t)
    BY <2>2 DEF ReadRow, TypeOK
  <2>5. /\ \A k \in Jobs \ {j}, u \in Taxpayers : Holds(k, u)' <=> Holds(k, u)
        /\ \A u \in Taxpayers : Holds(j, u)' => u = t /\ kind # "invoice"
    BY <2>3 DEF Holds, InFlight
  <2> QED  BY <2>3, <2>4, <2>5 DEF Alone
<1>2. ASSUME NEW j \in Jobs, Analyse(j)  PROVE Alone'
  <2>1. /\ \A k \in Jobs : /\ job'[k].row = job[k].row
                           /\ \A t \in Taxpayers : Holds(k, t)' <=> Holds(k, t)
        /\ \A t \in Taxpayers : RowOf(t)' = RowOf(t)
    BY <1>2 DEF Analyse, TypeOK, Job, Holds, InFlight, RowOf
  <2> QED  BY <1>2, <2>1 DEF Analyse, Alone
<1>3. ASSUME NEW j \in Jobs, Scores(j)  PROVE Alone'
  <2>1. /\ \A k \in Jobs \ {j} : job'[k] = job[k]
        /\ job'[j].stage \in {"committed", "done"}
    BY <1>3 DEF Scores, Reach, TypeOK, Job
  <2>2. \A t \in Taxpayers : RowOf(t)' # RowOf(t) => t = job[j].tin
    BY <1>3 DEF Scores, WriteScore, RowOf, TypeOK
  <2>3. Holds(j, job[j].tin)
    BY <1>3 DEF Scores, Holds, InFlight, Scoring, Counting
  <2> QED  BY <1>0, <1>3, <2>1, <2>2, <2>3 DEF Scores, Holds, InFlight
<1>4. ASSUME NEW j \in Jobs, CommitStatus(j)  PROVE Alone'
  <2>1. /\ \A k \in Jobs \ {j} : job'[k] = job[k]
        /\ job'[j].stage \in {"queued", "done"}
    BY <1>4 DEF CommitStatus, Background, Reach, TypeOK, Job
  <2>2. \A t \in Taxpayers : RowOf(t)' # RowOf(t) => t = job[j].tin
    BY <1>4 DEF CommitStatus, RowOf, TypeOK
  <2>3. Holds(j, job[j].tin)
    BY <1>4 DEF CommitStatus, StatusWriters, Holds, InFlight
  <2> QED  BY <1>0, <1>4, <2>1, <2>2, <2>3 DEF CommitStatus, Holds, InFlight
<1>5. CASE RestsAll
  <2>1. \A k \in Jobs, t \in Taxpayers : Holds(k, t)' => Holds(k, t) /\ job'[k] = job[k]
    BY <1>5 DEF RestsAll, Rests, Holds, InFlight
  <2>2. \A t \in Taxpayers : RowOf(t)' = RowOf(t)
    BY <1>5 DEF RestsAll, RowOf
  <2> QED  BY <1>5, <2>1, <2>2 DEF RestsAll, Alone
<1> QED  BY <1>1, <1>2, <1>3, <1>4, <1>5, StepIs

Unpatched(t) == \A j \in Jobs : job[j].kind \in {"patch", "sync"} => job[j].tin # t
Reassessed(t) ==
    \E j \in Jobs : job[j].tin = t /\ job[j].stage = "done" /\ job[j].kind = "reassess"
Scored(t) ==
    \E k \in Scoring, e \in Evidence : risk[t] = Verdict[<<k, status[t], e>>].score

\* A score that is not of the status has an analysis outstanding.
Followed ==
    \A t \in Taxpayers :
        ~overlapped[t] /\ Unpatched(t) /\ Reassessed(t) => Scored(t) \/ Outstanding(t) # {}

LEMMA StepFollowed == TypeOK /\ Alone /\ Found /\ Followed /\ [Next]_vars => Followed'
<1> SUFFICES ASSUME TypeOK, Alone, Found, Followed, [Next]_vars,
                    NEW t \in Taxpayers, ~overlapped'[t], Unpatched(t)', Reassessed(t)'
             PROVE  Scored(t)' \/ Outstanding(t)' # {}
  BY DEF Followed
\* Who is outstanding stays so, and nothing else is done.
<1>0. ASSUME status'[t] = status[t], risk'[t] = risk[t], ~overlapped[t],
             \A k \in Outstanding(t) : k \in Outstanding(t)',
             \A k \in Jobs : job'[k].kind = "reassess" /\ job'[k].stage = "done"
                             => job'[k] = job[k],
             Unpatched(t)
      PROVE  Scored(t)' \/ Outstanding(t)' # {}
  <2>1. Reassessed(t)
    BY <1>0 DEF Reassessed
  <2>2. Scored(t) \/ Outstanding(t) # {}
    BY <1>0, <2>1 DEF Followed
  <2> QED  BY <1>0, <2>2 DEF Scored
<1>1. ASSUME NEW j \in Jobs, Reads(j)  PROVE Scored(t)' \/ Outstanding(t)' # {}
  <2>1. PICK kind, want : \E u \in Taxpayers :
           /\ ReadRow(j, kind, u, want)
           /\ \/ job[j].stage = "free"
              \/ job[j].stage = "queued" /\ kind = job[j].kind /\ u = job[j].tin
           /\ UNCHANGED <<status, risk, total>>
    BY <1>1 DEF Reads
  <2>2. PICK u \in Taxpayers :
           /\ ReadRow(j, kind, u, want)
           /\ \/ job[j].stage = "free"
              \/ job[j].stage = "queued" /\ kind = job[j].kind /\ u = job[j].tin
           /\ UNCHANGED <<status, risk, total>>
    BY <2>1
  <2>3. /\ \A k \in Jobs \ {j} : job'[k] = job[k]
        /\ job'[j].tin = u /\ job'[j].kind = kind /\ job'[j].stage = "loaded"
        /\ ~overlapped[t]
    BY <2>2 DEF ReadRow, TypeOK
  <2>4. \A k \in Outstanding(t) : k \in Outstanding(t)'
    BY <2>2, <2>3 DEF Outstanding
  <2>5. ASSUME NEW k \in Jobs, job[k].kind \in {"patch", "sync"}, job[k].tin = t  PROVE FALSE
    BY <2>2, <2>3, <2>5 DEF Unpatched, Found
  <2> QED  BY <1>0, <2>2, <2>3, <2>4, <2>5 DEF Unpatched
<1>2. ASSUME NEW j \in Jobs, Analyse(j)  PROVE Scored(t)' \/ Outstanding(t)' # {}
  <2>1. /\ \A k \in Jobs \ {j} : job'[k] = job[k]
        /\ job'[j].tin = job[j].tin /\ job'[j].kind = job[j].kind
        /\ job'[j].stage = "analysed"
    BY <1>2 DEF Analyse, TypeOK, Job
  <2>2. /\ \A k \in Outstanding(t) : k \in Outstanding(t)'
        /\ Unpatched(t)
    BY <2>1 DEF Outstanding, Unpatched
  <2> QED  BY <1>0, <1>2, <2>1, <2>2 DEF Analyse
<1>3. ASSUME NEW j \in Jobs, Scores(j)  PROVE Scored(t)' \/ Outstanding(t)' # {}
  <2>1. /\ \A k \in Jobs \ {j} : job'[k] = job[k]
        /\ job'[j].tin = job[j].tin /\ job'[j].kind = job[j].kind
        /\ ~overlapped[t] /\ status' = status
    BY <1>3 DEF Scores, WriteScore, Reach, TypeOK, Job
  <2>2. CASE job[j].tin = t
    <3>1. Holds(j, t)
      BY <1>3, <2>2 DEF Scores, Holds, InFlight, Scoring, Counting
    <3>2. job[j].row = RowOf(t)
      BY <2>1, <3>1 DEF Alone
    <3>3. risk'[t] = job[j].found.score
      BY <1>3, <2>2, <3>2 DEF Scores, WriteScore, Written, RowOf, TypeOK
    <3>4. PICK e \in Evidence : job[j].found = Verdict[<<job[j].kind, status[t], e>>]
      BY <1>3, <3>2 DEF Scores, Found, RowOf
    <3> QED  BY <1>3, <2>1, <3>3, <3>4 DEF Scored, Scores
  <2>3. CASE job[j].tin # t
    <3>1. risk'[t] = risk[t]
      BY <1>3, <2>3 DEF Scores, WriteScore, TypeOK
    <3>2. /\ \A k \in Outstanding(t) : k \in Outstanding(t)'
          /\ Unpatched(t)
      BY <2>1, <2>3 DEF Outstanding, Unpatched
    <3>3. Reassessed(t)
      BY <2>1, <2>3 DEF Reassessed
    <3>4. Scored(t) \/ Outstanding(t) # {}
      BY <2>1, <3>2, <3>3 DEF Followed
    <3> QED  BY <2>1, <3>1, <3>2, <3>4 DEF Scored
  <2> QED  BY <2>2, <2>3
<1>4. ASSUME NEW j \in Jobs, CommitStatus(j)  PROVE Scored(t)' \/ Outstanding(t)' # {}
  <2>1. /\ \A k \in Jobs \ {j} : job'[k] = job[k]
        /\ job'[j].tin = job[j].tin
        /\ ~overlapped[t] /\ risk' = risk
        /\ \/ job'[j].kind = "reassess" /\ job'[j].stage = "queued"
           \/ job[j].kind \in {"patch", "sync"} /\ job'[j].kind = job[j].kind
    BY <1>4 DEF CommitStatus, StatusWriters, Background, Reach, TypeOK, Job
  <2>2. CASE job[j].tin = t
    <3>1. job'[j].kind = "reassess" /\ job'[j].stage = "queued" /\ job'[j].tin = t
      BY <2>1, <2>2 DEF Unpatched
    <3>2. j \in Outstanding(t)'
      BY <3>1 DEF Outstanding, Scoring
    <3> QED  BY <3>2
  <2>3. CASE job[j].tin # t
    <3>1. status'[t] = status[t]
      BY <1>4, <2>3 DEF CommitStatus, TypeOK
    <3>2. /\ \A k \in Outstanding(t) : k \in Outstanding(t)'
          /\ Unpatched(t) /\ Reassessed(t)
      BY <2>1, <2>3 DEF Outstanding, Unpatched, Reassessed
    <3>3. Scored(t) \/ Outstanding(t) # {}
      BY <2>1, <3>2 DEF Followed
    <3> QED  BY <2>1, <3>1, <3>2, <3>3 DEF Scored
  <2> QED  BY <2>2, <2>3
<1>5. ASSUME RestsAll  PROVE Scored(t)' \/ Outstanding(t)' # {}
  <2>1. ASSUME NEW k \in Outstanding(t)  PROVE k \in Outstanding(t)'
    <3>1. Rests(k) /\ k \in Jobs
      BY <1>5 DEF RestsAll, Outstanding
    <3>2. job[k].kind # "invoice"
      BY DEF Outstanding, Scoring, Counting
    <3> QED  BY <3>1, <3>2 DEF Rests, Outstanding
  <2>2. \A k \in Jobs : job'[k].kind = "reassess" /\ job'[k].stage = "done"
                        => job'[k] = job[k]
    BY <1>5 DEF RestsAll, Rests, Found
  <2>3. ASSUME NEW k \in Jobs, job[k].kind \in {"patch", "sync"}, job[k].tin = t  PROVE FALSE
    BY <1>5, <2>3 DEF RestsAll, Rests, Unpatched, Found
  <2> QED  BY <1>0, <1>5, <2>1, <2>2, <2>3 DEF RestsAll, Unpatched
<1> QED  BY <1>1, <1>2, <1>3, <1>4, <1>5, StepIs

LEMMA InitScores == Init => Alone /\ Found /\ Followed
<1> SUFFICES ASSUME Init PROVE Alone /\ Found /\ Followed
  OBVIOUS
<1>1. \A j \in Jobs : job[j].stage = "free" /\ job[j].kind = "none"
  BY DEF Init
<1> QED  BY <1>1 DEF Alone, Found, Followed, Holds, InFlight, Reassessed

\* Without overlap and without a PATCH, a score that is re-assessed and has
\* nothing outstanding is a verdict on the status that the taxpayer has.
THEOREM ScoreOfStatus == Spec => []ScoreFollowsStatus
<1>1. Followed => ScoreFollowsStatus
  BY DEF Followed, ScoreFollowsStatus, Unpatched, Reassessed, Scored
<1> QED  BY <1>1, InitType, StepType, InitScores, StepFound, StepAlone, StepFollowed,
            PTL DEF Spec

-----------------------------------------------------------------------------
(* The alerts of the ended sessions.                                       *)

\* The sum of the alerts that the jobs S found, when the jobs are J.
AlertsOf(J, S) == MapThenSumSet(LAMBDA j : J[j].found.alerts, S)

\* It is a sum over a function, so that the facts about those apply.
LEMMA AlertsOfIsSum ==
    ASSUME NEW J, NEW S, IsFiniteSet(S), \A j \in S : J[j].found.alerts \in Nat
    PROVE  AlertsOf(J, S) = SumOver([j \in S |-> J[j].found.alerts], S)
<1> DEFINE f == [j \in S |-> J[j].found.alerts]
           El(s) == CHOOSE x \in s : TRUE
           Iter(h) == h = [s \in SUBSET S |->
                             IF s = {} THEN 0 ELSE J[El(s)].found.alerts + h[s \ {El(s)}]]
           k == CHOOSE h : Iter(h)
<1>1. AlertsOf(J, S) = k[S]
  BY DEF AlertsOf, MapThenSumSet, MapThenFoldSet
<1>2. ASSUME NEW h  PROVE Iter(h) <=> Sums(f, S, h)
  <2>1. \A s \in SUBSET S : s # {} => El(s) \in s
    OBVIOUS
  <2> HIDE DEF El
  <2>2. \A s \in SUBSET S :
           (IF s = {} THEN 0 ELSE J[El(s)].found.alerts + h[s \ {El(s)}])
             = (IF s = {} THEN 0 ELSE f[El(s)] + h[s \ {El(s)}])
    BY <2>1
  <2> HIDE DEF f
  <2>3. Iter(h) <=> h = [s \in SUBSET S |-> IF s = {} THEN 0 ELSE f[El(s)] + h[s \ {El(s)}]]
    BY ONLY <2>2
  <2> QED  BY <2>3 DEF Sums, El
<1>3. PICK g : Sums(f, S, g) /\ SumOver(f, S) = g[S]
  BY SumOverSums
<1> HIDE DEF Iter
<1>4. Sums(f, S, k)
  BY <1>2, <1>3
<1>5. k[S] = g[S]
  <2> HIDE DEF k
  <2> QED  BY <1>3, <1>4, SumsSame
<1> QED  BY <1>1, <1>3, <1>5

\* It is a number; it is 0 without jobs; it depends on what the jobs found
\* alone; and another job adds what that one found.
LEMMA AlertsOfFacts ==
    ASSUME NEW J, NEW S, IsFiniteSet(S), \A j \in S : J[j].found.alerts \in Nat
    PROVE  /\ AlertsOf(J, S) \in Nat
           /\ S = {} => AlertsOf(J, S) = 0
           /\ \A H : (\A j \in S : H[j].found.alerts = J[j].found.alerts)
                       => AlertsOf(H, S) = AlertsOf(J, S)
           /\ \A e : e \notin S /\ J[e].found.alerts \in Nat
                       => AlertsOf(J, S \cup {e}) = AlertsOf(J, S) + J[e].found.alerts
<1> DEFINE f == [j \in S |-> J[j].found.alerts]
<1>1. AlertsOf(J, S) = SumOver(f, S)
  BY AlertsOfIsSum
<1>2. \A j \in S : f[j] \in Nat
  OBVIOUS
<1>3. SumOver(f, S) \in Nat
  BY <1>2, SumOverNat
<1>4. S = {} => AlertsOf(J, S) = 0
  BY <1>1, SumOverNone
<1>5. ASSUME NEW H, \A j \in S : H[j].found.alerts = J[j].found.alerts
      PROVE  AlertsOf(H, S) = AlertsOf(J, S)
  <2> DEFINE h == [j \in S |-> H[j].found.alerts]
  <2>1. AlertsOf(H, S) = SumOver(h, S)
    BY <1>5, AlertsOfIsSum
  <2>2. h = f
    BY <1>5
  <2> QED  BY <1>1, <2>1, <2>2
<1>6. ASSUME NEW e, e \notin S, J[e].found.alerts \in Nat
      PROVE  AlertsOf(J, S \cup {e}) = AlertsOf(J, S) + J[e].found.alerts
  <2> DEFINE T == S \cup {e}
             g == [j \in T |-> J[j].found.alerts]
  <2>1. IsFiniteSet(T) /\ \A j \in T : J[j].found.alerts \in Nat
    BY <1>6, FS_AddElement
  <2>2. AlertsOf(J, T) = SumOver(g, T)
    BY <2>1, AlertsOfIsSum
  <2>3. \A j \in T : g[j] = J[j].found.alerts /\ g[j] \in Nat
    BY <2>1
  <2>4. e \in T /\ T \ {e} = S /\ S \subseteq T
    BY <1>6
  <2> HIDE DEF T
  <2>5. SumOver(g, T) = g[e] + SumOver(g, S)
    BY <2>1, <2>3, <2>4, SumOverRemove
  <2>6. \A j \in S : f[j] = g[j] /\ f[j] \in Nat
    BY <1>2, <2>3, <2>4
  <2> HIDE DEF f, g
  <2>7. SumOver(f, S) = SumOver(g, S)
    BY <2>6, SumOverSame
  <2> QED  BY <1>1, <1>3, <1>6, <2>2, <2>3, <2>4, <2>5, <2>7 DEF T
<1> HIDE DEF f
<1> QED  BY <1>1, <1>3, <1>4, <1>5, <1>6

\* The jobs whose session has ended, of these kinds and this taxpayer.
Ended(kinds, t) ==
    {j \in Jobs : /\ job[j].stage \in {"committed", "done"}
                  /\ job[j].kind \in kinds /\ job[j].tin = t}

\* However many jobs there may be, only finitely many have started.
Finite == IsFiniteSet({j \in Jobs : job[j].stage # "free"})

\* So the ended ones are finitely many, and their alerts have a sum.
LEMMA EndedFinite ==
    ASSUME Finite, NEW kinds, NEW t
    PROVE  IsFiniteSet(Ended(kinds, t))
<1>1. Ended(kinds, t) \subseteq {j \in Jobs : job[j].stage # "free"}
  BY DEF Ended
<1> QED  BY <1>1, FS_Subset DEF Finite

\* A job is of the ended ones after a step that did not commit it or take it
\* back if and only if it was before, and it had found the same.
Quiet(j) ==
    \/ job'[j] = job[j]
    \/ job[j].stage \notin {"committed", "done"} /\ job'[j].stage \notin {"committed", "done"}
    \/ job[j].kind \notin Analyses /\ job'[j].kind \notin Analyses
    \/ /\ job[j].stage = "committed" /\ job'[j].stage = "done"
       /\ job'[j].kind = job[j].kind /\ job'[j].tin = job[j].tin
       /\ job'[j].found = job[j].found

\* A step commits an analysis, or takes back a committed one whose worker
\* has died, or leaves the alerts reported as they are.
LEMMA ReportSteps ==
    ASSUME TypeOK, [Next]_vars
    PROVE  \/ \E j \in Jobs : Commit(j) \/ CrashWorker(j)
           \/ /\ \A j \in Jobs : Quiet(j)
              /\ \/ UNCHANGED <<rows, total, scan>>
                 \/ WeeklyScan
              /\ \A t \in Taxpayers : overlapped[t] => overlapped'[t]
              /\ WeeklyScan \/ faults'.worker >= faults.worker
<1> DEFINE Is == /\ \A j \in Jobs : Quiet(j)
                 /\ UNCHANGED <<rows, total, scan>> \/ WeeklyScan
                 /\ \A t \in Taxpayers : overlapped[t] => overlapped'[t]
                 /\ WeeklyScan \/ faults'.worker >= faults.worker
<1>f. faults.worker \in Nat
  BY DEF TypeOK, Faults
<1>1. ASSUME NEW j \in Jobs, NEW kind, NEW t \in Taxpayers, NEW want,
             job[j].stage \in {"free", "queued"}, ReadRow(j, kind, t, want),
             UNCHANGED <<table, scan, faults>>
      PROVE  Is
  <2>1. \A k \in Jobs : Quiet(k)
    BY <1>1 DEF ReadRow, Quiet, TypeOK
  <2>2. \A u \in Taxpayers : overlapped[u] => overlapped'[u]
    BY <1>1 DEF ReadRow, TypeOK
  <2> QED  BY <1>1, <1>f, <2>1, <2>2
<1>2. ASSUME NEW j \in Jobs, NEW kind, NEW t \in Taxpayers,
             job[j].stage = "free", Enqueue(j, kind, t),
             UNCHANGED <<table, scan, faults, overlapped>>
      PROVE  Is
  <2>1. \A k \in Jobs : Quiet(k)
    BY <1>2 DEF Enqueue, Quiet, TypeOK, Job
  <2> QED  BY <1>2, <1>f, <2>1
<1>3. ASSUME NEW j \in Jobs, Load(j)  PROVE Is
  <2>1. job[j].tin \in Taxpayers
    BY DEF TypeOK, Job
  <2> QED  BY <1>1, <1>3, <2>1 DEF Load
<1>4. ASSUME NEW j \in Jobs, Analyse(j)  PROVE Is
  <2>1. \A k \in Jobs : Quiet(k)
    BY <1>4 DEF Analyse, Quiet, TypeOK, Job
  <2> QED  BY <1>4, <1>f, <2>1 DEF Analyse
<1>5. ASSUME NEW j \in Jobs, CommitStatus(j)  PROVE Is
  <2>1. \A k \in Jobs : Quiet(k)
    <3>1. CASE job[j].kind = "webhook"
      BY <1>5, <3>1 DEF CommitStatus, Background, Quiet, TypeOK, Job
    <3>2. CASE job[j].kind \in {"patch", "sync"}
      BY <1>5, <3>2
      DEF CommitStatus, Reach, Quiet, TypeOK, Job, Analyses, Scoring, Counting
    <3> QED  BY <1>5, <3>1, <3>2 DEF CommitStatus, StatusWriters
  <2> QED  BY <1>5, <1>f, <2>1 DEF CommitStatus
<1>6. ASSUME NEW j \in Jobs, Acknowledge(j)  PROVE Is
  <2>1. \A k \in Jobs : Quiet(k)
    BY <1>6 DEF Acknowledge, Reach, Quiet, TypeOK, Job
  <2> QED  BY <1>6, <1>f, <2>1 DEF Acknowledge
<1>7. ASSUME NEW j \in Jobs, Fail(j)  PROVE Is
  <2>1. \A k \in Jobs : Quiet(k)
    BY <1>7 DEF Fail, InFlight, Reach, Quiet, TypeOK, Job
  <2>2. faults'.worker = faults.worker
    BY <1>7 DEF Fail, TypeOK, Faults
  <2> QED  BY <1>7, <1>f, <2>1, <2>2 DEF Fail
<1>8. ASSUME CrashApi  PROVE Is
  <2>1. \A k \in Jobs : Quiet(k)
    BY <1>8 DEF CrashApi, Quiet, TypeOK, Job
  <2>2. faults'.worker = faults.worker
    BY <1>8 DEF CrashApi, TypeOK, Faults
  <2>3. UNCHANGED <<table, scan, overlapped>>
    BY <1>8 DEF CrashApi
  <2> QED  BY <1>f, <2>1, <2>2, <2>3
<1>9. ASSUME NEW j \in Jobs, NEW t \in Taxpayers, Request(j, t)  PROVE Is
  <2>1. CASE AssessRisk(j, t) \/ \E s \in Statuses : ReceiveUpdate(j, t, s)
                                                     \/ UpdateTaxpayer(j, t, s)
                                                     \/ Synchronise(j, t, s)
    <3>1. PICK kind, want : /\ ReadRow(j, kind, t, want) /\ job[j].stage = "free"
                            /\ UNCHANGED <<table, scan, faults>>
      BY <2>1 DEF AssessRisk, ReceiveUpdate, UpdateTaxpayer, Synchronise
    <3> QED  BY <1>1, <3>1
  <2>2. CASE QueueAnalysis(j, t) \/ \E e \in Evidence : SubmitInvoice(j, t, e)
    BY <1>2, <2>2 DEF QueueAnalysis, SubmitInvoice
  <2> QED  BY <1>9, <2>1, <2>2 DEF Request
<1>10. CASE \/ \E S \in SUBSET Taxpayers : SelectHighRisk(S)
            \/ Beat \/ FinishBeat \/ UNCHANGED vars
  <2>1. UNCHANGED <<table, job, scan, faults, overlapped>>
    BY <1>10 DEF SelectHighRisk, Beat, FinishBeat, vars
  <2> QED  BY <2>1, <1>f DEF Quiet
<1>11. CASE CrashBeat \/ FailBeat
  <2>1. faults'.worker \in {faults.worker, faults.worker + 1}
    BY <1>11 DEF CrashBeat, FailBeat, TypeOK, Faults
  <2> QED  BY <1>11, <1>f, <2>1 DEF CrashBeat, FailBeat, Quiet
<1>12. CASE WeeklyScan
  BY <1>12, ScanTouches DEF Quiet
<1> QED
  BY <1>3, <1>4, <1>5, <1>6, <1>7, <1>8, <1>9, <1>10, <1>11, <1>12 DEF Next, Progress

\* The alerts reported do not change with the steps that leave the ended
\* jobs alone.
LEMMA QuietReports ==
    ASSUME TypeOK, Finite, \A j \in Jobs : Quiet(j),
           NEW kinds \in SUBSET Analyses, NEW t
    PROVE  Reported(kinds, t)' = Reported(kinds, t)
<1> DEFINE S == Ended(kinds, t)
<1>1. Ended(kinds, t)' = S
  BY DEF Quiet, Ended
<1>2. \A j \in S : job'[j].found = job[j].found /\ job[j].found.alerts \in Nat
  BY DEF Quiet, Ended, TypeOK, Job, Findings
<1>3. IsFiniteSet(S)
  BY EndedFinite
<1>4. AlertsOf(job', S) = AlertsOf(job, S)
  <2> HIDE DEF S
  <2> QED  BY <1>2, <1>3, AlertsOfFacts
<1>5. Reported(kinds, t) = AlertsOf(job, S)
  BY DEF Reported, AlertsOf, Ended
<1>6. Reported(kinds, t)' = AlertsOf(job', Ended(kinds, t)')
  BY DEF Reported, AlertsOf, Ended, MapThenSumSet, MapThenFoldSet
<1> QED  BY <1>1, <1>4, <1>5, <1>6

\* A commit adds the alerts of its session.
LEMMA CommitReports ==
    ASSUME TypeOK, Finite, NEW j \in Jobs, Commit(j),
           NEW kinds \in SUBSET Analyses, NEW t
    PROVE  Reported(kinds, t)' =
              Reported(kinds, t) + (IF job[j].kind \in kinds /\ job[j].tin = t
                                    THEN job[j].found.alerts ELSE 0)
<1> DEFINE S == Ended(kinds, t)
<1>1. /\ job[j].stage = "analysed" /\ job'[j].stage \in {"committed", "done"}
      /\ job'[j].kind = job[j].kind /\ job'[j].tin = job[j].tin
      /\ job'[j].found = job[j].found
      /\ \A k \in Jobs \ {j} : job'[k] = job[k]
  BY DEF Commit, CommitAssessment, CommitReassessment, CommitInvoiceAnalysis, Reach,
         TypeOK, Job
<1>2. Ended(kinds, t)' = IF job[j].kind \in kinds /\ job[j].tin = t THEN S \cup {j} ELSE S
  BY <1>1 DEF Ended
<1>3. \A k \in S \cup {j} : job'[k].found = job[k].found /\ job[k].found.alerts \in Nat
  BY <1>1 DEF Ended, TypeOK, Job, Findings
<1>4. IsFiniteSet(S) /\ j \notin S
  <2>1. IsFiniteSet(S)
    BY EndedFinite
  <2>2. j \notin S
    BY <1>1 DEF Ended
  <2> QED  BY <2>1, <2>2
<1>5. Reported(kinds, t) = AlertsOf(job, S)
  BY DEF Reported, AlertsOf, Ended
<1>6. Reported(kinds, t)' = AlertsOf(job', Ended(kinds, t)')
  BY DEF Reported, AlertsOf, Ended, MapThenSumSet, MapThenFoldSet
<1> HIDE DEF S
<1>7. /\ AlertsOf(job', S) = AlertsOf(job, S) /\ AlertsOf(job, S) \in Nat
      /\ AlertsOf(job', S \cup {j}) = AlertsOf(job', S) + job[j].found.alerts
  BY <1>3, <1>4, AlertsOfFacts
<1> QED  BY <1>2, <1>5, <1>6, <1>7

\* A worker that dies takes back the alerts its task reported, at most.
LEMMA CrashReports ==
    ASSUME TypeOK, Finite, NEW j \in Jobs, CrashWorker(j),
           NEW kinds \in SUBSET Analyses, NEW t
    PROVE  /\ Reported(kinds, t)' <= Reported(kinds, t)
           /\ Reported(kinds, t)' \in Nat /\ Reported(kinds, t) \in Nat
           /\ "full" \notin kinds => Reported(kinds, t)' = Reported(kinds, t)
<1> DEFINE S == Ended(kinds, t)
           R == S \ {j}
<1>1. /\ job[j].kind = "full" /\ job'[j].stage = "queued"
      /\ \A k \in Jobs \ {j} : job'[k] = job[k]
  BY DEF CrashWorker, Redeliver, Reach, TypeOK, Job
<1>2. Ended(kinds, t)' = R /\ (S = R \/ (S = R \cup {j} /\ j \notin R))
  BY <1>1 DEF Ended
<1>3. /\ \A k \in R : job'[k] = job[k]
      /\ \A k \in S \cup R \cup {j} : job[k].found.alerts \in Nat
  BY <1>1 DEF Ended, TypeOK, Job, Findings
<1>4. IsFiniteSet(R)
  BY EndedFinite, FS_RemoveElement
<1>5. Reported(kinds, t) = AlertsOf(job, S)
  BY DEF Reported, AlertsOf, Ended
<1>6. Reported(kinds, t)' = AlertsOf(job', Ended(kinds, t)')
  BY DEF Reported, AlertsOf, Ended, MapThenSumSet, MapThenFoldSet
<1>8. "full" \notin kinds => S = R
  BY <1>1 DEF Ended
<1> HIDE DEF S, R
<1>7. /\ AlertsOf(job', R) = AlertsOf(job, R) /\ AlertsOf(job, R) \in Nat
      /\ j \notin R => AlertsOf(job, R \cup {j}) = AlertsOf(job, R) + job[j].found.alerts
  BY <1>3, <1>4, AlertsOfFacts
<1>9. job[j].found.alerts \in Nat
  BY DEF TypeOK, Job, Findings
<1>10. CASE S = R
  BY <1>2, <1>5, <1>6, <1>7, <1>10
<1>11. CASE S = R \cup {j} /\ j \notin R
  BY <1>2, <1>5, <1>6, <1>7, <1>8, <1>9, <1>11
<1> QED  BY <1>2, <1>10, <1>11

\* A step starts one session at most.
LEMMA StepFinite == TypeOK /\ Finite /\ [Next]_vars => Finite'
<1> SUFFICES ASSUME TypeOK, Finite, [Next]_vars PROVE Finite'
  OBVIOUS
<1> DEFINE S == {j \in Jobs : job[j].stage # "free"}
<1>1. ASSUME NEW j, \A k \in Jobs \ {j} : job'[k].stage # "free" => job[k].stage # "free"
      PROVE  Finite'
  <2>1. {k \in Jobs : job'[k].stage # "free"} \subseteq S \cup {j}
    BY <1>1
  <2>2. IsFiniteSet(S \cup {j})
    BY FS_AddElement DEF Finite
  <2> QED  BY <2>1, <2>2, FS_Subset DEF Finite
<1>2. ASSUME NEW j \in Jobs, Analyse(j) \/ CommitStatus(j)  PROVE Finite'
  <2>1. \A k \in Jobs \ {j} : job'[k] = job[k]
    BY <1>2 DEF Analyse, CommitStatus, Background, Reach, TypeOK
  <2> QED  BY <1>1, <2>1
<1>3. ASSUME NEW j \in Jobs, NEW stage, Reach(j, stage)  PROVE Finite'
  <2>1. \A k \in Jobs \ {j} : job'[k] = job[k]
    BY <1>3 DEF Reach, TypeOK
  <2> QED  BY <1>1, <2>1
<1>4. ASSUME NEW j \in Jobs, NEW kind, NEW t, Enqueue(j, kind, t)  PROVE Finite'
  <2>1. \A k \in Jobs \ {j} : job'[k] = job[k]
    BY <1>4 DEF Enqueue, TypeOK
  <2> QED  BY <1>1, <2>1
<1>5. CASE CrashApi
  <2>1. \A k \in Jobs : job'[k].stage # "free" => job[k].stage # "free"
    BY <1>5 DEF CrashApi
  <2>2. {k \in Jobs : job'[k].stage # "free"} \subseteq S
    BY <2>1
  <2> QED  BY <2>2, FS_Subset DEF Finite
<1>6. CASE job' = job
  BY <1>6 DEF Finite
<1>7. ASSUME NEW j \in Jobs, Progress(j) \/ CrashWorker(j) \/ Fail(j)  PROVE Finite'
  <2>1. CASE Load(j)
    <3>1. PICK kind, t, want : ReadRow(j, kind, t, want)
      BY <2>1 DEF Load
    <3>2. \A k \in Jobs \ {j} : job'[k] = job[k]
      BY <3>1 DEF ReadRow, TypeOK
    <3> QED  BY <1>1, <3>2
  <2>2. CASE Analyse(j) \/ CommitStatus(j)
    BY <1>2, <2>2
  <2>3. CASE Commit(j) \/ Acknowledge(j) \/ CrashWorker(j) \/ Fail(j)
    <3>1. \E stage : Reach(j, stage)
      BY <2>3 DEF Commit, CommitAssessment, CommitReassessment, CommitInvoiceAnalysis,
                  Acknowledge, CrashWorker, Redeliver, Fail
    <3> QED  BY <1>3, <3>1
  <2> QED  BY <1>7, <2>1, <2>2, <2>3 DEF Progress
<1>8. ASSUME NEW j \in Jobs, NEW t \in Taxpayers, Request(j, t)  PROVE Finite'
  <2>1. (\E kind, want : ReadRow(j, kind, t, want)) \/ (\E kind : Enqueue(j, kind, t))
    BY <1>8 DEF Request, AssessRisk, ReceiveUpdate, UpdateTaxpayer, Synchronise,
       SubmitInvoice, QueueAnalysis
  <2>2. ASSUME NEW kind, NEW want, ReadRow(j, kind, t, want)  PROVE Finite'
    <3>1. \A k \in Jobs \ {j} : job'[k] = job[k]
      BY <2>2 DEF ReadRow, TypeOK
    <3> QED  BY <1>1, <3>1
  <2> QED  BY <1>4, <2>1, <2>2
<1>9. CASE \/ \E T \in SUBSET Taxpayers : SelectHighRisk(T)
            \/ Beat \/ FinishBeat \/ CrashBeat \/ FailBeat \/ WeeklyScan \/ UNCHANGED vars
  BY <1>6, <1>9, ScanTouches DEF SelectHighRisk, Beat, FinishBeat, CrashBeat, FailBeat, vars
<1> QED  BY <1>5, <1>7, <1>8, <1>9 DEF Next

\* The weekly scan has raised, of each taxpayer, as many alerts as it was
\* fired at most, and one less while it is about to raise them; but a scan
\* whose worker died is due again without being fired.
Scanned(t) ==
    faults.worker = 0 =>
        /\ scan.raised[t] <= scan.fired
        /\ scan.stage # "due"
        /\ scan.stage = "found" => scan.raised[t] < scan.fired

\* The part of AlertsConserved that says how many rows there are.
Stored(t) ==
    /\ Reported(Analyses, t) \in Nat
    /\ Reported(Analyses, t) + scan.raised[t] <= rows[t]
    /\ faults.worker = 0 => rows[t] = Reported(Analyses, t) + scan.raised[t]

Conserved == Finite /\ \A t \in Taxpayers : Stored(t) /\ Scanned(t)

\* Commits insert what they report and a death takes back what stays in the
\* table, so that every step keeps the conservation.
LEMMA StepConserved == TypeOK /\ Conserved /\ [Next]_vars => Conserved'
<1> SUFFICES ASSUME TypeOK, Conserved, [Next]_vars, NEW t \in Taxpayers
             PROVE  Stored(t)' /\ Scanned(t)'
  BY StepFinite DEF Conserved
<1> DEFINE n == Reported(Analyses, t)
<1>0. /\ Finite /\ Stored(t) /\ Scanned(t)
      /\ rows[t] \in Nat /\ scan.raised[t] \in Nat /\ scan.fired \in Nat
      /\ faults.worker \in Nat /\ n \in Nat
  BY DEF Conserved, Stored, TypeOK, ScanTask, Faults
<1>1. ASSUME NEW j \in Jobs, Commit(j)  PROVE Stored(t)' /\ Scanned(t)'
  <2>1. n' = n + (IF job[j].tin = t THEN job[j].found.alerts ELSE 0)
    <3>1. job[j].kind \in Analyses
      BY <1>1 DEF Commit, CommitAssessment, CommitReassessment, CommitInvoiceAnalysis,
                  Analyses, Scoring
    <3> QED  BY <1>0, <1>1, <3>1, CommitReports
  <2>2. InsertAlerts(j) /\ UNCHANGED <<scan, faults>>
    BY <1>1 DEF Commit, CommitAssessment, CommitReassessment, CommitInvoiceAnalysis
  <2>3. rows'[t] = rows[t] + (IF job[j].tin = t THEN job[j].found.alerts ELSE 0)
    BY <1>0, <2>2 DEF InsertAlerts, TypeOK
  <2>4. job[j].found.alerts \in Nat
    BY DEF TypeOK, Job, Findings
  <2> HIDE DEF n
  <2>5. Stored(t)'
    <3>1. /\ n \in Nat /\ n + scan.raised[t] <= rows[t]
          /\ faults.worker = 0 => rows[t] = n + scan.raised[t]
      BY <1>0 DEF Stored, n
    <3>2. /\ n' \in Nat /\ n' + scan'.raised[t] <= rows'[t]
          /\ faults'.worker = 0 => rows'[t] = n' + scan'.raised[t]
      BY <1>0, <2>1, <2>2, <2>3, <2>4, <3>1
    <3> QED  BY <3>2 DEF Stored, n
  <2> QED  BY <1>0, <2>2, <2>5 DEF Scanned
<1>2. ASSUME NEW j \in Jobs, CrashWorker(j)  PROVE Stored(t)' /\ Scanned(t)'
  <2>1. n' <= n /\ n' \in Nat
    BY <1>0, <1>2, CrashReports
  <2>2. UNCHANGED <<rows, scan>> /\ faults'.worker # 0
    BY <1>0, <1>2 DEF CrashWorker, TypeOK, Faults
  <2> HIDE DEF n
  <2>3. n + scan.raised[t] <= rows[t]
    BY <1>0 DEF Stored, n
  <2>4. n' + scan'.raised[t] <= rows'[t]
    BY <1>0, <2>1, <2>2, <2>3
  <2> QED  BY <2>1, <2>2, <2>4 DEF Stored, Scanned, n
<1>3. ASSUME \A j \in Jobs : Quiet(j), UNCHANGED <<rows, scan>>,
             faults'.worker >= faults.worker
      PROVE  Stored(t)' /\ Scanned(t)'
  <2>1. n' = n
    BY <1>0, <1>3, QuietReports
  <2>2. faults'.worker = 0 => faults.worker = 0
    BY <1>0, <1>3, StepType DEF TypeOK, Faults
  <2> HIDE DEF n
  <2> QED  BY <1>0, <1>3, <2>1, <2>2 DEF Stored, Scanned, n
<1>4. ASSUME \A j \in Jobs : Quiet(j), WeeklyScan  PROVE Stored(t)' /\ Scanned(t)'
  <2>1. n' = n
    BY <1>0, <1>4, QuietReports
  <2>2. /\ n \in Nat /\ n + scan.raised[t] <= rows[t]
        /\ faults.worker = 0 => rows[t] = n + scan.raised[t]
    BY <1>0 DEF Stored
  <2> HIDE DEF n
  <2>t. scan \in ScanTask /\ faults \in Faults
    BY DEF TypeOK
  <2>3. ASSUME NEW S \in SUBSET Taxpayers, TestSellers(S)  PROVE Stored(t)' /\ Scanned(t)'
    <3>1. /\ scan'.raised = scan.raised /\ rows' = rows /\ faults' = faults
          /\ scan'.stage = "found"
          /\ \/ scan.stage = "idle" /\ scan'.fired = scan.fired + 1
             \/ scan.stage = "due" /\ scan'.fired = scan.fired
      BY <2>3, <2>t DEF TestSellers, ScanTask
    <3> QED  BY <1>0, <2>1, <3>1 DEF Stored, Scanned, n
  <2>4. CASE CommitScan
    <3> DEFINE one == IF t \in scan.found THEN 1 ELSE 0
    <3>1. /\ scan'.raised[t] = scan.raised[t] + one /\ rows'[t] = rows[t] + one
          /\ scan'.fired = scan.fired /\ faults' = faults
          /\ scan.stage = "found" /\ scan'.stage = "committed"
      BY <2>4, <2>t DEF CommitScan, ScanTask
    <3>2. one \in 0 .. 1
      OBVIOUS
    <3> HIDE DEF one
    <3>3. Scanned(t)'
      BY <1>0, <3>1, <3>2 DEF Scanned
    <3>4. /\ n' \in Nat /\ n' + scan'.raised[t] <= rows'[t]
          /\ faults'.worker = 0 => rows'[t] = n' + scan'.raised[t]
      BY <1>0, <2>1, <2>2, <3>1, <3>2
    <3> QED  BY <3>3, <3>4 DEF Stored, n
  <2>5. CASE AcknowledgeScan \/ FailScan
    <3>1. /\ scan'.raised = scan.raised /\ scan'.fired = scan.fired
          /\ rows' = rows /\ faults'.worker = faults.worker /\ scan'.stage = "idle"
      BY <2>5, <2>t DEF AcknowledgeScan, FailScan, ScanTask, Faults
    <3> QED  BY <1>0, <2>1, <3>1 DEF Stored, Scanned, n
  <2>6. CASE CrashScan
    <3>1. /\ scan'.raised = scan.raised /\ rows' = rows /\ faults'.worker # 0
      BY <1>0, <2>6, <2>t DEF CrashScan, ScanTask, Faults
    <3> QED  BY <1>0, <2>1, <3>1 DEF Stored, Scanned, n
  <2> QED  BY <1>4, <2>3, <2>4, <2>5, <2>6 DEF WeeklyScan
<1> QED  BY <1>1, <1>2, <1>3, <1>4, ReportSteps

\* The counter and what it misses, of each taxpayer whose row no two
\* sessions have held at once.
Counted ==
    \A t \in Taxpayers : ~overlapped[t] =>
        /\ Reported(Analyses \ Counting, t) \in Nat
        /\ total[t] + Reported(Analyses \ Counting, t) + scan.raised[t] = rows[t]

\* A counting session alone on its row had read the counter of now: it adds
\* to it what it inserts.
LEMMA StepCounted ==
    TypeOK /\ Finite /\ Alone /\ Counted /\ [Next]_vars => Counted'
<1> SUFFICES ASSUME TypeOK, Finite, Alone, Counted, [Next]_vars,
                    NEW t \in Taxpayers, ~overlapped'[t]
             PROVE  /\ Reported(Analyses \ Counting, t)' \in Nat
                    /\ total'[t] + Reported(Analyses \ Counting, t)' + scan'.raised[t] = rows'[t]
  BY DEF Counted
<1> DEFINE kinds == Analyses \ Counting
           n == Reported(kinds, t)
<1>t. /\ rows[t] \in Nat /\ total[t] \in Nat /\ scan.raised[t] \in Nat
      /\ kinds \in SUBSET Analyses
  BY DEF TypeOK, ScanTask
<1>1. ASSUME NEW j \in Jobs, Commit(j)
      PROVE  n' \in Nat /\ total'[t] + n' + scan'.raised[t] = rows'[t]
  <2>1. n' = n + (IF job[j].kind \in kinds /\ job[j].tin = t
                  THEN job[j].found.alerts ELSE 0)
    BY <1>1, <1>t, CommitReports
  <2>2. InsertAlerts(j) /\ UNCHANGED <<scan, overlapped>>
    BY <1>1 DEF Commit, CommitAssessment, CommitReassessment, CommitInvoiceAnalysis
  <2>3. rows'[t] = rows[t] + (IF job[j].tin = t THEN job[j].found.alerts ELSE 0)
    BY <2>2 DEF InsertAlerts, TypeOK
  <2>4. job[j].found.alerts \in Nat
    BY DEF TypeOK, Job, Findings
  <2>5. n \in Nat /\ total[t] + n + scan.raised[t] = rows[t] /\ ~overlapped[t]
    BY <2>2 DEF Counted
  <2>6. total'[t] = total[t] + (IF job[j].kind \in Counting /\ job[j].tin = t
                                THEN job[j].found.alerts ELSE 0)
    <3>1. CASE CommitAssessment(j) /\ job[j].tin = t
      <4>1. Holds(j, t)
        BY <3>1 DEF CommitAssessment, Counting, Holds, InFlight
      <4>2. job[j].row.total = total[t]
        <5>1. job[j].row = RowOf(t)
          BY <2>5, <4>1 DEF Alone
        <5> QED  BY <5>1 DEF RowOf
      <4>3. total'[t] = Written(total[t], total[t], total[t] + job[j].found.alerts)
        BY <3>1, <4>2 DEF CommitAssessment, NewTotal, TypeOK
      <4> QED  BY <3>1, <4>3 DEF Written, CommitAssessment
    <3>2. CASE CommitAssessment(j) /\ job[j].tin # t
      BY <1>t, <3>2 DEF CommitAssessment, TypeOK
    <3>3. CASE CommitReassessment(j) \/ CommitInvoiceAnalysis(j)
      BY <1>t, <3>3 DEF CommitReassessment, CommitInvoiceAnalysis, Counting
    <3> QED  BY <1>1, <3>1, <3>2, <3>3 DEF Commit
  <2>7. job[j].kind \in kinds <=> job[j].kind \notin Counting
    BY <1>1 DEF Commit, CommitAssessment, CommitReassessment, CommitInvoiceAnalysis,
                Analyses, Scoring, Counting
  <2> HIDE DEF n, kinds
  <2> QED  BY <1>t, <2>1, <2>2, <2>3, <2>4, <2>5, <2>6, <2>7
<1>2. ASSUME NEW j \in Jobs, CrashWorker(j)
      PROVE  n' \in Nat /\ total'[t] + n' + scan'.raised[t] = rows'[t]
  <2>1. "full" \notin kinds
    BY DEF Counting
  <2>2. n' = n
    BY <1>2, <1>t, <2>1, CrashReports
  <2> HIDE DEF n
  <2>3. UNCHANGED <<rows, total, scan, overlapped>>
    BY <1>2 DEF CrashWorker
  <2> QED  BY <2>2, <2>3 DEF Counted, n
<1>3. ASSUME \A j \in Jobs : Quiet(j), \A u \in Taxpayers : overlapped[u] => overlapped'[u],
             UNCHANGED <<rows, total, scan>> \/ WeeklyScan
      PROVE  n' \in Nat /\ total'[t] + n' + scan'.raised[t] = rows'[t]
  <2>1. n' = n
    BY <1>3, <1>t, QuietReports
  <2>2. n \in Nat /\ total[t] + n + scan.raised[t] = rows[t]
    BY <1>3 DEF Counted
  <2> HIDE DEF n
  <2>3. CASE UNCHANGED <<rows, total, scan>>
    BY <2>1, <2>2, <2>3
  <2>4. CASE CommitScan
    <3> DEFINE one == IF t \in scan.found THEN 1 ELSE 0
    <3>1. /\ scan'.raised[t] = scan.raised[t] + one /\ rows'[t] = rows[t] + one
          /\ total' = total /\ one \in 0 .. 1
      BY <2>4 DEF CommitScan, TypeOK, ScanTask
    <3> HIDE DEF one
    <3> QED  BY <1>t, <2>1, <2>2, <3>1
  <2>5. CASE WeeklyScan /\ rows' = rows
    <3>1. total' = total
      BY <2>5, ScanTouches
    <3>2. scan \in ScanTask
      BY DEF TypeOK
    <3>3. ASSUME NEW S, TestSellers(S)  PROVE scan'.raised = scan.raised
      BY <3>2, <3>3 DEF TestSellers, ScanTask
    <3>4. AcknowledgeScan \/ CrashScan \/ FailScan => scan'.raised = scan.raised
      BY <3>2 DEF AcknowledgeScan, CrashScan, FailScan, ScanTask
    <3>5. scan'.raised = scan.raised \/ CommitScan
      BY <2>5, <3>3, <3>4 DEF WeeklyScan
    <3> QED  BY <2>1, <2>2, <2>4, <2>5, <3>1, <3>5
  <2> QED  BY <1>3, <2>3, <2>4, <2>5, ScanTouches
<1> HIDE DEF n
<1>4. n' \in Nat /\ total'[t] + n' + scan'.raised[t] = rows'[t]
  BY <1>1, <1>2, <1>3, ReportSteps
<1> QED  BY <1>4 DEF n

\* At first no session has ended and nothing is reported.
LEMMA InitConserved == Init => Conserved /\ Counted
<1> SUFFICES ASSUME Init PROVE Conserved /\ Counted
  OBVIOUS
<1>1. \A j \in Jobs : job[j].stage = "free"
  BY DEF Init
<1>2. {j \in Jobs : job[j].stage # "free"} = {}
  BY <1>1
<1>3. Finite
  BY <1>2, FS_EmptySet DEF Finite
<1>4. ASSUME NEW kinds, NEW t  PROVE Reported(kinds, t) = 0
  <2>1. Ended(kinds, t) = {}
    BY <1>1 DEF Ended
  <2>2. AlertsOf(job, {}) = 0
    BY FS_EmptySet, AlertsOfFacts
  <2> QED  BY <2>1, <2>2 DEF Reported, AlertsOf, Ended
<1> QED  BY <1>3, <1>4 DEF Init, Conserved, Stored, Scanned, Counted

\* Through overlaps, crashes and redeliveries, each ended session and each
\* weekly scan has its alerts in the table, and once unless a worker died.
THEOREM AlertsAreConserved == Spec => []AlertsConserved
<1>1. Conserved => AlertsConserved
  BY DEF Conserved, Stored, Scanned, AlertsConserved
<1> QED  BY <1>1, InitType, StepType, InitConserved, StepConserved, PTL DEF Spec

\* Without overlap the counter misses the alerts of the analyses that do not
\* count and of the weekly scan, and no other.
THEOREM CounterIsExactAlone == Spec => []CounterExactAlone
<1>1. Counted => CounterExactAlone
  BY DEF Counted, CounterExactAlone
<1>2. Conserved => Finite
  BY DEF Conserved
<1> QED  BY <1>1, <1>2, InitType, StepType, InitScores, StepAlone,
            InitConserved, StepConserved, StepCounted, PTL DEF Spec
=============================================================================
