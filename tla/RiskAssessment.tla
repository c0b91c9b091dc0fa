--------------------------- MODULE RiskAssessment ---------------------------
(***************************************************************************)
(* The risk columns of the taxpayers table and everything that writes them *)
(* concurrently: the assess-risk endpoint, the webhook that pushes a       *)
(* status change and the re-assessment it leaves to a background task, the *)
(* analysis that follows an invoice submission, the PATCH of a taxpayer,   *)
(* the synchronisation with the TMS as far as it writes the status, and    *)
(* the Celery task run_full_analysis with the daily beat that queues it.   *)
(*                                                                         *)
(* Each of them opens its own SQLAlchemy session on a READ COMMITTED       *)
(* database: it reads the taxpayer's row, reads invoices and transactions, *)
(* runs the detection engine on what it read, and commits.  A commit       *)
(* writes the columns whose value differs from the value READ, so two      *)
(* sessions on one row merge column by column and the later one may write  *)
(* a stale result.  A session is a job here, with three steps: load,       *)
(* analyse, commit; anything may happen between them.                      *)
(***************************************************************************)
EXTENDS Naturals, FiniteSets, FiniteSetsExt

CONSTANTS
    Taxpayers,        \* the TINs registered
    Jobs,             \* one-shot session ids: a job is one request or task
    Statuses,         \* taxpayer statuses (models/taxpayer.py TaxpayerStatus)
    ACTIVE,           \* the status of a taxpayer just registered
    Evidence,         \* what the invoices and transactions of a taxpayer show
    NoEvidence,       \* ... before any invoice arrives
    Skewed,           \* ... with amounts that do not follow Benford's law
    Verdict,          \* what the engine finds: <<analysis, status, evidence>>
                      \*   to its score and its number of alerts
    HighRisk,         \* the score at which the beat re-assesses (60)
    Limit,            \* how many taxpayers one beat selects (500)
    SellerLimit,      \* how many sellers the weekly scan tests (100)
    MaxBeats,         \* bound: periodic tasks that the beat puts in the broker
    MaxWorkerCrashes, \* bound: worker processes lost
    MaxApiCrashes,    \* bound: API processes lost
    MaxFailures       \* bound: sessions that end with an exception

\* The analyses: assess_risk, run_full_analysis, _reassess_risk and
\* _analyze_invoice_async.  The first two keep total_alerts up to date.
Counting == {"assess", "full"}
Scoring  == Counting \cup {"reassess"}
Analyses == Scoring \cup {"invoice"}
\* ... and what writes the status.
StatusWriters == {"webhook", "patch", "sync"}
Kinds    == Analyses \cup StatusWriters \cup {"none"}

Findings == [score : Nat, alerts : Nat]

ASSUME TaxpayerAssumption == Taxpayers # {}
ASSUME StatusAssumption ==
    ACTIVE \in Statuses /\ NoEvidence \in Evidence /\ Skewed \subseteq Evidence
ASSUME VerdictAssumption ==
    Verdict \in [Analyses \X Statuses \X Evidence -> Findings]
ASSUME BoundAssumption ==
    /\ HighRisk \in Nat /\ Limit \in Nat /\ SellerLimit \in Nat /\ MaxBeats \in Nat
    /\ MaxWorkerCrashes \in Nat /\ MaxApiCrashes \in Nat /\ MaxFailures \in Nat

VARIABLES
    status,     \* taxpayers.status
    risk,       \* taxpayers.risk_score
    total,      \* taxpayers.total_alerts
    rows,       \* the number of alerts rows of each taxpayer
    evidence,   \* the invoices and transactions of each taxpayer
    job,        \* every session: its request, what it read, what it found
    beat,       \* the periodic task reassess_high_risk_taxpayers
    scan,       \* the periodic task run_benford_scan
    faults,     \* how many crashes and failures so far
    overlapped  \* history: two sessions held a taxpayer's row at once

vars == <<status, risk, total, rows, evidence, job, beat, scan, faults, overlapped>>
table == <<status, risk, total, rows>>

-----------------------------------------------------------------------------
(* Types and the initial state.                                            *)

Rows == [status : Statuses, risk : Nat, total : Nat]

\* "queued": in the broker, or in the API process's background tasks;
\* "committed": a Celery task whose message is not acknowledged yet.
Stages == {"free", "queued", "loaded", "analysed", "committed", "done", "failed"}

Job == [kind : Kinds, tin : Taxpayers, stage : Stages,
        want : Statuses, row : Rows, found : Findings]

BeatTask == [stage : {"idle", "due", "sending", "failed"},
             high : SUBSET Taxpayers, todo : SUBSET Taxpayers,
             sent : SUBSET Taxpayers, fired : Nat]

\* found: the sellers to raise an alert for; raised: the alerts committed.
ScanTask == [stage : {"idle", "due", "found", "committed"},
             found : SUBSET Taxpayers, raised : [Taxpayers -> Nat], fired : Nat]

Faults == [worker : Nat, api : Nat, failure : Nat]

TypeOK ==
    /\ status \in [Taxpayers -> Statuses]
    /\ risk \in [Taxpayers -> Nat]
    /\ total \in [Taxpayers -> Nat]
    /\ rows \in [Taxpayers -> Nat]
    /\ evidence \in [Taxpayers -> Evidence]
    /\ job \in [Jobs -> Job]
    /\ beat \in BeatTask
    /\ scan \in ScanTask
    /\ faults \in Faults
    /\ overlapped \in [Taxpayers -> BOOLEAN]

AnyTin  == CHOOSE t \in Taxpayers : TRUE   \* of a job not in use
NewRow  == [status |-> ACTIVE, risk |-> 0, total |-> 0]
Nothing == [score |-> 0, alerts |-> 0]

Init ==
    /\ status = [t \in Taxpayers |-> ACTIVE]
    /\ risk = [t \in Taxpayers |-> 0]
    /\ total = [t \in Taxpayers |-> 0]
    /\ rows = [t \in Taxpayers |-> 0]
    /\ evidence = [t \in Taxpayers |-> NoEvidence]
    /\ job = [j \in Jobs |-> [kind |-> "none", tin |-> AnyTin, stage |-> "free",
                              want |-> ACTIVE, row |-> NewRow, found |-> Nothing]]
    /\ beat = [stage |-> "idle", high |-> {}, todo |-> {}, sent |-> {}, fired |-> 0]
    /\ scan = [stage |-> "idle", found |-> {}, raised |-> [t \in Taxpayers |-> 0], fired |-> 0]
    /\ faults = [worker |-> 0, api |-> 0, failure |-> 0]
    /\ overlapped = [t \in Taxpayers |-> FALSE]

-----------------------------------------------------------------------------
(* Sessions.                                                               *)

RowOf(t) == [status |-> status[t], risk |-> risk[t], total |-> total[t]]

\* A session that has read the row of its taxpayer and not yet ended.
InFlight(j) == job[j].stage \in {"loaded", "analysed"}

\* ... and may write that row (an invoice's analysis only reads it).
Holds(j, t) == InFlight(j) /\ job[j].tin = t /\ job[j].kind # "invoice"

\* A SELECT of the taxpayer by job j, whose session is a new one.
ReadRow(j, kind, t, want) ==
    /\ job' = [job EXCEPT ![j] = [kind |-> kind, tin |-> t, stage |-> "loaded",
                                  want |-> want, row |-> RowOf(t), found |-> Nothing]]
    /\ overlapped' = [overlapped EXCEPT ![t] =
                        @ \/ (kind # "invoice" /\ \E k \in Jobs \ {j} : Holds(k, t))]

\* A task for t is due, in the broker or in the API process.
Enqueue(j, kind, t) ==
    job' = [job EXCEPT ![j] = [@ EXCEPT !.kind = kind, !.tin = t, !.stage = "queued"]]

\* The session of job j ends: what it had read is gone, and the job goes on
\* to a stage without a session.
Reach(j, stage) == job' = [job EXCEPT ![j].stage = stage, ![j].row = NewRow]

\* The value of a column after the commit of a session that read `old` and
\* assigned `new`: the unit of work leaves a column alone if they are equal.
Written(current, old, new) == IF new = old THEN current ELSE new

-----------------------------------------------------------------------------
(* Requests.                                                               *)

\* POST /taxpayers/{tin}/assess-risk: its first query.
AssessRisk(j, t) ==
    /\ job[j].stage = "free"
    /\ ReadRow(j, "assess", t, status[t])
    /\ UNCHANGED <<table, evidence, beat, scan, faults>>

\* POST /webhook/taxpayer-updated with status s: reads the taxpayer.  A
\* payload without a valid status is the case s = status[t].
ReceiveUpdate(j, t, s) ==
    /\ job[j].stage = "free"
    /\ ReadRow(j, "webhook", t, s)
    /\ UNCHANGED <<table, evidence, beat, scan, faults>>

\* PATCH /taxpayers/{tin} with status s: reads the taxpayer.
UpdateTaxpayer(j, t, s) ==
    /\ job[j].stage = "free"
    /\ ReadRow(j, "patch", t, s)
    /\ UNCHANGED <<table, evidence, beat, scan, faults>>

\* A synchronisation, in the API process or in a worker, has the TMS's answer
\* for t, with status s in it, and reads the taxpayer.  Asking, answers that
\* fail and deliveries are TaxpayerRegistry's; each delivery is a job here.
Synchronise(j, t, s) ==
    /\ job[j].stage = "free"
    /\ ReadRow(j, "sync", t, s)
    /\ UNCHANGED <<table, evidence, beat, scan, faults>>

\* After the response's commit the webhook's background task is due; it gets
\* the TIN and opens a session of its own.
\* (Mutant: it is given the row the request had read.)
BackgroundSharesRow(j) == job' = [job EXCEPT ![j].kind = "reassess"]
Background(j) ==
    job' = [job EXCEPT ![j].kind = "reassess", ![j].stage = "queued", ![j].row = NewRow]

\* A synchronisation assigns the status as the string of the answer.  What the
\* column takes is the name of a TaxpayerStatus, which never equals the member
\* that was read, so that it is always written.
NewStatus(j) ==
    IF job[j].kind = "sync" THEN job[j].want
    ELSE Written(status[job[j].tin], job[j].row.status, job[j].want)

\* get_db, or the synchronisation, commits the status that was assigned.
CommitStatus(j) ==
    /\ job[j].stage = "loaded"
    /\ job[j].kind \in StatusWriters
    /\ status' = [status EXCEPT ![job[j].tin] = NewStatus(j)]
    /\ IF job[j].kind = "webhook" THEN Background(j) ELSE Reach(j, "done")
    /\ UNCHANGED <<risk, total, rows, evidence, beat, scan, faults, overlapped>>

\* POST /invoices/ commits an invoice of seller t, which changes what the
\* records of t show, and leaves _analyze_invoice_async to a background task.
SubmitInvoice(j, t, e) ==
    /\ job[j].stage = "free"
    /\ evidence' = [evidence EXCEPT ![t] = e]
    /\ Enqueue(j, "invoice", t)
    /\ UNCHANGED <<table, beat, scan, faults, overlapped>>

-----------------------------------------------------------------------------
(* Analyses.                                                               *)

\* The queued task or background task starts and reads its taxpayer.
Load(j) ==
    /\ job[j].stage = "queued"
    /\ ReadRow(j, job[j].kind, job[j].tin, job[j].want)
    /\ UNCHANGED <<table, evidence, beat, scan, faults>>

\* Invoices and transactions are read after the row, then the engine runs
\* in memory: it sees the status of the row read and the records of now.
\* (Mutant: the engine returns a record without the alerts.)
EngineScore(j) ==
    [score |-> Verdict[<<job[j].kind, job[j].row.status, evidence[job[j].tin]>>].score]
EngineVerdict(j) == Verdict[<<job[j].kind, job[j].row.status, evidence[job[j].tin]>>]

Analyse(j) ==
    /\ job[j].stage = "loaded"
    /\ job[j].kind \in Analyses
    /\ job' = [job EXCEPT ![j].stage = "analysed", ![j].found = EngineVerdict(j)]
    /\ UNCHANGED <<table, evidence, beat, scan, faults, overlapped>>

\* The alerts found become rows of the alerts table.
\* (Mutants: only those not raised before; in place of the earlier ones; the
\* commit is skipped if there are none.)
InsertNewAlerts(j) ==
    rows' = [rows EXCEPT ![job[j].tin] = Max({@, job[j].found.alerts})]
ReplaceAlerts(j) == rows' = [rows EXCEPT ![job[j].tin] = job[j].found.alerts]
InsertAlertsIfAny(j) ==
    /\ job[j].found.alerts > 0
    /\ rows' = [rows EXCEPT ![job[j].tin] = @ + job[j].found.alerts]
InsertAlerts(j) == rows' = [rows EXCEPT ![job[j].tin] = @ + job[j].found.alerts]

\* Of the taxpayer's row an analysis assigns the score; the status it read
\* is not written.
\* (Mutant: the whole row is written.)
WriteRow(j) ==
    /\ risk' = [risk EXCEPT ![job[j].tin] = job[j].found.score]
    /\ status' = [status EXCEPT ![job[j].tin] = job[j].row.status]
WriteScore(j) ==
    /\ risk' = [risk EXCEPT ![job[j].tin] =
                   Written(@, job[j].row.risk, job[j].found.score)]
    /\ UNCHANGED status

\* The total READ plus the alerts of this analysis.
\* (Mutant: without the total read.)
TotalOfThisAnalysis(j) == job[j].found.alerts
NewTotal(j) == job[j].row.total + job[j].found.alerts

\* assess_risk and run_full_analysis commit their alerts, the score and the
\* new total.  The Celery task is acknowledged later.
CommitAssessment(j) ==
    /\ job[j].stage = "analysed"
    /\ job[j].kind \in Counting
    /\ InsertAlerts(j)
    /\ WriteScore(j)
    /\ total' = [total EXCEPT ![job[j].tin] =
                   Written(@, job[j].row.total, NewTotal(j))]
    /\ Reach(j, IF job[j].kind = "full" THEN "committed" ELSE "done")
    /\ UNCHANGED <<evidence, beat, scan, faults, overlapped>>

\* _reassess_risk commits its alerts and the score, and leaves the total.
CommitReassessment(j) ==
    /\ job[j].stage = "analysed"
    /\ job[j].kind = "reassess"
    /\ InsertAlerts(j)
    /\ WriteScore(j)
    /\ Reach(j, "done")
    /\ UNCHANGED <<total, evidence, beat, scan, faults, overlapped>>

\* _analyze_invoice_async commits its alerts and nothing of the taxpayer.
CommitInvoiceAnalysis(j) ==
    /\ job[j].stage = "analysed"
    /\ job[j].kind = "invoice"
    /\ InsertAlerts(j)
    /\ Reach(j, "done")
    /\ UNCHANGED <<status, risk, total, evidence, beat, scan, faults, overlapped>>

\* task_acks_late: the message leaves the broker after the task has run.
Acknowledge(j) ==
    /\ job[j].stage = "committed"
    /\ Reach(j, "done")
    /\ UNCHANGED <<table, evidence, beat, scan, faults, overlapped>>

-----------------------------------------------------------------------------
(* The beat: reassess_high_risk_taxpayers.                                 *)

High == {t \in Taxpayers : risk[t] >= HighRisk}

\* The schedule puts the periodic task in the broker.
Beat ==
    /\ beat.stage \in {"idle", "failed"}
    /\ beat.fired + scan.fired < MaxBeats
    /\ beat' = [beat EXCEPT !.stage = "due", !.fired = @ + 1,
                            !.high = {}, !.sent = {}]
    /\ UNCHANGED <<table, evidence, job, scan, faults, overlapped>>

\* The task selects TINs: any Limit of them, for the query has no order.
SelectHighRisk(S) ==
    /\ beat.stage = "due"
    /\ S \subseteq High
    /\ Cardinality(S) = Min({Limit, Cardinality(High)})
    /\ beat' = [beat EXCEPT !.stage = "sending", !.high = High, !.todo = S]
    /\ UNCHANGED <<table, evidence, job, scan, faults, overlapped>>

\* run_full_analysis.delay(tin) for the next TIN.
QueueAnalysis(j, t) ==
    /\ beat.stage = "sending"
    /\ t \in beat.todo
    /\ job[j].stage = "free"
    /\ Enqueue(j, "full", t)
    /\ beat' = [beat EXCEPT !.todo = @ \ {t}, !.sent = @ \cup {t}]
    /\ UNCHANGED <<table, evidence, scan, faults, overlapped>>

FinishBeat ==
    /\ beat.stage = "sending"
    /\ beat.todo = {}
    /\ beat' = [beat EXCEPT !.stage = "idle"]
    /\ UNCHANGED <<table, evidence, job, scan, faults, overlapped>>

-----------------------------------------------------------------------------
(* The weekly scan: run_benford_scan.                                      *)

\* The schedule fires it, or a worker died with it.  It tests the sellers S
\* with the most invoices (30 at least; how many there are is not modelled,
\* so that any may be the first ones), one query after the other; each is on
\* its own, so one step stands for all.  Their status is not asked for,
\* although the docstring says "active".
TestSellers(S) ==
    /\ \/ /\ scan.stage = "idle"
          /\ beat.fired + scan.fired < MaxBeats
       \/ scan.stage = "due"
    /\ S \subseteq Taxpayers
    /\ Cardinality(S) = Min({SellerLimit, Cardinality(Taxpayers)})
    /\ scan' = [scan EXCEPT !.stage = "found", !.found = {t \in S : evidence[t] \in Skewed},
                            !.fired = IF scan.stage = "idle" THEN @ + 1 ELSE @]
    /\ UNCHANGED <<table, evidence, job, beat, faults, overlapped>>

\* One transaction inserts an alert for each that it found suspicious.  No
\* taxpayer's row is read or written: no total counts these alerts.
CommitScan ==
    /\ scan.stage = "found"
    /\ rows' = [t \in Taxpayers |-> rows[t] + (IF t \in scan.found THEN 1 ELSE 0)]
    /\ scan' = [scan EXCEPT !.stage = "committed",
                    !.raised = [t \in Taxpayers |-> @[t] + (IF t \in scan.found THEN 1 ELSE 0)]]
    /\ UNCHANGED <<status, risk, total, evidence, job, beat, faults, overlapped>>

AcknowledgeScan ==
    /\ scan.stage = "committed"
    /\ scan' = [scan EXCEPT !.stage = "idle", !.found = {}]
    /\ UNCHANGED <<table, evidence, job, beat, faults, overlapped>>

-----------------------------------------------------------------------------
(* Crashes and failures.                                                   *)

\* A worker process dies while it runs a task: the message, which was not
\* acknowledged, is delivered again and the task starts over.
\* (Mutants, here and below: acknowledged before it runs, it is lost.)
Drop(j) == Reach(j, "failed")
Redeliver(j) == Reach(j, "queued")

CrashWorker(j) ==
    /\ faults.worker < MaxWorkerCrashes
    /\ job[j].kind = "full"
    /\ job[j].stage \in {"loaded", "analysed", "committed"}
    /\ faults' = [faults EXCEPT !.worker = @ + 1]
    /\ Redeliver(j)
    /\ UNCHANGED <<table, evidence, beat, scan, overlapped>>

\* ... the periodic task too: it selects again, and queues some TINs twice.
DropBeat == beat' = [beat EXCEPT !.stage = "idle", !.todo = {}]
RedeliverBeat == beat' = [beat EXCEPT !.stage = "due", !.todo = {}]

CrashBeat ==
    /\ faults.worker < MaxWorkerCrashes
    /\ beat.stage = "sending"
    /\ faults' = [faults EXCEPT !.worker = @ + 1]
    /\ RedeliverBeat
    /\ UNCHANGED <<table, evidence, job, scan, overlapped>>

\* ... and the scan, which raises its alerts a second time if it had committed.
CrashScan ==
    /\ faults.worker < MaxWorkerCrashes
    /\ scan.stage \in {"found", "committed"}
    /\ faults' = [faults EXCEPT !.worker = @ + 1]
    /\ scan' = [scan EXCEPT !.stage = "due", !.found = {}]
    /\ UNCHANGED <<table, evidence, job, beat, overlapped>>

\* Background tasks live in the API process: when it dies, they and the
\* requests it was serving are gone.
CrashApi ==
    /\ faults.api < MaxApiCrashes
    /\ faults' = [faults EXCEPT !.api = @ + 1]
    /\ job' = [j \in Jobs |->
                IF job[j].kind # "full" /\ job[j].stage \in {"queued", "loaded", "analysed"}
                THEN [job[j] EXCEPT !.stage = "failed", !.row = NewRow] ELSE job[j]]
    /\ UNCHANGED <<table, evidence, beat, scan, overlapped>>

\* An exception in a session rolls it back.  No caller retries it: a Celery
\* task that raises is acknowledged, and run_full_analysis never calls
\* self.retry in spite of its max_retries.
Fail(j) ==
    /\ faults.failure < MaxFailures
    /\ InFlight(j)
    /\ faults' = [faults EXCEPT !.failure = @ + 1]
    /\ Reach(j, "failed")
    /\ UNCHANGED <<table, evidence, beat, scan, overlapped>>

\* ... nor does anything retry the periodic task, whatever is left to send.
FailBeat ==
    /\ faults.failure < MaxFailures
    /\ beat.stage \in {"due", "sending"}
    /\ faults' = [faults EXCEPT !.failure = @ + 1]
    /\ beat' = [beat EXCEPT !.stage = "failed", !.todo = {}]
    /\ UNCHANGED <<table, evidence, job, scan, overlapped>>

FailScan ==
    /\ faults.failure < MaxFailures
    /\ scan.stage = "found"
    /\ faults' = [faults EXCEPT !.failure = @ + 1]
    /\ scan' = [scan EXCEPT !.stage = "idle", !.found = {}]
    /\ UNCHANGED <<table, evidence, job, beat, overlapped>>

-----------------------------------------------------------------------------
(* The specification.                                                      *)

Commit(j) ==
    CommitAssessment(j) \/ CommitReassessment(j) \/ CommitInvoiceAnalysis(j)

\* What the event loop of the API or the worker that took the task does next.
Progress(j) ==
    Load(j) \/ Analyse(j) \/ Commit(j) \/ CommitStatus(j) \/ Acknowledge(j)

Request(j, t) ==
    \/ AssessRisk(j, t)
    \/ \E s \in Statuses :
         ReceiveUpdate(j, t, s) \/ UpdateTaxpayer(j, t, s) \/ Synchronise(j, t, s)
    \/ \E e \in Evidence : SubmitInvoice(j, t, e)
    \/ QueueAnalysis(j, t)

WeeklyScan ==
    \/ \E S \in SUBSET Taxpayers : TestSellers(S)
    \/ CommitScan \/ AcknowledgeScan \/ CrashScan \/ FailScan

Next ==
    \/ \E j \in Jobs : Progress(j) \/ CrashWorker(j) \/ Fail(j)
    \/ \E j \in Jobs, t \in Taxpayers : Request(j, t)
    \/ \E S \in SUBSET Taxpayers : SelectHighRisk(S)
    \/ Beat \/ FinishBeat \/ CrashBeat \/ FailBeat \/ WeeklyScan \/ CrashApi

Spec == Init /\ [][Next]_vars

\* A session that has started keeps being scheduled: coroutines by asyncio,
\* tasks by the Celery workers.  Nothing says that a request ever arrives.
FairSpec == Spec /\ \A j \in Jobs : WF_vars(Progress(j))

-----------------------------------------------------------------------------
(* Properties.                                                             *)

\* The counter that top-risk-taxpayers and assess-risk show never claims an
\* alert that is not in the table, however sessions overlap, crash and are
\* redelivered: `total_alerts = loaded total + len(alerts)` may lose alerts
\* of others, never invent one.
NeverOverCounted == \A t \in Taxpayers : total[t] <= rows[t]

\* Why: every total a session has read is backed by committed rows.
ReadTotalsBacked ==
    \A j \in Jobs : InFlight(j) => job[j].row.total <= rows[job[j].tin]

\* The alerts that the ended sessions of taxpayer t, of these kinds, found.
Reported(kinds, t) ==
    MapThenSumSet(LAMBDA j : job[j].found.alerts,
                  {j \in Jobs : /\ job[j].stage \in {"committed", "done"}
                                /\ job[j].kind \in kinds
                                /\ job[j].tin = t})

\* Alert rows are inserts: unlike the counter they survive every overlap.
\* Each ended session has its alerts in the table, beside those of the weekly
\* scan, and they are there once unless a worker died and its task,
\* redelivered, inserted them again.
AlertsConserved ==
    \A t \in Taxpayers :
        /\ Reported(Analyses, t) + scan.raised[t] <= rows[t]
        /\ faults.worker = 0 => /\ rows[t] = Reported(Analyses, t) + scan.raised[t]
                                /\ scan.raised[t] <= scan.fired

\* Only overlap makes the counter fall behind on what the counting analyses
\* insert: while no two sessions ever held t's row at once, it misses the
\* alerts of _reassess_risk, _analyze_invoice_async and the weekly scan and
\* no other, through crashes between commit and acknowledgement included.
CounterExactAlone ==
    \A t \in Taxpayers :
        ~overlapped[t] =>
            total[t] + Reported(Analyses \ Counting, t) + scan.raised[t] = rows[t]

\* The jobs of t whose analysis is still to be committed, or was lost.
Outstanding(t) ==
    {j \in Jobs : /\ job[j].tin = t
                  /\ job[j].kind \in Scoring \cup {"webhook"}
                  /\ job[j].stage \in {"queued", "loaded", "analysed", "failed"}}

\* A status that a webhook pushed is the one the score was computed from,
\* once the re-assessment has run and if no session overlapped another: the
\* background task reads the row AFTER the request's commit.  PATCH and the
\* synchronisation with the TMS are excepted, for they trigger no analysis.
ScoreFollowsStatus ==
    \A t \in Taxpayers :
        (/\ ~overlapped[t]
         /\ Outstanding(t) = {}
         /\ \A j \in Jobs : job[j].kind \in {"patch", "sync"} => job[j].tin # t
         /\ \E j \in Jobs : /\ job[j].tin = t /\ job[j].stage = "done"
                            /\ job[j].kind = "reassess")
        => \E k \in Scoring, e \in Evidence :
               risk[t] = Verdict[<<k, status[t], e>>].score

\* An analysis that read the row before a status change and commits after it
\* does not put the old status back: only a webhook, a PATCH or a
\* synchronisation changes the status, and to the one it was given.
StatusOnlyByRequest ==
    [][\A t \in Taxpayers : status'[t] # status[t] =>
         \E j \in Jobs : /\ job[j].kind \in StatusWriters
                        /\ job[j].tin = t /\ job[j].want = status'[t]
                        /\ job'[j].stage # job[j].stage]_status

\* acks_late: a queued run_full_analysis is carried to a commit and
\* acknowledged, though workers may die under it at any step.
QueuedTaskCompletes ==
    \A j \in Jobs : (job[j].kind = "full" /\ job[j].stage = "queued")
                     ~> (job[j].stage = "done")

\* integrations.py:103 "Triggers immediate risk re-assessment": once the
\* webhook has answered, its re-assessment is carried to a commit.
WebhookReassessed ==
    \A j \in Jobs : (job[j].kind = "reassess" /\ job[j].stage = "queued")
                     ~> (job[j].stage = "done")

\* README.md:211 "Re-run full analysis on all taxpayers with risk >= 60": a
\* beat that has ended without failure has sent them all.
AllHighRiskSent == beat.stage = "idle" => beat.high \subseteq beat.sent

-----------------------------------------------------------------------------
(* The abstract service.                                                   *)

\* What a client sees of a queued run_full_analysis.
SeenAs(kind, stage) ==
    CASE kind # "full" -> "none"
      [] kind = "full" /\ stage \in {"queued", "loaded", "analysed"} -> "pending"
      [] kind = "full" /\ stage = "committed" -> "stored"
      [] kind = "full" /\ stage = "done" -> "done"
      [] kind = "full" /\ stage = "failed" -> "lost"
      [] kind = "full" /\ stage = "free" -> "none"
TaskState(j) == SeenAs(job[j].kind, job[j].stage)
TaskStates == [j \in Jobs |-> TaskState(j)]

Service == INSTANCE AssessmentService
    WITH Tasks <- Jobs, task <- TaskStates, alerts <- rows, shown <- total

\* Through overlapping sessions, stale totals, crashes and redelivery, the
\* requests and tasks together keep the promises of AssessmentService.
ImplementsService == Service!Spec
=============================================================================
