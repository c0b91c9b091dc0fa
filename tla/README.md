# VATGuard: a TLA+ model of the fraud detection platform

This directory specifies the parts of VATGuard whose correctness depends on the
order in which things happen, or on a boundary that is easy to get wrong: the
risk columns of a taxpayer, the invoices table and the registration of
taxpayers, each with everything that writes it concurrently; the workflow of
alerts and cases; the matching of seller and buyer invoices; and the detection
engine as a function of what an analysis is given. TLC checks the modules on
small instances; TLAPS proves the most important invariants, and that the
queued analyses implement an abstract service, for every value of the
constants.

Paths below are relative to the repository root (`src/...` is the Python
package).

## 1. The system

| Component | State | Operations | Interacts with |
|---|---|---|---|
| Sessions (`src/database.py`) | a PostgreSQL transaction, an identity map | `get_db`: commit on return, rollback on exception; `AsyncSessionLocal` in tasks | every other component |
| Taxpayer registry (`api/v1/taxpayers.py`, `models/taxpayer.py`) | `taxpayers` rows: status, `risk_score`, `total_alerts` | create, PATCH, `assess_risk` | engine, alerts |
| Integrations API (`api/v1/integrations.py`) | background tasks in the memory of the API process | TMS sync, customs verification, SAR, invoice webhook, taxpayer webhook | clients, taxpayers, engine |
| Invoice intake (`api/v1/invoices.py`) | `invoices` rows, background tasks | submit, batch, match, PATCH, `_analyze_invoice_async` | engine, matcher |
| Celery tasks (`workers/`) | messages in Redis (late acknowledgement), the beat's schedule | `run_full_analysis`, `reassess_high_risk_taxpayers`, `batch_invoice_match`, `scan_unmatched_invoices`, `run_benford_scan`, `sync_from_tms` | everything |
| Detection engine (`fraud_detection/engine.py`) | none | `analyze_taxpayer`: five rule detectors, anomaly, Benford and graph analysis, composite score, alerts | called by four analyses |
| Alert workflow (`api/v1/alerts.py`) | `alerts` rows: status, assignee, case, two time stamps | PATCH, escalate, statistics | cases |
| Case management (`api/v1/cases.py`) | `cases` rows | create, PATCH | alerts |
| Invoice matcher (`fraud_detection/realtime/invoice_matcher.py`) | the attribute `_duplicate` on invoice objects | `match_period`, `match_single` | match endpoint, batch task |
| Rules, scorer, graph, Benford (`fraud_detection/`) | none | pure functions of rows and time | the engine |
| Anomaly detector, classifier (`fraud_detection/ml/`) | a fitted model, which only tests and a script fit | `detect`, `fit`, training | the engine calls `detect` |
| Integration clients (`src/integrations/`) | an HTTP client | GET and POST, `None` on any failure | integrations API, sync task |
| Analytics, audit, shell | none that changes | reads; a table nobody writes; configuration | - |

**What makes it hard.** There is no lock, no version column and no state check
in the repository. Every request and task opens a session on a READ COMMITTED
database, reads a row, awaits other queries, computes in memory, and commits;
the unit of work writes the columns whose value differs from the value *read*.
Two sessions on one row therefore merge column by column, and the later one may
write a value computed from a stale reading. On top of that:

* Celery acknowledges late (`task_acks_late`, `task_reject_on_worker_lost`): a
  task whose worker dies is run again, even if it had committed. A task that
  *raises* is acknowledged; `max_retries=3` is never used.
* FastAPI background tasks run after the response's commit and live in the
  memory of the API process. The invoice webhook inserts in one, after it has
  answered.
* Several queries take a `limit`, or a "last" element, without an order.
* A check and the insert or the write it allows are two statements; what the
  unique indexes and foreign keys refuse is an exception at the commit.
* A client of another system turns every failure into `None`; its answer is
  older than the row it is written over. Its docstring says "retries"
  (`integrations/base.py:16`), but nothing retries.
* The matcher writes marks on invoice objects in two passes and reads them in a
  third, and the endpoint gives it rows of one session, in which an invoice of
  the pair is one object in both lists.
* The thresholds of the rules are met exactly by the patterns they are for: a
  point less and the pattern is silent.

**What makes each component correct** is stated as properties in section 3. The
hazards, line by line, are in `PROJECT.json`.

## 2. Modules

| Module | Models | Uses |
|---|---|---|
| `RiskAssessment` | the risk columns of taxpayers and their writers | `AssessmentService` (refinement) |
| `AssessmentService` | what clients of the queued analyses may rely on | |
| `AlertWorkflow` | alerts and cases | |
| `InvoiceLedger` | the invoices table and its writers | `InvoiceMatcher` (`INSTANCE`) |
| `InvoiceMatcher` | `InvoiceMatcher.match_period` | |
| `TaxpayerRegistry` | registration columns, TMS synchronisation | |
| `FraudEngine` | `analyze_taxpayer` on a growing history | `DetectorRules` |
| `DetectorRules` | the five rules and the Benford test | `TradeGraph`, `RiskScorer` |
| `TradeGraph` | the graph of trade, chains, network risk | |
| `RiskScorer` | the five components and the composite | |
| `*Proofs`, `RiskAssessmentRefinement` | theorems | the module they are named for |
| `FoldFacts` | what sums and folds are, for the proofs | |

How they meet: `RiskAssessment` takes the engine as a constant `Verdict`, any
function to a score and a number of alerts; `FraudEngine` says what the engine
computes. `RiskAssessment` has an invoice's submission only as a trigger of an
analysis; `InvoiceLedger` has the invoice's row, and the analysis only as a
writer of `is_suspicious`. `TaxpayerRegistry` has the columns of a taxpayer that
`RiskAssessment` leaves alone.

### RiskAssessment

The state is the `taxpayers` columns `status`, `risk_score` (`risk`) and
`total_alerts` (`total`), the number of `alerts` rows of each taxpayer
(`rows`), and what its invoices and transactions show (`evidence`, a member of
a small set; those in `Skewed` fail Benford's test). A session is a *job*: it reads the row (`ReadRow`), reads the
records and runs the engine (`Analyse`), and commits. Between any two steps
anything may happen.

| Code | Actions |
|---|---|
| `assess_risk` | `AssessRisk`, `Analyse`, `CommitAssessment` |
| `receive_taxpayer_update_webhook`, then `_reassess_risk` | `ReceiveUpdate`, `CommitStatus` (which leaves the background task), `Load`, `Analyse`, `CommitReassessment` |
| `update_taxpayer` | `UpdateTaxpayer`, `CommitStatus` |
| `_sync_from_tms`, `sync_from_tms`, of the status | `Synchronise`, `CommitStatus` |
| `submit_invoice`, then `_analyze_invoice_async` | `SubmitInvoice`, `Load`, `Analyse`, `CommitInvoiceAnalysis` |
| `reassess_high_risk_taxpayers` | `Beat`, `SelectHighRisk`, `QueueAnalysis` for each TIN, `FinishBeat` |
| `run_full_analysis` | `Load`, `Analyse`, `CommitAssessment`, `Acknowledge` |
| `run_benford_scan` | `TestSellers`, `CommitScan`, `AcknowledgeScan` |
| loss of a worker, of the API process, an exception | `CrashWorker`, `CrashBeat`, `CrashScan`, `CrashApi`, `Fail`, `FailBeat`, `FailScan` |

`Written(current, read, assigned)` is the unit of work: the column keeps its
current value if the session assigned what it had read. The engine is the
constant `Verdict`, any function of the kind of analysis, the status read and
the evidence to a score and a number of alerts; the proofs hold for all of
them. The reads of invoices and transactions and the engine's run are one step,
because only what the records show matters and it is read after the row. A
synchronisation assigns every attribute that its answer names, `status` among
them (`api/v1/integrations.py:138-140`, `workers/tasks.py:311-313`), and
triggers no analysis; how it asks, fails and is delivered again is in
`TaxpayerRegistry`.
The weekly scan writes alerts and no taxpayer (`scan`). It takes at most a
hundred sellers, those with the most invoices, whatever their status: its
docstring says "active" taxpayers (`workers/tasks.py:229`), but the query does
not ask.

### AssessmentService

The abstract specification of a queued analysis: a task is `pending`, `stored`,
`done` or `lost`; only one that has stored nothing is lost, and a stored one may
be stored again before it is done (at least once). Alerts of a taxpayer are
never taken back and the number shown never exceeds them. There are no
sessions, reads, workers or beats. `RiskAssessment` maps a job's kind and stage
to the state of its task (`TaskStates`), `rows` to `alerts` and `total` to
`shown`; `ImplementsService` is the implementation, liveness included. The alerts
that others insert come at any time, for any taxpayers (`Other`): an invoice's
analysis adds to one, the weekly scan to several at once.

### AlertWorkflow

The state is the `alerts` rows (status, assignee, `assigned_at`, `resolved_at`,
`case_id`), the ids of the committed `cases` and their rows. A request reads a
row (`UpdateAlert`, `EscalateAlert`, `UpdateCase`) and commits what its handler
made of it: `Edited` is `update_alert`, `Escalated` is `escalate_alert`, whose
`FlushCase` inserts the case inside the transaction before the alert is
changed. `Merge` is the column-wise commit; `RejectUpdate` is a PATCH whose
`case_id` violates the foreign key. Time stamps are the request that took them:
the code only asks whether there is one, and `VerdictHasItsStamp` asks whose it
is. Alerts exist from the start (what the engine inserts is `NewAlert`); titles,
notes, severities and priorities are left out.

### InvoiceMatcher

`MatchPeriod(s, b)` is `match_period`: two folds build the indexes (a dict is
the sequence of its values in insertion order) and spread the marks, `Pair` and
`Phantom` compare. Amounts are whole units, the risk is in hundredths, rounded
to the nearest as the code rounds it: from 99 975 of VAT on, a `seller_only`
invoice has the 50.0 at which the batch match calls it suspicious. The state
machine around it declares invoices one by one in either list, so that every pair of
lists is a state.

### InvoiceLedger

The state is the `invoices` rows (`status`, the two `declared_by_*` columns and
`is_suspicious`), the alerts of the scan, API sessions and Celery workers. A
session's *changes* are the columns that differ from the row it read; they are
what its commit writes.

| Code | Actions |
|---|---|
| `submit_invoice`, `_analyze_invoice_async` | `SubmitInvoice`, `AnalyseInvoice`, `CommitSession` |
| `submit_batch` | `SubmitBatch` (one transaction, all or nothing) |
| `receive_invoice_webhook`, `_process_webhook_invoice` | `ReceiveWebhook`, `ProcessWebhook` |
| `update_invoice` | `LoadPatch`, `CommitSession` |
| `_async_scan_unmatched` | `SelectUnmatched`, `CommitWork` |
| `_async_batch_match` | `MatchPeriod`, `CommitWork` |
| loss of a worker before or after the commit, of the API process | `CrashWorker`, `CommitAndCrash`, `CrashApi` |
| an exception in a task, in a request or in a background task (the webhook's insert) | `FailWork`, `FailSession` |
| 30 days pass | `PassDeadline` |

The matching endpoint writes nothing; what it answers on the current rows is in
the property `PairMatchesItself`. Things the code does that the module keeps:
the scan selects any `Limit` of the unmatched (the query has no order); it does
not look again before it writes, so that a PATCH that comes between does not
stop the alert; the batch match looks at the first buyer only, blames the
seller's first invoice for every result, and creates no alert although
`workers/tasks.py:80` says it "generates alerts"; an invoice that it marks
UNMATCHED is no longer RECEIVED and is never scanned; the assignment to
`invoice.risk_score` after an analysis assigns the value it has; batch and
webhook invoices are not analysed. Nothing in `src/` writes
`vat_return_period`, nor queues `batch_invoice_match`: any rows may be those of
a period, and the match may be queued at any time.

### TaxpayerRegistry

The state is the registration columns of `taxpayers` (among them the unique VAT
number; the status, which a synchronisation writes too, is in
`RiskAssessment`), the TMS's current record of each TIN, and one-shot jobs: POST
(`CheckNew`, `InsertNew`), PATCH (`LoadPatch`, `CommitRow`), and the
synchronisation of the API and of the task (`QueueSync`, `Ask` or `AskInVain`,
`LoadRow`, `CommitRow`, `Acknowledge`), with `CrashWorker`, `CrashApi` and
`UpdateTms`. A job asks first and reads the row when the answer is there; a task
for a TIN without a row answers "synced". Jobs are numbered as they start and
forget their data when they end, which leaves fewer states to check.

Two history variables say what the properties need: `replayed` is the profile
that running the committed sessions one by one gives, in the order of the
records they hold, and `overlapped` the taxpayers of whom two sessions were open
at once.

### FraudEngine, DetectorRules, TradeGraph, RiskScorer

`Report(taxpayer, invoices, transactions, now)` is `analyze_taxpayer`: the
signals of each rule with their points, thresholds, caps, severities and
confidences; the Benford test of issued invoices; chains, network risk and node
metrics; the five components and the composite. What an analysis is given is a
member of `Reads`: three callers select the taxpayer's invoices
(`OwnInvoices`), 1000 or 500 of them, and 200 or 100 of its transactions; the
task of a submitted invoice passes that invoice alone, with 50 transactions.
No query has an order, so that beyond a limit any rows may come back (`Fetch`).
The state machine around it lets invoices, returns
and claims arrive one lot after the other and time pass, so that every short
history of a small alphabet is a state, in every order.

Abstractions. Points are natural numbers of hundredths, rounded down where the
code has floats; a *lot* is a number `n` of rows that are alike, so that a
sample of thirty invoices is one step; times are hours; a commodity code is its
chapter and heading. `nx.simple_cycles` and `nx.betweenness_centrality` are
given by what they return (closed walks over different nodes; shares of
shortest paths). The p-value of the Benford statistic is given by the two
brackets that the code compares it with. Texts and evidence are left out. The
anomaly detector is as every caller meets it: nothing outside the tests calls
`fit`, so it scores 30 for everybody.

### MC modules and mutants

`MCX.tla` instantiates module X for TLC. An operator under a comment
"(Mutant: ...)" is not used by the specification: it is a plausible bug of the
operator that follows it. `PROJECT.json` names, for each property, the operator
to put in the other's place for the property to fail.

## 3. What is checked

| Run | Question | Result |
|---|---|---|
| `risk_safety` | three sessions of any kind on one taxpayer, one worker crash, one API crash, one failure, one beat or weekly scan | holds |
| `risk_live` | do queued analyses and re-assessments run to a commit, with two worker crashes, and implement `AssessmentService`? | holds |
| `risk_limit` | does a beat send every high-risk taxpayer when there are more than the limit? | **no** |
| `risk_api_crash` | does the re-assessment of a webhook survive the API process? | **no** |
| `alert_safety` | three requests on one alert and two cases, one failure | holds |
| `alert_orphan` | does the case of an escalation keep its alert? | **no** |
| `matcher_meaning` | does `match_period` say of each key what it should? | holds |
| `matcher_duplicate` | is a double claim reported? | **no** |
| `ledger_scan` | the invoices table under all its writers: two workers that scan and match, a limit of one, one crash or failure | holds |
| `registry_sync` | three overlapping registrations, PATCHes and synchronisations on two TINs, while the TMS changes, a call fails and a process dies | holds |
| `engine_analysis` | what does the engine make of every history of four events, a lot of rows or 90 days each? | holds |
| `engine_ring` | does a taxpayer in a ring of trade get a carousel alert? | **no** |

**RiskAssessment.** `NeverOverCounted`: `total_alerts` never exceeds the alerts
in the table; it may lag, for sessions overwrite each other's total and two of
the four analyses and the weekly scan do not count (`CounterExactAlone` says that
without overlap only their alerts are missing). `ReadTotalsBacked` is the reason. `AlertsConserved`:
no overlap loses an alert row, and only a redelivered task inserts twice.
`ScoreFollowsStatus`: without overlap the score after a webhook is that of the
status it pushed (PATCH and synchronisation trigger no analysis and are
excepted). `StatusOnlyByRequest`: an analysis never puts an old status back;
the webhook, PATCH and the synchronisation with the TMS are what changes it. `AllHighRiskSent`: a beat that ends has sent every TIN it was to send,
through a redelivery in the middle. `QueuedTaskCompletes`, `WebhookReassessed`:
liveness. `ImplementsService`: all of it implements `AssessmentService`.

**AlertWorkflow.** `VerdictStamped`, `AssigneeStamped`: status and stamp of one
request cannot be separated by another's commit. `VerdictHasItsStamp`: without
overlap the stamp is that of the request that gave the verdict.
`EscalationAtomic`, `LinksCommitted`: a case exists exactly if its escalation
succeeded. `EscalationTakesEffect`: the new case always wins; the status
ESCALATED only if no other request held the alert (an escalation that *read*
ESCALATED does not write it again). `AssigneeByRequest`: a stale reading never
reassigns an alert.

**InvoiceMatcher.** `ResultsMean` compares every result with a definition that
looks at its key alone; `OneResultPerKey`; `PhantomMostSuspicious` relates the
caps of the risk to the ranking that the code's comment claims, and says what
alone is suspicious below 99 975 of VAT.

**InvoiceLedger.** `ScanAlertsOnce`: through crashes, redelivery, the limit and
a second worker, an invoice gets a second alert only if two scans held it at
once or a PATCH put it back to RECEIVED. `IntakeAccounted`: what was answered is
stored, a refused batch left nothing, an accepted webhook is stored, waiting or
lost; it is lost for an unknown party, by any other exception of its background
insert, which nobody sees and nothing retries, or with a process.
`PairMatchesItself`: an invoice between the pair whose key no other row has is
matched with itself, whatever either party declared: what is one object in both
lists can be reported neither as undeclared nor as a mismatch. Keys that several
rows have are excepted: there the buyer's pass resets the mark that the seller's
pass has set, and a duplicate may come out as matched, against the matcher's
docstring (`invoice_matcher.py:8`), as in finding 4.
`SuspicionOnlyWithdrawnByMatch`: a stale PATCH or analysis never takes a
suspicion back. `ScanDrains`: no invoice stays selectable for ever, whichever
ones the limited scans pick.

**TaxpayerRegistry.** `RegisteredOnce`: one request wins a TIN, and no two rows
share a VAT number, whatever synchronisations write. `SerialAlone`: without
overlap the profile is that of the sessions one by one, so that no column is a
mixture of two answers, older, or lost. `SyncAllOrNothing`: an answer whose VAT
number another taxpayer has leaves nothing behind. `TaskSyncEnds`: liveness.

**FraudEngine.** `RingsFound`: the chain search finds a ring exactly if there is
one by reachability, and a ring alone makes the carousel rule detect.
`NoRingSeen`: what callers select never holds one. `CriticalIsHighRisk`: if all
alerts are critical, the taxpayer is high risk at least. `TriggersSuffice`: which
signals of the missing trader and the refund rule alert on their own, and from
which value on. It is often not the value at which a signal appears: a trader
without a return is signalled after 30 days
(`tests/test_fraud_detection/test_missing_trader.py:55`) and alerts alone after
60, undeclared VAT is signalled over 10 000 and alerts from 15 000, and refunds
against turnover, the first pattern in the header of `rules/refund_fraud.py`,
never alert alone, for they are worth 20 points at most. Three amendments do
(the comment at `refund_fraud.py:32` says more than three). An alert on one
signal, which is an alert of confidence 20, is always one of these.
`RowOrderIrrelevant`: while the limits cut nothing off, the report depends on
the order of unordered queries only through rows of one instant and the last of
several different claims; beyond a limit it depends on which rows come back.
`SilenceKeepsMissing`: time alone never lowers a missing trader's score, for an
analysis of the same rows, unless it rests on recent imports.

**Findings.** (1) `reassess_high_risk_taxpayers` takes any 500 of the high-risk
taxpayers while README and docstring say all. (2) The "immediate" re-assessment
of a webhook is lost if the API process stops after answering. (3) Escalating
an alert twice leaves an open case that groups no alert. (4) The matcher marks a
buyer's second claim on an object that is never compared, so that duplicate
claims of input VAT come out as matched; on the rows of the endpoint the
seller's mark is lost in the same way. (5) No analysis is ever given a ring of
trade: callers select the invoices in which the taxpayer is a party, and a ring
of three or more has a trade between two others. The circular signals and the
network anomaly, which `README.md:15` advertises as graph cycle detection, are
never raised.

### Bounds

`Jobs` are one-shot: three of them are three overlapping sessions, and each
hazard listed needs two sessions and at most one more to change what they have
read. One taxpayer (alert) is enough for safety, for sessions of different rows
share nothing; `risk_limit` has two, for the limit is about their number. Two
statuses and two kinds of evidence give five distinct verdicts with 0, 1 and 2
alerts on either side of 60. Crashes, failures and beats (of either
periodic task) are bounded by constants; one of each can hit every step. The matcher's three invoices are the
least with a duplicate and its counterpart; its amounts are on either side of
the tolerance and of the cap. Jobs (and invoices) are symmetric in the safety
runs; the liveness runs use no symmetry.

`ledger_scan` has two invoices, which with a limit of one leaves a rest to every
scan; the second is to another buyer, or the first one again, or of an unknown
party. Two workers overlap each other, one API session overlaps both, and two
requests (PATCH or batch match) and one crash or failure are enough to reopen an
invoice or withdraw a suspicion. Alerts are counted up to 2, "more than one".

`registry_sync` has two TINs, one of them registered, for VAT numbers collide
between two; the record of the first changes twice, each time in columns the
other change leaves alone, the last one to the other's VAT number, a zero
turnover and a null name.

`engine_analysis` has three profiles (honest; suspended, new and late; without
any date), seven lots of invoices and five of transactions, chosen so that every
rule both stays silent and alerts, and the ring and the thresholds can be met
exactly. Four events, lots or steps of time, are a ring and one more; a step is
90 days, beyond every age that a signal asks for. The limit of transactions is
four, and lots of three rows exceed it; the limit of invoices is 1000, which no
history of TLC's reaches (the theorems hold for any), nor does any the 100
chains of the detector.

`risk_safety` has 2 702 547 distinct states, `ledger_scan` 153 664,
`matcher_meaning` 48 120, `risk_live` 44 235 and `engine_analysis` 26 991; TLC
needs about two minutes for the longest.

`CHECK_DEADLOCK FALSE` where all jobs, requests or lots may be used up: the
model stops, the program waits for the next request. `ledger_scan` checks
deadlock, for its scans never end.

### Fairness

`RiskAssessment`: `FairSpec` assumes weak fairness of each job's `Progress`: a
session that has started is scheduled again, by asyncio or by the worker that
took the task, and a message in the broker is delivered. Nothing makes requests,
beats or crashes happen. `risk_live` bounds crashes of workers by two and has no
exception, for the code makes no promise after one.

`InvoiceLedger`: weak fairness of each worker's `Work`. The beat queues a scan
every hour for ever (`workers/celery_app.py`), and a worker that has taken a
task keeps at it. Nothing is assumed of the API, of batch matches or of time; a
scan that died or raised is followed by another.

`TaxpayerRegistry`: weak fairness of the steps of Celery tasks only. Background
tasks of the API may never end, and nothing is claimed of them.

## 4. What is proved

`RiskAssessmentProofs` (for any taxpayers, sessions, verdicts, faults):
`TypeCorrect`, `CounterNeverOverCounts`, `ReadTotalsStayBacked`,
`StatusChangesByRequest`. The total is written from a reading of some time ago,
so `NeverOverCounted` is not inductive: the invariant is `Backed` = `TypeOK` and
`NeverOverCounted` and `ReadTotalsBacked`. The argument: alert rows are only
inserted (`InsertsOnly`), a step leaves what a session has read alone or reads
anew (`ReadsAreCurrentOrKept`), and a commit adds to rows and to the total it
read the same number (`TotalStep`).

`BeatSendsAll` assumes that the taxpayers are finite and no more than the limit
of the selection: a set of high-risk taxpayers as large as the limit allows is
then all of them (`SelectsAll`), and `Sending` keeps those selected sent or to
be sent. The run `risk_limit` shows what is lost without the assumption.
`ScoreOfStatus` rests on `Alone`, that without overlap one session holds a row
and has read its current values, `Found`, that what it found is the verdict on
the status it read, and `Followed`, that a score which is not of the status has
an analysis outstanding.

`AlertsAreConserved` and `CounterIsExactAlone` speak of the alerts that all
ended sessions report, a sum over a set that changes with every commit
(`Reported`). It is a sum of finitely many numbers, however many sessions there
may be (`Finite`); a commit puts one session into the set, a worker that dies
before it acknowledges takes it out, and every other step leaves the set and
what its members found alone (`Quiet`, `ReportSteps`). `Conserved` says that the
rows cover the sum and what the weekly scan raised, exactly so if no worker
died; that needs `Scanned`, for a scan that died is due again without being
fired. `Counted` is the same equation for `total_alerts` of a taxpayer whose
sessions do not overlap: the session that commits had read the total of now
(`Alone`), so that it adds to it what it inserts.

`AlertWorkflowProofs` (for any alerts, cases, users, payloads, requests):
`TypeCorrect`, `LinksStayCommitted`, `VerdictsStayStamped`,
`AssigneesStayStamped`. The stamps need `AllStamped`, which adds what a request
may rely on while it is in flight (`Reads`): its own stamp is not in the row it
read, so that the commit writes it, and every stamp in the row it read is still
in the table, so that leaving it alone is safe. `AssigneeNamedByRequest`: a
commit changes the assignee only to the one that its PATCH names.
`EscalationsAreAtomic` and `EscalationsTakeEffect` rest on `CasesApart`, that
the case of an escalation in flight is nobody else's and in no row that was
read, so that the merge always writes the link; and on `Alone`, that without
overlap one request holds an alert and has read its current row. On `Alone`
rests `VerdictsHaveTheirStamp` too.

`RiskAssessmentRefinement`: `SessionsImplementService`, that `RiskAssessment`
implements the safety of `AssessmentService`. Every step of a session, a fault,
a request and the rest is a step of the service or a stutter: `ProgressShows`,
`FaultShows`, `RequestShows`, `ScanShows`, `RestShows`. The step that stores needs `Backed`:
the total that a commit writes was read some time ago, and only the invariant
says that the rows still cover it.

`TaxpayerRegistryProofs`: `RegistrationIsUnique`, `SyncIsAtomic`. The check of
a new TIN and VAT number is older than the insert, and a synchronisation's
changes are older than the row they are written to, so that `RegisteredOnce`
rests on the indexes and on what a session may rely on. The invariant `Sound`
says that VAT numbers are unique, that one session at most has created a
taxpayer, that a taxpayer which a session has read or created stays registered,
and that its changes hold one value for a column (`Relies`); every step keeps
the table (`TableKept`). `AloneIsSerial` adds `Serial`: without overlap one
session of a taxpayer is open at most, its answer is no older than the last one
committed, and its changes are those from the current row, so that its commit
lays the answer over the row (`WritesBody`). `RegistryTypeCorrect` is the type, the history
variables' included: `Recorded` adds that the replay knows every registered
taxpayer and that a session has changes only after it has read its row (`Tidy`).

`InvoiceMatcherProofs` (for any invoices, keys and amounts, lists of any length):
`DeclaredOnce`, `ResultsMeanAlways`, `OneResultPerKeyAlways`,
`PhantomsRankFirst`. Each pass over a list is a fold, which `SellerRun`,
`BuyerRun` and `PhantomRun` turn into a run of its step, one invoice after the
other. By induction along that run an index holds the first invoice of each key
and each key once (`IsIndex`), and the marks are those of keys that came twice
(`SellerPassLeaves`, `BuyerPassLeaves`); what is left for the phantoms is the
part of the buyer's index that the seller's does not have (`PhantomsAre`).
`ResultsAre` puts them together for any two lists of distinct objects, whether
or not an object is in both: every result is of one of three kinds, no key has
two, every key has one (`Accounts`). The lists of the state machine share
nothing (`Lists`, the inductive invariant), so that a seller's mark means what
`ResultsMean` says of it.

`InvoiceLedgerProofs`. `EveryIntakeAccounted` rests on `Intake`:
a waiting webhook is alone with its invoice, which is neither stored nor lost.
`ScanAlertsAtMostOnce` and `SuspicionStaysRaised` rest on `Ledger`, which says
what the changes that a session or a worker carries may be, whenever the rows
were read: only the batch match carries a withdrawal of a suspicion, a scan
only marks invoices UNMATCHED and raises alerts for those it marks
(`SessionMay`, `WorkerMay`); and that an invoice with an alert is out of the
scan's reach unless it was reopened or shared (`Alerted`). The limit, the order
and the number of workers do not matter. `LedgerTypeCorrect` rests on `Table`,
that what a session or a worker still carries are values of columns of rows that
are stored, and `Others`. `RowsAlwaysMatchThemselves` instantiates the matcher
with its theorems (`Matching`) on the two lists that the endpoint selects:
`Only` keeps the order of a list (`KeptInOrder`), so that the first invoice of
a key is the same object in both if their rows are in the same order, and
`ResultsAre` says what the comparison of an object with itself is.

`FoldFacts` is what these proofs know of folds. The community modules define a
fold by recursion over the parts of a finite set, as a function CHOSEN among the
solutions of an equation. Nothing follows of it before there is a solution:
`FoldExists` builds one by induction on the number of elements, and what it is
follows by another induction. No prover instantiates the induction theorems of
the library, which take an operator; `Inductive` says induction of a *set* of
natural numbers instead, from the theorem that their order is well founded. From
it: a sum depends neither on the element taken first nor on anything but the
values (`SumOverRemove`, `SumOverSame`), values at renamed places have the same
sum (`SumOverRenamed`), and a fold from the left is a run
(`FoldLeftExists`). Where the code filters a list by a condition and the result
is proved about, the models say so with such a fold (`Unprocessed` of the
matcher, `Only` of the ledger).

`FraudEngineProofs` (for any profiles, invoices, transactions, limits and bounds).
`NoRingIsSeen`: the taxpayer's own invoices form a star (`OwnRowsAreAStar`),
every edge ends at it; and of two successive edges of a closed walk over three
or more nodes the taxpayer would be the common node, so the third one avoids it
(`StarHasNoCycle`). `CompositeInScale`: of any five component scores between 0
and 100 the composite is one too, never above the strongest of them, and less
than a hundredth of a point below 97% of it.

What the rules select of a list keeps its positions in it (a function from those
positions to the rows), so that a count and an amount are sums over a set of
positions, and what `FoldFacts` knows of sums applies. The state needs no more
than its types (`Types`, inductive); `FetchReturns` says what a limited query
returns and `ReadContext` what every caller then gives the engine: rows of the
shape that the columns have, without a chain. For every rule a lemma says that
it raises one alert at most, of a score worth one, and what its signals are
worth, from which follows which of them suffices alone (`WorthIs`,
`LoneSignal`) (`MissingTraderIs`, `RefundFraudIs` and the
rest, all by `DetectionIs`), and for every component of the score one that it
stays in its scale (`RuleScoreIs`, `BetweennessIs`, `ComplianceScoreIs`).
`ReportIs` puts them together, and from it follow `AnalysisTypeCorrect`,
`CriticalIsAlwaysHighRisk` and `TriggersAlwaysSuffice`. `SilenceNeverClears`
compares the signals of two moments, one by one (`Grows`): while nothing arrives
each one but that of the imports stays and is worth no less.

`OrderIsIrrelevant`: the opposite order is a renaming of the positions
(`Renames`, `ReverseRenames`), a sum over renamed positions is the same
(`SumOverRenamed`), and each rule is an expression over such sums
(`MissingTraderSame` and the rest). Two rules look at the order itself. The
price drops compare each sale with the last purchase before it: ordered by
instants, a sale that follows a drop has a twin that does in the other list
(`DroppedIs`, `RenamedDrops`), for rows of one instant are alike. The refund
spike compares the last claim with the others, and the claims have one amount.
`RingsAreFound`, of all invoices and not of those the callers select: what no
closed set of traders keeps from the seller is walked to (`ReachedIsWalked`), a
shortest walk passes nobody twice (`ShortestIsSimple`) and cannot be straight
back, so that it is a chain (`RingHasChain`); a chain is closed and leads back
along its own edges (`ChainMakesRing`), and alone it is worth the threshold of
the carousel rule (`CircularSignalIs`).

Assumptions on constants: `TaxpayerAssumption`, `StatusAssumption`,
`VerdictAssumption`, `BoundAssumption` (RiskAssessment); `AlertsAssumption`,
`StatusAssumption`, `NoneAssumption`, `EditsAssumption` (AlertWorkflow);
`ProfileAssumption`, `InvoiceAssumption`, `TransactionAssumption`,
`BoundAssumption` (FraudEngine: net and VAT of an invoice are not negative,
which `schemas/invoice.py:23-24` asks of all that are submitted, the webhook's
included, for it validates through `InvoiceCreate` too; `LimitAssumption`:
limits are positive); `ColumnAssumption`,
`RecordAssumption`, `ExistingAssumption`, `PayloadAssumption`, `BoundAssumption`
(TaxpayerRegistry); `BoundAssumption`, `EditAssumption`, `ContentAssumption` (InvoiceLedger);
`AmountAssumption` (InvoiceMatcher: amounts are natural numbers). They
say that the constants are of the shape that their comments give; TLC evaluates
them in every run of the module.

## 5. What is only model-checked

Liveness under fairness (`QueuedTaskCompletes`, `WebhookReassessed`, the
liveness in `ImplementsService`, `ScanDrains`, `TaskSyncEnds`), which is out of
the prover's reach. Every invariant and every action property of the runs has a
theorem. What a violating run shows is a trace of the small instance, and
nothing is proved about it.

## 6. What is not modelled

* The classifier, the feature engineer, the data generator and the training
  script: floats and numpy over synthetic data, run by hand; the service does
  not import them, and there is no control to model. The fitted anomaly model,
  likewise: the service never fits it.
* Analytics and the other reads, alert statistics among them: they change
  nothing.
* The audit log: no code writes it.
* The calls to the financial intelligence unit and the customs, which pass an
  answer on, and the flag that the customs verification sets inside a JSONB
  dict, which nothing reads.
* Whether an answer of the TMS holds `id`, `risk_score` or `total_alerts`, or
  another TIN than the one asked for, which the synchronisation would copy too:
  nothing in the repository says what it answers. (Its `status` is modelled.) A date comes as a string, which the commit refuses: one of the ways
  to end in "error".
* The 30 connections of the pool, and what asyncpg does with a connection made
  in the event loop of an earlier Celery task: `Fail` covers a task that raises.
* Eviction of messages by Redis (`allkeys-lru` in docker-compose), and the
  visibility timeout of the broker.

## 7. Plan

Done: the seven components with state or an algorithm of their own, the
composition of engine, rules, graph and scorer, the refinement of
`AssessmentService`, the proofs of section 4. Left:

1. What the fairness of a worker's `Work` makes of one step: that a scan in
   progress lessens what is left of it, whatever the limit, as an action
   property, which with the fairness is the argument for `ScanDrains`.
2. The same for the measure of a queued assessment and of a task's
   synchronisation.
