---------------------------- MODULE InvoiceLedger ----------------------------
(***************************************************************************)
(* The invoices table and everything that writes it: single and batch      *)
(* submission, the invoice webhook and the insert it leaves to a           *)
(* background task, PATCH of an invoice, the analysis that follows a       *)
(* submission, the hourly scan of unmatched invoices and the batch match   *)
(* of a period; and what the matching endpoint reads.                      *)
(*                                                                         *)
(* A session reads rows, works on them in memory and commits.  What it     *)
(* will write is known when it has read: the columns whose new value       *)
(* differs from the value READ, here its changes, a set of                 *)
(* <<invoice, column, value>>.  Alerts of the analysis are rows of         *)
(* RiskAssessment; those of the scan are counted here.                     *)
(***************************************************************************)
EXTENDS Integers, Sequences, FiniteSets, FiniteSetsExt, SequencesExt

CONSTANTS
    Invoices,     \* submissions, each of which becomes one row at most
    Contents,     \* what they may say: functions to [seller, buyer, key, vat]
    Keys,         \* <<seller_vat_number, invoice_number>>
    Amounts,      \* VAT amounts
    Registered,   \* the TINs of the taxpayers table
    NONE,         \* an absent buyer
    Edits,        \* PATCH bodies: records of some columns
    Sessions,     \* API sessions at a time
    Workers,      \* Celery tasks at a time
    Limit,        \* invoices that one scan selects (200)
    MaxRequests,  \* bound: PATCHes and batch matches
    MaxCrashes    \* bound: processes lost and sessions that fail

Columns == {"status", "declared_by_seller", "declared_by_buyer", "is_suspicious"}
Statuses == {"received", "matched", "unmatched"}

ASSUME BoundAssumption == Limit \in Nat \ {0} /\ MaxRequests \in Nat /\ MaxCrashes \in Nat
ASSUME EditAssumption ==
    \A edit \in Edits :
        /\ DOMAIN edit \subseteq Columns \ {"is_suspicious"}
        /\ \A c \in DOMAIN edit : edit[c] \in IF c = "status" THEN Statuses ELSE BOOLEAN
ASSUME ContentAssumption ==
    /\ IsFiniteSet(Invoices) /\ Amounts \subseteq Nat
    /\ \A content \in Contents, i \in Invoices : content[i].vat \in Amounts

VARIABLES
    sent,        \* what the invoices say; it never changes
    stored,      \* the rows there are
    row,         \* their columns
    overdue,     \* invoice_date is before the scan's cutoff of 30 days
    alerts,      \* alerts of the scan for each invoice: 0, 1, or 2 and more
    session,     \* API requests and background tasks
    worker,      \* Celery tasks, from the broker to their acknowledgement
    answered,    \* submissions that were answered 201 or 202
    accepted,    \* webhooks that were answered "accepted"
    lost,        \* ... whose insert raised or died with the API process
    spent,       \* requests and crashes so far
    overlapped,  \* history: invoices that two scans held at once
    reopened     \* history: invoices that a PATCH put back to RECEIVED

vars == <<sent, stored, row, overdue, alerts, session, worker, answered, accepted,
          lost, spent, overlapped, reopened>>
table == <<stored, row, alerts>>
intake == <<answered, accepted, lost>>
history == <<overlapped, reopened>>

-----------------------------------------------------------------------------
(* Rows and sessions.                                                      *)

Row == [status : Statuses, declared_by_seller : BOOLEAN,
        declared_by_buyer : BOOLEAN, is_suspicious : BOOLEAN]
NewRow == [status |-> "received", declared_by_seller |-> FALSE,
           declared_by_buyer |-> FALSE, is_suspicious |-> FALSE]

Idle == [task |-> "none", stage |-> "idle", invoice |-> NONE, changes |-> {}, raises |-> {}]

\* The foreign keys on the TINs of both parties.
Parties(i) == {sent[i].seller, sent[i].buyer} \ {NONE}
Valid(i) == Parties(i) \subseteq Registered

\* What a session that read row `old` of invoice i and leaves it `new` writes.
\* (Mutant: the whole row.)
WholeRow(i, old, new) == {<<i, c, new[c]>> : c \in Columns}
Changes(i, old, new) == {<<i, c, new[c]>> : c \in {d \in Columns : new[d] # old[d]}}

Written(i, c, changes) ==
    IF \E x \in changes : x[1] = i /\ x[2] = c
    THEN (CHOOSE x \in changes : x[1] = i /\ x[2] = c)[3]
    ELSE row[i][c]

Apply(changes) == row' = [i \in Invoices |-> [c \in Columns |-> Written(i, c, changes)]]

Insert(S) == stored' = stored \cup S

-----------------------------------------------------------------------------
(* Submissions.                                                            *)

Fresh == (Invoices \ stored) \ (accepted \cup lost)

\* POST /invoices/: one transaction, after which the analysis is due.
SubmitInvoice(s, i) ==
    /\ session[s] = Idle
    /\ i \in Fresh
    /\ Valid(i)
    /\ Insert({i})
    /\ answered' = answered \cup {i}
    /\ session' = [session EXCEPT ![s] = [Idle EXCEPT !.task = "analysis", !.stage = "queued",
                                                      !.invoice = i]]
    /\ UNCHANGED <<sent, row, overdue, alerts, worker, accepted, lost, spent, history>>

\* POST /invoices/batch: one transaction too.  An invoice of an unknown
\* party fails it, and nothing of the batch is stored.  Its background task
\* _batch_match_async does nothing.
\* (Mutant: the valid ones are stored.)
ValidPart(S) ==
    /\ Insert({i \in S : Valid(i)})
    /\ answered' = answered \cup S
AllOrNothing(S) ==
    IF \A i \in S : Valid(i)
    THEN Insert(S) /\ answered' = answered \cup S
    ELSE UNCHANGED <<stored, answered>>

SubmitBatch(S) ==
    /\ S # {} /\ S \subseteq Fresh
    /\ AllOrNothing(S)
    /\ UNCHANGED <<sent, row, overdue, alerts, session, worker, accepted, lost, spent, history>>

\* POST /webhook/invoice-submitted: answered before anything is stored.
ReceiveWebhook(s, i) ==
    /\ session[s] = Idle
    /\ i \in Fresh
    /\ accepted' = accepted \cup {i}
    /\ session' = [session EXCEPT ![s] = [Idle EXCEPT !.task = "webhook", !.stage = "queued",
                                                      !.invoice = i]]
    /\ UNCHANGED <<sent, table, overdue, worker, answered, lost, spent, history>>

\* _process_webhook_invoice: a foreign key that fails is an exception in a
\* background task, which nobody sees; FailSession is any other.
ProcessWebhook(s) ==
    /\ session[s].task = "webhook"
    /\ LET i == session[s].invoice
       IN IF Valid(i) THEN Insert({i}) /\ UNCHANGED lost
          ELSE lost' = lost \cup {i} /\ UNCHANGED stored
    /\ session' = [session EXCEPT ![s] = Idle]
    /\ UNCHANGED <<sent, row, overdue, alerts, worker, answered, accepted, spent, history>>

-----------------------------------------------------------------------------
(* PATCH and the analysis of a submission.                                 *)

Edited(old, edit) == [c \in Columns |-> IF c \in DOMAIN edit THEN edit[c] ELSE old[c]]

\* PATCH /invoices/{id}: reads the row and assigns.
LoadPatch(s, i, edit) ==
    /\ session[s] = Idle
    /\ i \in stored
    /\ spent.requests < MaxRequests
    /\ spent' = [spent EXCEPT !.requests = @ + 1]
    /\ session' = [session EXCEPT ![s] = [Idle EXCEPT
                      !.task = "patch", !.stage = "read", !.invoice = i,
                      !.changes = Changes(i, row[i], Edited(row[i], edit))]]
    /\ UNCHANGED <<sent, table, overdue, worker, intake, history>>

\* _analyze_invoice_async reads the invoice and runs the engine; alerts make
\* it suspicious.  invoice.risk_score is assigned its own value.
AnalyseInvoice(s, alerting) ==
    /\ session[s].task = "analysis" /\ session[s].stage = "queued"
    /\ LET i == session[s].invoice
           new == [row[i] EXCEPT !.is_suspicious = @ \/ alerting]
       IN session' = [session EXCEPT ![s].stage = "read", ![s].changes = Changes(i, row[i], new)]
    /\ UNCHANGED <<sent, table, overdue, worker, intake, spent, history>>

CommitSession(s) ==
    /\ session[s].stage = "read"
    /\ Apply(session[s].changes)
    /\ reopened' = reopened \cup {i \in Invoices :
                      <<i, "status", "received">> \in session[s].changes}
    /\ session' = [session EXCEPT ![s] = Idle]
    /\ UNCHANGED <<sent, stored, overdue, alerts, worker, intake, spent, overlapped>>

-----------------------------------------------------------------------------
(* The hourly scan.                                                        *)

\* Claimed by the buyer, not declared by the seller, 30 days old.
\* (Mutant: whatever their status.)
ClaimedOnly ==
    {i \in stored : /\ row[i].declared_by_buyer /\ ~row[i].declared_by_seller
                    /\ i \in overdue}
Unmatched == {i \in ClaimedOnly : row[i].status = "received"}

\* A free worker takes up a task that was queued, or one that is delivered
\* again.
Takes(w, task) == worker[w] = Idle \/ (worker[w].task = task /\ worker[w].stage = "queued")

\* What the scan makes of an invoice that it selected.
\* (Mutant: it only raises the suspicion.)
SuspicionOnly(old) == [old EXCEPT !.is_suspicious = TRUE]
Flagged(old) == [old EXCEPT !.status = "unmatched", !.is_suspicious = TRUE]

Scanning(w, i) == worker[w].stage = "read" /\ i \in worker[w].raises

\* The beat queues scans all the time, and a worker takes one up.  The query
\* has no order: any Limit of them.
SelectUnmatched(w, S) ==
    /\ Takes(w, "scan")
    /\ S \subseteq Unmatched
    /\ Cardinality(S) = Min({Limit, Cardinality(Unmatched)})
    /\ worker' = [worker EXCEPT ![w].task = "scan", ![w].stage = "read", ![w].raises = S,
                     ![w].changes = UNION {Changes(i, row[i], Flagged(row[i])) : i \in S}]
    /\ overlapped' = overlapped \cup {i \in S : \E v \in Workers : Scanning(v, i)}
    /\ UNCHANGED <<sent, table, overdue, session, intake, spent, reopened>>

-----------------------------------------------------------------------------
(* The batch match.                                                        *)

Matcher == INSTANCE InvoiceMatcher WITH invoice <- sent, sellers <- << >>, buyers <- << >>

\* The rows of a list that are in S, in their order.
Only(list, S) == FoldLeft(LAMBDA acc, i : IF i \in S THEN Append(acc, i) ELSE acc, << >>, list)

\* The rows of a list by their parties.
\* (Mutant: those that the seller has declared, as match_period's header
\* says of its arguments.)
DeclaredOf(list, tin) ==
    Only(list, {i \in Invoices : sent[i].seller = tin /\ row[i].declared_by_seller})
OfSeller(list, tin) == Only(list, {i \in Invoices : sent[i].seller = tin})
OfBuyer(list, tin) == Only(list, {i \in Invoices : sent[i].buyer = tin})

\* The results that are not matched are all written to invoice i, the last
\* one last.
Blame(i, results) ==
    Changes(i, row[i], Edited(row[i],
        [status |-> "unmatched", is_suspicious |-> results[Len(results)].risk >= 5000]))

\* What _async_batch_match makes of one seller's invoices: it matches them
\* with those of the first buyer among them, writes to the first invoice that
\* has a buyer, and stops there.
Blamed(list) ==
    LET named == Only(list, {i \in Invoices : sent[i].buyer # NONE})
        first == named[1]
        results == SelectSeq(Matcher!MatchPeriod(list, OfBuyer(list, sent[first].buyer)),
                             LAMBDA r : r.status # "matched")
    IN IF named = << >> \/ results = << >> THEN {} ELSE Blame(first, results)

\* Nothing in src/ queues the task or writes vat_return_period: any rows may
\* be those of the period, in any order.
MatchRows(w, list) ==
    worker' = [worker EXCEPT ![w].task = "match", ![w].stage = "read",
                   ![w].changes = UNION {Blamed(OfSeller(list, tin)) : tin \in Registered}]

MatchPeriod(w) ==
    /\ Takes(w, "match")
    /\ IF worker[w] = Idle
       THEN spent.requests < MaxRequests /\ spent' = [spent EXCEPT !.requests = @ + 1]
       ELSE UNCHANGED spent
    /\ \E P \in SUBSET stored : \E list \in SetToSeqs(P) : MatchRows(w, list)
    /\ UNCHANGED <<sent, table, overdue, session, intake, history>>

\* The commit of either task, with the alerts of the scan, and the
\* acknowledgement after it (task_acks_late).
Commit(w) ==
    /\ worker[w].stage = "read"
    /\ Apply(worker[w].changes)
    /\ alerts' = [i \in Invoices |-> IF i \in worker[w].raises THEN Min({2, alerts[i] + 1})
                                     ELSE alerts[i]]
    /\ UNCHANGED <<sent, stored, overdue, session, intake, history>>

CommitWork(w) ==
    /\ Commit(w)
    /\ worker' = [worker EXCEPT ![w] = Idle]
    /\ UNCHANGED spent

-----------------------------------------------------------------------------
(* Time, crashes and failures.                                             *)

\* The invoices bear one date, and 30 days pass.
PassDeadline ==
    /\ overdue # Invoices
    /\ overdue' = Invoices
    /\ UNCHANGED <<sent, table, session, worker, intake, spent, history>>

Spend == /\ spent.crashes < MaxCrashes
         /\ spent' = [spent EXCEPT !.crashes = @ + 1]

\* (Mutant: with what it had read.)
KeepsWork(w) == [worker[w] EXCEPT !.stage = "queued"]
Delivered(w) == [Idle EXCEPT !.task = worker[w].task, !.stage = "queued"]

\* A worker dies before its commit, or between the commit and the
\* acknowledgement: the task is delivered again, and starts over.
CrashWorker(w) ==
    /\ worker[w].stage = "read"
    /\ Spend
    /\ worker' = [worker EXCEPT ![w] = Delivered(w)]
    /\ UNCHANGED <<sent, table, overdue, session, intake, history>>

CommitAndCrash(w) ==
    /\ Commit(w)
    /\ Spend
    /\ worker' = [worker EXCEPT ![w] = Delivered(w)]

\* A task that raises is rolled back and acknowledged: nothing retries it.
FailWork(w) ==
    /\ worker[w].stage = "read"
    /\ Spend
    /\ worker' = [worker EXCEPT ![w] = Idle]
    /\ UNCHANGED <<sent, table, overdue, session, intake, history>>

\* A request or a background task raises: a lost connection, a number or a
\* code that is longer than its column.  Its session is rolled back, and of a
\* webhook's insert that is the end: nothing retries it.
FailSession(s) ==
    /\ session[s] # Idle
    /\ Spend
    /\ lost' = IF session[s].task = "webhook" THEN lost \cup {session[s].invoice} ELSE lost
    /\ session' = [session EXCEPT ![s] = Idle]
    /\ UNCHANGED <<sent, table, overdue, worker, answered, accepted, history>>

\* The API process dies with its requests and background tasks.
CrashApi ==
    /\ Spend
    /\ session' = [s \in Sessions |-> Idle]
    /\ lost' = lost \cup {session[s].invoice : s \in {r \in Sessions : session[r].task = "webhook"}}
    /\ UNCHANGED <<sent, table, overdue, worker, answered, accepted, history>>

-----------------------------------------------------------------------------
(* The specification.                                                      *)

Init ==
    /\ sent \in Contents
    /\ stored = {} /\ overdue = {}
    /\ row = [i \in Invoices |-> NewRow]
    /\ alerts = [i \in Invoices |-> 0]
    /\ session = [s \in Sessions |-> Idle]
    /\ worker = [w \in Workers |-> Idle]
    /\ answered = {} /\ accepted = {} /\ lost = {}
    /\ spent = [requests |-> 0, crashes |-> 0]
    /\ overlapped = {} /\ reopened = {}

Request(s) ==
    \/ \E i \in Invoices : SubmitInvoice(s, i) \/ ReceiveWebhook(s, i)
    \/ \E i \in Invoices, edit \in Edits : LoadPatch(s, i, edit)

Serve(s) ==
    ProcessWebhook(s) \/ (\E alerting \in BOOLEAN : AnalyseInvoice(s, alerting)) \/ CommitSession(s)

Work(w) ==
    \/ \E S \in SUBSET Invoices : SelectUnmatched(w, S)
    \/ MatchPeriod(w) \/ CommitWork(w)

Next ==
    \/ \E s \in Sessions : Request(s) \/ Serve(s) \/ FailSession(s)
    \/ \E S \in SUBSET Invoices : SubmitBatch(S)
    \/ \E w \in Workers : Work(w) \/ CrashWorker(w) \/ CommitAndCrash(w) \/ FailWork(w)
    \/ PassDeadline \/ CrashApi

Spec == Init /\ [][Next]_vars

\* The beat keeps firing, and a worker that is free takes up a task and
\* keeps at it.
FairSpec ==
    /\ Spec
    /\ \A w \in Workers : WF_vars(Work(w))

-----------------------------------------------------------------------------
(* Properties.                                                             *)

TypeOK ==
    /\ sent \in Contents
    /\ stored \subseteq Invoices /\ overdue \subseteq Invoices
    /\ row \in [Invoices -> Row]
    /\ \A i \in Invoices \ stored : row[i] = NewRow
    /\ alerts \in [Invoices -> 0..2]
    /\ answered \subseteq Invoices /\ lost \subseteq accepted /\ accepted \subseteq Invoices
    /\ overlapped \subseteq stored /\ reopened \subseteq stored
    /\ \A s \in Sessions : session[s].raises = {}
    /\ \A w \in Workers : worker[w].stage # "read" => worker[w].changes = {}

\* The scan's writes and its alerts are one commit that takes the invoice
\* out of what the scan selects: through crashes, redelivery and the limit,
\* an invoice gets a second alert only if two scans overlapped on it or a
\* PATCH put it back.
ScanAlertsOnce == \A i \in Invoices : alerts[i] > 1 => i \in overlapped \cup reopened

\* Every submission that was answered is stored, a batch that was refused
\* left nothing behind, and a webhook that was accepted is stored, still
\* waiting, or lost: for an unknown party, by another exception of its
\* insert, or with the API process, the faults that `spent` counts.
Waiting == {session[s].invoice : s \in {r \in Sessions : session[r].task = "webhook"}}
IntakeAccounted ==
    /\ stored = answered \cup (accepted \ (Waiting \cup lost))
    /\ \A i \in lost : Valid(i) => spent.crashes > 0

\* What the endpoint matches are rows of one table, not two declarations.
\* An invoice between the seller and the buyer is in both lists, as one
\* object, and if no other row has its key it matches itself: neither
\* undeclared nor a mismatch, whatever either party has declared, and the
\* mark that one pass resets is never one that the other has set.  In any
\* order of the two reads, of which the second may find a row more.
PairMatchesItself ==
    \A before \in {stored} \cup {stored \ {i} : i \in stored} :
    \A sold \in SetToSeqs(before), bought \in SetToSeqs(stored) :
    \A i \in {j \in before : Parties(j) = {sent[j].seller, sent[j].buyer}} :
        LET results == Matcher!MatchPeriod(OfSeller(sold, sent[i].seller),
                                           OfBuyer(bought, sent[i].buyer))
        IN (\A j \in stored : sent[j].key = sent[i].key => j = i) =>
              \A n \in DOMAIN results :
                 results[n].key = sent[i].key => results[n].status = "matched"

\* A suspicion raised by the scan or an analysis is taken back by a batch
\* match only: a PATCH or an analysis that read the row before it was raised
\* does not write the old value back.
SuspicionOnlyWithdrawnByMatch ==
    [][\A i \in Invoices :
          row[i].is_suspicious /\ ~row'[i].is_suspicious =>
              \E w \in Workers : /\ worker[w].task = "match" /\ worker[w].stage = "read"
                                 /\ worker'[w].stage # "read"]_vars

\* README.md:212 "Flag buyers claiming input VAT with no matching seller
\* declaration": the rest that a limited scan leaves comes up in a later
\* one, and no invoice stays behind for ever, whichever the scans pick and
\* however tasks crash or fail.
ScanDrains == \A i \in Invoices : (i \in Unmatched) ~> (i \notin Unmatched)
=============================================================================
