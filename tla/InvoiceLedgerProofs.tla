------------------------- MODULE InvoiceLedgerProofs -------------------------
(***************************************************************************)
(* What InvoiceLedger guarantees for any invoices, parties, PATCH bodies,  *)
(* sessions, workers, limit, crashes and failures.                         *)
(*                                                                         *)
(* Three inductive invariants: of the intake, by what the waiting webhooks *)
(* hold; of the rows, by what the changes of a session or a worker may be, *)
(* as they are computed from rows that are older than the commit; and of   *)
(* the table's types.  What the batch match finds is the matcher's, which  *)
(* is instantiated with its theorems.                                      *)
(***************************************************************************)
EXTENDS InvoiceLedger, FoldFacts, TLAPS

\* The matching, with what is proved of it.
Matching == INSTANCE InvoiceMatcherProofs WITH invoice <- sent, sellers <- << >>, buyers <- << >>

\* The rows of a list are different ones.
Distinct(q) == \A l, m \in 1 .. Len(q) : q[l] = q[m] => l = m


\* The fields of a session or a worker.
Fields == {"task", "stage", "invoice", "changes", "raises"}

LEMMA IdleFields ==
    /\ DOMAIN Idle = Fields /\ Idle.task = "none" /\ Idle.stage = "idle"
    /\ Idle.changes = {} /\ Idle.raises = {}
BY DEF Idle, Fields

-----------------------------------------------------------------------------
(* The intake.                                                             *)

Webhooks == {s \in Sessions : session[s].task = "webhook"}

\* A waiting webhook is alone with its invoice, which is neither stored nor
\* lost yet.
WaitingAlone ==
    /\ \A s \in Webhooks :
          /\ session[s].stage = "queued"
          /\ session[s].invoice \in accepted \ (lost \cup stored)
    /\ \A r, s \in Webhooks : session[r].invoice = session[s].invoice => r = s

SessionShape == DOMAIN session = Sessions /\ \A s \in Sessions : DOMAIN session[s] = Fields
SpentType == spent \in [requests : Nat, crashes : Nat]

Intake == SessionShape /\ SpentType /\ WaitingAlone /\ IntakeAccounted

\* A step that leaves the webhooks and what was stored, accepted and lost.
LEMMA SameIntake ==
    ASSUME Intake, SessionShape', SpentType', spent'.crashes >= spent.crashes, sent' = sent,
           stored' = stored, answered' = answered, accepted' = accepted, lost' = lost,
           \A s \in Sessions : \/ session'[s] = session[s]
                               \/ session[s].task # "webhook" /\ session'[s].task # "webhook"
    PROVE  Intake'
<1>1. Webhooks' = Webhooks /\ \A s \in Webhooks : session'[s] = session[s]
  BY DEF Webhooks
<1>2. Waiting' = Waiting
  BY <1>1 DEF Waiting, Webhooks
<1>3. WaitingAlone'
  BY <1>1 DEF Intake, WaitingAlone
<1>4. \A i : Valid(i)' = Valid(i)
  BY DEF Valid, Parties
<1>5. IntakeAccounted'
  <2>1. \A i \in lost : Valid(i) => spent'.crashes > 0
    BY DEF Intake, IntakeAccounted, SpentType
  <2> QED  BY <1>2, <1>4, <2>1 DEF Intake, IntakeAccounted
<1> QED  BY <1>3, <1>5 DEF Intake

\* What a step spends.
Paid ==
    \/ spent' = spent
    \/ spent' = [spent EXCEPT !.requests = @ + 1]
    \/ spent' = [spent EXCEPT !.crashes = @ + 1]

LEMMA PaidType ==
    ASSUME Intake, Paid
    PROVE  SpentType' /\ spent'.crashes >= spent.crashes
BY DEF Paid, Intake, SpentType

LEMMA SubmitKeepsIntake ==
    ASSUME Intake, NEW s \in Sessions, NEW i \in Invoices, SubmitInvoice(s, i)
    PROVE  Intake'
<1> DEFINE new == [Idle EXCEPT !.task = "analysis", !.stage = "queued", !.invoice = i]
<1>1. DOMAIN new = Fields /\ new.task = "analysis"
  BY IdleFields DEF Idle
<1>2. session' = [session EXCEPT ![s] = new]
  BY DEF SubmitInvoice
<1> HIDE DEF new
<1>3. SessionShape'
  BY <1>1, <1>2 DEF Intake, SessionShape
<1>4. Webhooks' = Webhooks /\ \A r \in Webhooks : session'[r] = session[r]
  BY <1>1, <1>2, IdleFields DEF SubmitInvoice, Webhooks, Intake, SessionShape
<1>5. Waiting' = Waiting
  BY <1>4 DEF Waiting, Webhooks
<1>6. /\ i \notin accepted /\ i \notin lost /\ stored' = stored \cup {i}
      /\ accepted' = accepted /\ lost' = lost
  BY DEF SubmitInvoice, Fresh, Insert
<1>7. WaitingAlone'
  BY <1>4, <1>6 DEF Intake, WaitingAlone
<1>8. \A k : Valid(k)' = Valid(k)
  BY DEF SubmitInvoice, Valid, Parties
<1>9. IntakeAccounted'
  BY <1>5, <1>6, <1>8 DEF SubmitInvoice, Intake, IntakeAccounted
<1> QED  BY <1>3, <1>7, <1>9 DEF Intake, SubmitInvoice, SpentType

LEMMA BatchKeepsIntake ==
    ASSUME Intake, NEW S \in SUBSET Invoices, SubmitBatch(S)
    PROVE  Intake'
<1>1. Webhooks' = Webhooks /\ Waiting' = Waiting
  BY DEF SubmitBatch, Webhooks, Waiting
<1>2. S \cap (accepted \cup lost) = {}
  BY DEF SubmitBatch, Fresh
<1>3. \/ stored' = stored \cup S /\ answered' = answered \cup S
      \/ stored' = stored /\ answered' = answered
  BY DEF SubmitBatch, AllOrNothing, Insert
<1>4. WaitingAlone'
  BY <1>1, <1>2, <1>3 DEF SubmitBatch, Intake, WaitingAlone
<1>5. \A k : Valid(k)' = Valid(k)
  BY DEF SubmitBatch, Valid, Parties
<1>6. IntakeAccounted'
  BY <1>1, <1>3, <1>5 DEF SubmitBatch, Intake, IntakeAccounted
<1> QED  BY <1>4, <1>6 DEF Intake, SubmitBatch, SessionShape, SpentType

LEMMA ReceiveKeepsIntake ==
    ASSUME Intake, NEW s \in Sessions, NEW i \in Invoices, ReceiveWebhook(s, i)
    PROVE  Intake'
<1> DEFINE new == [Idle EXCEPT !.task = "webhook", !.stage = "queued", !.invoice = i]
<1>1. DOMAIN new = Fields /\ new.task = "webhook" /\ new.stage = "queued" /\ new.invoice = i
  BY IdleFields DEF Idle
<1>2. session' = [session EXCEPT ![s] = new]
  BY DEF ReceiveWebhook
<1> HIDE DEF new
<1>3. SessionShape'
  BY <1>1, <1>2 DEF Intake, SessionShape
<1>4. /\ Webhooks' = Webhooks \cup {s} /\ s \notin Webhooks /\ session'[s] = new
      /\ \A r \in Webhooks : session'[r] = session[r]
  BY <1>1, <1>2, IdleFields DEF ReceiveWebhook, Webhooks, Intake, SessionShape
<1>5. Waiting' = Waiting \cup {i}
  BY <1>1, <1>4 DEF Waiting, Webhooks
<1>6. i \notin accepted /\ i \notin lost /\ i \notin stored /\ accepted' = accepted \cup {i}
  BY DEF ReceiveWebhook, Fresh
<1>7. stored' = stored /\ lost' = lost /\ answered' = answered /\ spent' = spent
  BY DEF ReceiveWebhook, table
<1>8. WaitingAlone'
  BY <1>1, <1>4, <1>6, <1>7 DEF Intake, WaitingAlone
<1>9. \A k : Valid(k)' = Valid(k)
  BY DEF ReceiveWebhook, Valid, Parties
<1>10. IntakeAccounted'
  BY <1>5, <1>6, <1>7, <1>9 DEF Intake, IntakeAccounted
<1> QED  BY <1>3, <1>7, <1>8, <1>10 DEF Intake, SpentType

\* The insert, or the loss, of the one invoice that this task waits for.
LEMMA ProcessKeepsIntake ==
    ASSUME Intake, NEW s \in Sessions, ProcessWebhook(s)
    PROVE  Intake'
<1> DEFINE i == session[s].invoice
<1>1. /\ s \in Webhooks /\ session' = [session EXCEPT ![s] = Idle]
      /\ i \in accepted \ (lost \cup stored)
  BY DEF ProcessWebhook, Webhooks, Intake, WaitingAlone
<1>2. SessionShape'
  BY <1>1, IdleFields DEF Intake, SessionShape
<1>3. Webhooks' = Webhooks \ {s} /\ \A r \in Webhooks \ {s} : session'[r] = session[r]
  BY <1>1, IdleFields DEF Webhooks, Intake, SessionShape
<1>4. \A r \in Webhooks \ {s} : session[r].invoice # i
  BY <1>1 DEF Intake, WaitingAlone
<1>5. Waiting' = Waiting \ {i} /\ i \in Waiting
  BY <1>1, <1>3, <1>4 DEF Waiting, Webhooks
<1>6. \/ Valid(i) /\ stored' = stored \cup {i} /\ lost' = lost
      \/ ~Valid(i) /\ stored' = stored /\ lost' = lost \cup {i}
  BY DEF ProcessWebhook, Insert
<1>7. accepted' = accepted /\ answered' = answered /\ spent' = spent
  BY DEF ProcessWebhook
<1>8. WaitingAlone'
  BY <1>3, <1>4, <1>6, <1>7 DEF Intake, WaitingAlone
<1>9. \A k : Valid(k)' = Valid(k)
  BY DEF ProcessWebhook, Valid, Parties
<1>10. IntakeAccounted'
  <2>1. stored' = answered' \cup (accepted' \ (Waiting' \cup lost'))
    BY <1>1, <1>5, <1>6, <1>7 DEF Intake, IntakeAccounted
  <2>2. \A k \in lost' : Valid(k) => spent.crashes > 0
    BY <1>6 DEF Intake, IntakeAccounted
  <2> QED  BY <1>7, <1>9, <2>1, <2>2 DEF IntakeAccounted
<1> QED  BY <1>2, <1>7, <1>8, <1>10 DEF Intake, SpentType

LEMMA CrashApiKeepsIntake ==
    ASSUME Intake, CrashApi
    PROVE  Intake'
<1>1. SessionShape' /\ Webhooks' = {} /\ Waiting' = {}
  BY IdleFields DEF CrashApi, SessionShape, Webhooks, Waiting
<1>2. SpentType' /\ spent'.crashes = spent.crashes + 1
  BY DEF CrashApi, Spend, Intake, SpentType
<1>3. lost' = lost \cup Waiting /\ stored' = stored /\ accepted' = accepted
      /\ answered' = answered
  BY DEF CrashApi, Waiting, table
<1>4. WaitingAlone'
  BY <1>1 DEF WaitingAlone
<1>5. spent'.crashes > 0
  BY <1>2 DEF Intake, SpentType
<1>6. IntakeAccounted'
  BY <1>1, <1>3, <1>5 DEF Intake, IntakeAccounted
<1> QED  BY <1>1, <1>2, <1>4, <1>6 DEF Intake

\* The loss of the invoice whose insert raises.
LEMMA FailKeepsIntake ==
    ASSUME Intake, NEW s \in Sessions, FailSession(s)
    PROVE  Intake'
<1>1. /\ session' = [session EXCEPT ![s] = Idle]
      /\ stored' = stored /\ answered' = answered /\ accepted' = accepted /\ sent' = sent
  BY DEF FailSession, table
<1>2. SessionShape'
  BY <1>1, IdleFields DEF Intake, SessionShape
<1>3. SpentType' /\ spent'.crashes = spent.crashes + 1
  BY DEF FailSession, Spend, Intake, SpentType
<1>4. CASE session[s].task # "webhook"
  <2>1. lost' = lost /\ spent'.crashes >= spent.crashes
    BY <1>3, <1>4 DEF FailSession, Intake, SpentType
  <2>2. \A r \in Sessions : \/ session'[r] = session[r]
                            \/ session[r].task # "webhook" /\ session'[r].task # "webhook"
    BY <1>1, <1>4, IdleFields DEF Intake, SessionShape
  <2> QED  BY <1>1, <1>2, <1>3, <2>1, <2>2, SameIntake
<1>5. CASE session[s].task = "webhook"
  <2> DEFINE i == session[s].invoice
  <2>1. s \in Webhooks /\ i \in accepted \ (lost \cup stored)
    BY <1>5 DEF Webhooks, Intake, WaitingAlone
  <2>2. Webhooks' = Webhooks \ {s} /\ \A r \in Webhooks \ {s} : session'[r] = session[r]
    BY <1>1, IdleFields DEF Webhooks, Intake, SessionShape
  <2>3. \A r \in Webhooks \ {s} : session[r].invoice # i
    BY <2>1 DEF Intake, WaitingAlone
  <2>4. Waiting' = Waiting \ {i} /\ i \in Waiting
    BY <2>1, <2>2, <2>3 DEF Waiting, Webhooks
  <2>5. lost' = lost \cup {i} /\ spent'.crashes > 0
    BY <1>3, <1>5 DEF FailSession, Intake, SpentType
  <2>6. WaitingAlone'
    BY <1>1, <2>2, <2>3, <2>5 DEF Intake, WaitingAlone
  <2>7. stored' = answered' \cup (accepted' \ (Waiting' \cup lost'))
    BY <1>1, <2>1, <2>4, <2>5 DEF Intake, IntakeAccounted
  <2>8. IntakeAccounted'
    BY <2>5, <2>7 DEF IntakeAccounted
  <2> QED  BY <1>2, <1>3, <2>6, <2>8 DEF Intake
<1> QED  BY <1>4, <1>5

\* PATCHes and analyses, whose sessions are not a webhook's.
LEMMA SessionKeepsIntake ==
    ASSUME Intake, NEW s \in Sessions,
           \/ \E i \in Invoices, edit \in Edits : LoadPatch(s, i, edit)
           \/ \E alerting \in BOOLEAN : AnalyseInvoice(s, alerting)
           \/ CommitSession(s)
    PROVE  Intake'
<1>1. /\ stored' = stored /\ answered' = answered /\ accepted' = accepted /\ lost' = lost
      /\ sent' = sent
  BY DEF LoadPatch, AnalyseInvoice, CommitSession, table, intake
<1>2. SpentType' /\ spent'.crashes >= spent.crashes
  <2>1. Paid
    BY DEF LoadPatch, AnalyseInvoice, CommitSession, Paid
  <2> QED  BY <2>1, PaidType
<1>3. session[s].task # "webhook"
  BY IdleFields DEF LoadPatch, AnalyseInvoice, CommitSession, Intake, WaitingAlone, Webhooks
<1>4. PICK new : session' = [session EXCEPT ![s] = new] /\ DOMAIN new = Fields
                 /\ new.task # "webhook"
  <2>1. ASSUME NEW i \in Invoices, NEW edit \in Edits, LoadPatch(s, i, edit)
        PROVE  \E new : session' = [session EXCEPT ![s] = new] /\ DOMAIN new = Fields
                        /\ new.task # "webhook"
    <3> DEFINE new == [Idle EXCEPT !.task = "patch", !.stage = "read", !.invoice = i,
                          !.changes = Changes(i, row[i], Edited(row[i], edit))]
    <3>1. DOMAIN new = Fields /\ new.task = "patch"
      BY IdleFields DEF Idle
    <3>2. session' = [session EXCEPT ![s] = new]
      BY <2>1 DEF LoadPatch
    <3> HIDE DEF new
    <3> QED  BY <3>1, <3>2
  <2>2. ASSUME NEW alerting \in BOOLEAN, AnalyseInvoice(s, alerting)
        PROVE  \E new : session' = [session EXCEPT ![s] = new] /\ DOMAIN new = Fields
                        /\ new.task # "webhook"
    <3>1. PICK changes : session' = [session EXCEPT ![s].stage = "read", ![s].changes = changes]
      BY <2>2 DEF AnalyseInvoice
    <3> DEFINE new == [session[s] EXCEPT !.stage = "read", !.changes = changes]
    <3>2. DOMAIN new = Fields /\ new.task = session[s].task
      BY DEF Intake, SessionShape, Fields
    <3>3. session' = [session EXCEPT ![s] = new]
      BY <3>1 DEF Intake, SessionShape
    <3> HIDE DEF new
    <3> QED  BY <1>3, <3>2, <3>3
  <2>3. ASSUME CommitSession(s)
        PROVE  \E new : session' = [session EXCEPT ![s] = new] /\ DOMAIN new = Fields
                        /\ new.task # "webhook"
    BY <2>3, IdleFields DEF CommitSession
  <2> QED  BY <2>1, <2>2, <2>3
<1>5. SessionShape'
  BY <1>4 DEF Intake, SessionShape
<1>6. \A r \in Sessions : \/ session'[r] = session[r]
                          \/ session[r].task # "webhook" /\ session'[r].task # "webhook"
  BY <1>3, <1>4 DEF Intake, SessionShape
<1> QED  BY <1>1, <1>2, <1>5, <1>6, SameIntake

LEMMA WorkKeepsIntake ==
    ASSUME Intake, NEW w \in Workers,
           Work(w) \/ CrashWorker(w) \/ CommitAndCrash(w) \/ FailWork(w)
    PROVE  Intake'
<1>1. /\ stored' = stored /\ answered' = answered /\ accepted' = accepted /\ lost' = lost
      /\ sent' = sent /\ session' = session
  BY DEF Work, SelectUnmatched, MatchPeriod, CommitWork, Commit, CommitAndCrash, CrashWorker,
     FailWork, table, intake
<1>2. SpentType' /\ spent'.crashes >= spent.crashes
  <2>1. Paid
    BY DEF Work, SelectUnmatched, MatchPeriod, CommitWork, CommitAndCrash, CrashWorker,
       FailWork, Spend, Paid
  <2> QED  BY <2>1, PaidType
<1> QED  BY <1>1, <1>2, SameIntake DEF Intake, SessionShape

LEMMA IntakeNext == Intake /\ [Next]_vars => Intake'
<1> SUFFICES ASSUME Intake, [Next]_vars PROVE Intake'
  OBVIOUS
<1>1. ASSUME NEW s \in Sessions, Request(s) \/ Serve(s)
      PROVE  Intake'
  BY <1>1, SubmitKeepsIntake, ReceiveKeepsIntake, ProcessKeepsIntake, SessionKeepsIntake
     DEF Request, Serve
<1>2. ASSUME NEW S \in SUBSET Invoices, SubmitBatch(S)
      PROVE  Intake'
  BY <1>2, BatchKeepsIntake
<1>3. ASSUME NEW w \in Workers,
             Work(w) \/ CrashWorker(w) \/ CommitAndCrash(w) \/ FailWork(w)
      PROVE  Intake'
  BY <1>3, WorkKeepsIntake
<1>4. CASE CrashApi
  BY <1>4, CrashApiKeepsIntake
<1>5. ASSUME NEW s \in Sessions, FailSession(s)
      PROVE  Intake'
  BY <1>5, FailKeepsIntake
<1>6. CASE PassDeadline \/ UNCHANGED vars
  BY <1>6, SameIntake DEF PassDeadline, vars, table, intake, Intake, SessionShape, SpentType
<1> QED  BY <1>1, <1>2, <1>3, <1>4, <1>5, <1>6 DEF Next

LEMMA IntakeInit == Init => Intake
BY IdleFields DEF Init, Intake, SessionShape, SpentType, WaitingAlone, Webhooks, Waiting,
   IntakeAccounted

\* Whatever is submitted, one by one, in batches or by the webhook, by known
\* and unknown parties, and whenever the API process dies: what was answered
\* is stored, a batch that was refused left nothing, and a webhook that was
\* accepted is stored, waiting or lost, and lost only for an unknown party
\* or by a crash.
THEOREM EveryIntakeAccounted == Spec => []IntakeAccounted
<1>1. Intake => IntakeAccounted
  BY DEF Intake
<1> QED  BY <1>1, IntakeInit, IntakeNext, PTL DEF Spec

-----------------------------------------------------------------------------
(* The rows.                                                               *)

RowShape ==
    /\ DOMAIN row = Invoices
    /\ \A i \in Invoices : DOMAIN row[i] = Columns /\ row[i].is_suspicious \in BOOLEAN

WorkerShape == DOMAIN worker = Workers /\ \A w \in Workers : DOMAIN worker[w] = Fields

\* What a set of changes may do.
Writes(changes) ==
    \A x \in changes : /\ x = <<x[1], x[2], x[3]>>
                       /\ x[2] = "is_suspicious" => x[3] \in BOOLEAN
OnlySuspects(changes) == \A x \in changes : x[2] = "is_suspicious" => x[3] = TRUE
OnlyUnmatches(changes) == \A x \in changes : x[2] = "status" => x[3] = "unmatched"

SessionMay(r) ==
    /\ DOMAIN r = Fields
    /\ r.task = "analysis" => r.invoice \in Invoices
    /\ Writes(r.changes) /\ OnlySuspects(r.changes)

WorkerMay(r) ==
    /\ DOMAIN r = Fields
    /\ Writes(r.changes) /\ OnlyUnmatches(r.changes)
    /\ r.task # "match" => OnlySuspects(r.changes)
    /\ \A i \in r.raises : \E x \in r.changes : x[1] = i /\ x[2] = "status"
    /\ r.stage # "read" => r.raises = {}

\* An invoice that was alerted and not reopened is out of the scan's reach,
\* and a scan that holds one, or that shares one, is accounted for.
Alerted ==
    /\ alerts \in [Invoices -> 0..2]
    /\ \A i \in Invoices \ reopened : alerts[i] >= 1 => row[i].status # "received"
    /\ \A i \in Invoices, w \in Workers :
          alerts[i] >= 1 /\ Scanning(w, i) => i \in overlapped \cup reopened
    /\ \A i \in Invoices, v, w \in Workers :
          v # w /\ Scanning(v, i) /\ Scanning(w, i) => i \in overlapped

Holders ==
    /\ DOMAIN session = Sessions /\ DOMAIN worker = Workers
    /\ \A s \in Sessions : SessionMay(session[s])
    /\ \A w \in Workers : WorkerMay(worker[w])

Ledger == RowShape /\ Holders /\ Alerted /\ ScanAlertsOnce

\* A commit writes the changes, and nothing else.
LEMMA Applied ==
    ASSUME NEW changes, Writes(changes), Apply(changes), NEW i \in Invoices, NEW c \in Columns
    PROVE  /\ row'[i][c] = row[i][c] \/ <<i, c, row'[i][c]>> \in changes
           /\ (\E x \in changes : x[1] = i /\ x[2] = c) => <<i, c, row'[i][c]>> \in changes
<1>1. row'[i][c] = Written(i, c, changes)
  BY DEF Apply
<1>2. CASE \E x \in changes : x[1] = i /\ x[2] = c
  <2> DEFINE y == CHOOSE x \in changes : x[1] = i /\ x[2] = c
  <2>1. y \in changes /\ y[1] = i /\ y[2] = c
    BY <1>2
  <2>2. y = <<i, c, y[3]>>
    BY <2>1 DEF Writes
  <2>3. row'[i][c] = y[3]
    BY <1>1, <1>2 DEF Written
  <2> HIDE DEF y
  <2> QED  BY <2>1, <2>2, <2>3
<1>3. CASE ~\E x \in changes : x[1] = i /\ x[2] = c
  BY <1>1, <1>3 DEF Written
<1> QED  BY <1>2, <1>3

LEMMA AppliedShape ==
    ASSUME RowShape, NEW changes, Writes(changes), Apply(changes)
    PROVE  RowShape'
<1>1. DOMAIN row' = Invoices /\ \A i \in Invoices : DOMAIN row'[i] = Columns
  BY DEF Apply
<1>2. ASSUME NEW i \in Invoices
      PROVE  row'[i]["is_suspicious"] \in BOOLEAN
  <2>1. \/ row'[i]["is_suspicious"] = row[i]["is_suspicious"]
        \/ <<i, "is_suspicious", row'[i]["is_suspicious"]>> \in changes
    BY Applied DEF Columns
  <2>2. CASE row'[i]["is_suspicious"] = row[i]["is_suspicious"]
    BY <2>2 DEF RowShape
  <2>3. CASE <<i, "is_suspicious", row'[i]["is_suspicious"]>> \in changes
    <3> DEFINE x == <<i, "is_suspicious", row'[i]["is_suspicious"]>>
    <3>1. x[2] = "is_suspicious" => x[3] \in BOOLEAN
      BY <2>3 DEF Writes
    <3> QED  BY <3>1
  <2> QED  BY <2>1, <2>2, <2>3
<1> QED  BY <1>1, <1>2 DEF RowShape

LEMMA ChangeOf ==
    ASSUME NEW i, NEW old, NEW new, NEW x \in Changes(i, old, new)
    PROVE  /\ x = <<x[1], x[2], x[3]>> /\ x[1] = i /\ x[2] \in Columns
           /\ x[3] = new[x[2]] /\ new[x[2]] # old[x[2]]
BY DEF Changes

LEMMA PatchChanges ==
    ASSUME RowShape, NEW i \in Invoices, NEW edit \in Edits
    PROVE  Writes(Changes(i, row[i], Edited(row[i], edit)))
           /\ OnlySuspects(Changes(i, row[i], Edited(row[i], edit)))
<1> DEFINE new == Edited(row[i], edit)
<1>1. new["is_suspicious"] = row[i]["is_suspicious"]
  BY EditAssumption DEF Edited, Columns
<1> HIDE DEF new
<1>2. \A x \in Changes(i, row[i], new) : x = <<x[1], x[2], x[3]>> /\ x[2] # "is_suspicious"
  BY <1>1, ChangeOf
<1> QED  BY <1>2 DEF Writes, OnlySuspects, new

LEMMA AnalysisChanges ==
    ASSUME RowShape, NEW i \in Invoices, NEW alerting \in BOOLEAN,
           NEW new, new = [row[i] EXCEPT !.is_suspicious = @ \/ alerting]
    PROVE  Writes(Changes(i, row[i], new)) /\ OnlySuspects(Changes(i, row[i], new))
<1>1. row[i].is_suspicious \in BOOLEAN /\ DOMAIN row[i] = Columns
  BY DEF RowShape
<1>2. new["is_suspicious"] = (row[i].is_suspicious \/ alerting)
  BY <1>1 DEF Columns
<1>3. new["is_suspicious"] # row[i]["is_suspicious"] => new["is_suspicious"] = TRUE
  BY <1>1, <1>2
<1>4. ASSUME NEW x \in Changes(i, row[i], new)
      PROVE  x = <<x[1], x[2], x[3]>> /\ (x[2] = "is_suspicious" => x[3] = TRUE)
  <2>1. x = <<x[1], x[2], x[3]>> /\ x[3] = new[x[2]] /\ new[x[2]] # row[i][x[2]]
    BY ChangeOf
  <2>2. ASSUME x[2] = "is_suspicious" PROVE x[3] = TRUE
    <3>1. x[3] = new["is_suspicious"] /\ new["is_suspicious"] # row[i]["is_suspicious"]
      BY <2>1, <2>2
    <3> QED  BY <1>3, <3>1
  <2> QED  BY <2>1, <2>2
<1> QED  BY <1>4 DEF Writes, OnlySuspects

\* What the scan writes of an invoice that it selected.
LEMMA ScanChanges ==
    ASSUME RowShape, NEW S \in SUBSET Invoices, S \subseteq Unmatched,
           NEW changes, changes = UNION {Changes(i, row[i], Flagged(row[i])) : i \in S}
    PROVE  /\ Writes(changes) /\ OnlySuspects(changes) /\ OnlyUnmatches(changes)
           /\ \A i \in S : \E x \in changes : x[1] = i /\ x[2] = "status"
<1>1. ASSUME NEW i \in S
      PROVE  /\ Flagged(row[i])["status"] = "unmatched"
             /\ Flagged(row[i])["is_suspicious"] = TRUE
             /\ row[i]["status"] = "received"
  <2>1. DOMAIN row[i] = Columns
    BY DEF RowShape
  <2> QED  BY <2>1 DEF Flagged, Columns, Unmatched
<1>2. ASSUME NEW x \in changes
      PROVE  /\ x = <<x[1], x[2], x[3]>>
             /\ x[2] = "status" => x[3] = "unmatched"
             /\ x[2] = "is_suspicious" => x[3] = TRUE
  <2>1. PICK i \in S : x \in Changes(i, row[i], Flagged(row[i]))
    OBVIOUS
  <2> DEFINE new == Flagged(row[i])
  <2>2. new["status"] = "unmatched" /\ new["is_suspicious"] = TRUE
    BY <1>1
  <2> HIDE DEF new
  <2>3. x = <<x[1], x[2], x[3]>> /\ x[3] = new[x[2]]
    BY <2>1, ChangeOf DEF new
  <2>4. x[2] = "status" => x[3] = "unmatched"
    BY <2>2, <2>3
  <2>5. x[2] = "is_suspicious" => x[3] = TRUE
    BY <2>2, <2>3
  <2> QED  BY <2>3, <2>4, <2>5
<1>3. ASSUME NEW i \in S
      PROVE  \E x \in changes : x[1] = i /\ x[2] = "status"
  <2>1. <<i, "status", "unmatched">> \in Changes(i, row[i], Flagged(row[i]))
    BY <1>1 DEF Changes, Columns
  <2> DEFINE x == <<i, "status", "unmatched">>
  <2>2. x \in changes /\ x[1] = i /\ x[2] = "status"
    BY <2>1
  <2> QED  BY <2>2
<1> QED  BY <1>2, <1>3 DEF Writes, OnlySuspects, OnlyUnmatches

\* What the batch match writes, whatever the matcher answers.
LEMMA MatchChanges ==
    ASSUME NEW list, NEW x \in Blamed(list)
    PROVE  /\ x = <<x[1], x[2], x[3]>>
           /\ x[2] = "status" => x[3] = "unmatched"
           /\ x[2] = "is_suspicious" => x[3] \in BOOLEAN
<1>1. PICK first, results : x \in Blame(first, results)
  BY DEF Blamed
<1> DEFINE risky == results[Len(results)].risk >= 5000
           verdict == [status |-> "unmatched", is_suspicious |-> risky]
           new == Edited(row[first], verdict)
<1>2. risky \in BOOLEAN
  OBVIOUS
<1> HIDE DEF risky
<1>3. new["status"] = "unmatched" /\ new["is_suspicious"] \in BOOLEAN
  <2>1. DOMAIN verdict = {"status", "is_suspicious"} /\ verdict["status"] = "unmatched"
        /\ verdict["is_suspicious"] = risky
    OBVIOUS
  <2> HIDE DEF verdict
  <2>2. new["status"] = "unmatched" /\ new["is_suspicious"] = risky
    BY <2>1 DEF Edited, Columns
  <2> QED  BY <1>2, <2>2
<1>4. x = <<x[1], x[2], x[3]>> /\ x[3] = new[x[2]]
  BY <1>1, ChangeOf DEF Blame, risky
<1> HIDE DEF new
<1>5. x[2] = "status" => x[3] = "unmatched"
  BY <1>3, <1>4
<1>6. x[2] = "is_suspicious" => x[3] \in BOOLEAN
  BY <1>3, <1>4
<1> QED  BY <1>4, <1>5, <1>6

-----------------------------------------------------------------------------
(* Those who hold rows.                                                    *)

LEMMA IdleMay == SessionMay(Idle) /\ WorkerMay(Idle)
BY IdleFields DEF SessionMay, WorkerMay, Writes, OnlySuspects, OnlyUnmatches

LEMMA DeliveredMay ==
    ASSUME NEW w \in Workers
    PROVE  WorkerMay(Delivered(w)) /\ Delivered(w).stage = "queued" /\ Delivered(w).raises = {}
<1>1. /\ DOMAIN Delivered(w) = Fields /\ Delivered(w).stage = "queued"
      /\ Delivered(w).changes = {} /\ Delivered(w).raises = {}
  BY DEF Delivered, Idle, Fields
<1> QED  BY <1>1 DEF WorkerMay, Writes, OnlySuspects, OnlyUnmatches

\* Rows and alerts stay, and one session goes on.
LEMMA OneSession ==
    ASSUME Ledger, NEW s \in Sessions, NEW r, SessionMay(r),
           session' = [session EXCEPT ![s] = r], worker' = worker,
           row' = row, alerts' = alerts, overlapped' = overlapped, reopened' = reopened
    PROVE  Ledger'
<1>1. Holders'
  BY DEF Ledger, Holders
<1>2. Alerted' /\ ScanAlertsOnce' /\ RowShape'
  BY DEF Ledger, Alerted, ScanAlertsOnce, RowShape, Scanning
<1> QED  BY <1>1, <1>2 DEF Ledger

\* Rows and alerts stay, and one worker goes on to hold no invoice.
LEMMA OneWorker ==
    ASSUME Ledger, NEW w \in Workers, NEW r, WorkerMay(r), r.raises = {},
           worker' = [worker EXCEPT ![w] = r], session' = session,
           row' = row, alerts' = alerts, overlapped' = overlapped, reopened' = reopened
    PROVE  Ledger'
<1>1. Holders'
  BY DEF Ledger, Holders
<1>2. \A v \in Workers : \A i : Scanning(v, i)' => Scanning(v, i)
  BY DEF Ledger, Holders, Scanning
<1>3. Alerted' /\ ScanAlertsOnce' /\ RowShape'
  BY <1>2 DEF Ledger, Alerted, ScanAlertsOnce, RowShape
<1> QED  BY <1>1, <1>3 DEF Ledger

LEMMA RequestKeepsLedger ==
    ASSUME Ledger, NEW s \in Sessions, Request(s) \/ ProcessWebhook(s)
    PROVE  Ledger'
<1>1. ASSUME NEW i \in Invoices, NEW task \in {"analysis", "webhook"},
             session' = [session EXCEPT ![s] = [Idle EXCEPT !.task = task, !.stage = "queued",
                                                            !.invoice = i]],
             worker' = worker, row' = row, alerts' = alerts,
             overlapped' = overlapped, reopened' = reopened
      PROVE  Ledger'
  <2> DEFINE r == [Idle EXCEPT !.task = task, !.stage = "queued", !.invoice = i]
  <2>1. DOMAIN r = Fields /\ r.invoice = i /\ r.changes = {}
    BY DEF Idle, Fields
  <2> HIDE DEF r
  <2>2. SessionMay(r)
    BY <2>1 DEF SessionMay, Writes, OnlySuspects
  <2> QED  BY <1>1, <2>2, OneSession DEF r
<1>2. ASSUME NEW i \in Invoices, SubmitInvoice(s, i)
      PROVE  Ledger'
  BY <1>1, <1>2 DEF SubmitInvoice, history
<1>3. ASSUME NEW i \in Invoices, ReceiveWebhook(s, i)
      PROVE  Ledger'
  BY <1>1, <1>3 DEF ReceiveWebhook, history, table
<1>4. ASSUME NEW i \in Invoices, NEW edit \in Edits, LoadPatch(s, i, edit)
      PROVE  Ledger'
  <2> DEFINE r == [Idle EXCEPT !.task = "patch", !.stage = "read", !.invoice = i,
                               !.changes = Changes(i, row[i], Edited(row[i], edit))]
  <2>1. /\ DOMAIN r = Fields /\ r.task = "patch"
        /\ r.changes = Changes(i, row[i], Edited(row[i], edit))
    BY DEF Idle, Fields
  <2>2. /\ session' = [session EXCEPT ![s] = r] /\ worker' = worker /\ row' = row
        /\ alerts' = alerts /\ overlapped' = overlapped /\ reopened' = reopened
    BY <1>4 DEF LoadPatch, history, table
  <2> HIDE DEF r
  <2>3. SessionMay(r)
    BY <2>1, PatchChanges DEF Ledger, SessionMay
  <2> QED  BY <2>2, <2>3, OneSession
<1>5. CASE ProcessWebhook(s)
  BY <1>5, IdleMay, OneSession DEF ProcessWebhook, history
<1> QED  BY <1>2, <1>3, <1>4, <1>5 DEF Request

LEMMA AnalysisKeepsLedger ==
    ASSUME Ledger, NEW s \in Sessions, NEW alerting \in BOOLEAN, AnalyseInvoice(s, alerting)
    PROVE  Ledger'
<1> DEFINE i == session[s].invoice
           new == [row[i] EXCEPT !.is_suspicious = @ \/ alerting]
           r == [session[s] EXCEPT !.stage = "read", !.changes = Changes(i, row[i], new)]
<1>1. SessionMay(session[s]) /\ i \in Invoices
  BY DEF Ledger, Holders, SessionMay, AnalyseInvoice
<1>2. /\ session' = [session EXCEPT ![s] = r] /\ worker' = worker /\ row' = row
      /\ alerts' = alerts /\ overlapped' = overlapped /\ reopened' = reopened
  BY DEF AnalyseInvoice, history, table, Ledger, Holders
<1>3. Writes(Changes(i, row[i], new)) /\ OnlySuspects(Changes(i, row[i], new))
  BY <1>1, AnalysisChanges DEF Ledger
<1>4. /\ DOMAIN r = Fields /\ r.invoice = i /\ r.changes = Changes(i, row[i], new)
  BY <1>1 DEF SessionMay, Fields
<1> HIDE DEF r
<1>5. SessionMay(r)
  BY <1>1, <1>3, <1>4 DEF SessionMay
<1> QED  BY <1>2, <1>5, OneSession

LEMMA TakenWorker ==
    ASSUME Ledger, NEW w \in Workers, NEW task, Takes(w, task)
    PROVE  DOMAIN worker[w] = Fields /\ worker[w].raises = {} /\ worker[w].stage # "read"
BY IdleFields DEF Takes, Ledger, Holders, WorkerMay

LEMMA MatchKeepsLedger ==
    ASSUME Ledger, NEW w \in Workers, MatchPeriod(w)
    PROVE  Ledger'
<1>1. DOMAIN worker[w] = Fields /\ worker[w].raises = {}
  BY TakenWorker DEF MatchPeriod
<1>2. PICK list : MatchRows(w, list)
  BY DEF MatchPeriod
<1> DEFINE changes == UNION {Blamed(OfSeller(list, tin)) : tin \in Registered}
           r == [worker[w] EXCEPT !.task = "match", !.stage = "read", !.changes = changes]
<1>3. /\ worker' = [worker EXCEPT ![w] = r] /\ session' = session /\ row' = row
      /\ alerts' = alerts /\ overlapped' = overlapped /\ reopened' = reopened
  BY <1>2 DEF MatchPeriod, MatchRows, history, table, Ledger, Holders
<1>4. /\ DOMAIN r = Fields /\ r.task = "match" /\ r.changes = changes /\ r.raises = {}
      /\ r.stage = "read"
  BY <1>1 DEF Fields
<1>5. Writes(changes) /\ OnlyUnmatches(changes)
  BY MatchChanges DEF Writes, OnlyUnmatches
<1> HIDE DEF r, changes
<1>6. WorkerMay(r)
  BY <1>4, <1>5 DEF WorkerMay
<1> QED  BY <1>3, <1>4, <1>6, OneWorker

\* A scan takes invoices that are RECEIVED: an alert it has had means that
\* it was reopened, and another scan that holds one that they overlap.
LEMMA ScanKeepsLedger ==
    ASSUME Ledger, NEW w \in Workers, NEW S \in SUBSET Invoices, SelectUnmatched(w, S)
    PROVE  Ledger'
<1> DEFINE changes == UNION {Changes(i, row[i], Flagged(row[i])) : i \in S}
           r == [worker[w] EXCEPT !.task = "scan", !.stage = "read", !.raises = S,
                                  !.changes = changes]
<1>1. DOMAIN worker[w] = Fields /\ worker[w].raises = {} /\ worker[w].stage # "read"
  BY TakenWorker DEF SelectUnmatched
<1>2. /\ worker' = [worker EXCEPT ![w] = r] /\ session' = session /\ row' = row
      /\ alerts' = alerts /\ reopened' = reopened
      /\ overlapped' = overlapped \cup {i \in S : \E v \in Workers : Scanning(v, i)}
  BY DEF SelectUnmatched, table, Ledger, Holders
<1>3. /\ DOMAIN r = Fields /\ r.task = "scan" /\ r.changes = changes /\ r.raises = S
      /\ r.stage = "read"
  BY <1>1 DEF Fields
<1>4. /\ Writes(changes) /\ OnlySuspects(changes) /\ OnlyUnmatches(changes)
      /\ \A i \in S : \E x \in changes : x[1] = i /\ x[2] = "status"
  BY ScanChanges DEF Ledger, SelectUnmatched
<1>5. \A i \in S : row[i].status = "received"
  BY DEF SelectUnmatched, Unmatched
<1> HIDE DEF r, changes
<1>6. Holders'
  <2>1. WorkerMay(r)
    BY <1>3, <1>4 DEF WorkerMay
  <2> QED  BY <1>2, <2>1 DEF Ledger, Holders
<1>7. /\ \A i : Scanning(w, i)' <=> i \in S
      /\ \A v \in Workers \ {w} : \A i : Scanning(v, i)' <=> Scanning(v, i)
  BY <1>2, <1>3 DEF Ledger, Holders, Scanning
<1>8. \A i \in S : alerts[i] >= 1 => i \in reopened
  BY <1>5 DEF Ledger, Alerted
<1>9. ASSUME NEW i \in Invoices, NEW v \in Workers, alerts[i] >= 1, Scanning(v, i)'
      PROVE  i \in overlapped' \cup reopened'
  BY <1>2, <1>7, <1>8, <1>9 DEF Ledger, Alerted
<1>10. ASSUME NEW i \in Invoices, NEW u \in Workers, NEW v \in Workers, u # v,
              Scanning(u, i)', Scanning(v, i)'
       PROVE  i \in overlapped'
  BY <1>2, <1>7, <1>10 DEF Ledger, Alerted
<1>11. Alerted'
  BY <1>2, <1>9, <1>10 DEF Ledger, Alerted
<1>12. ScanAlertsOnce' /\ RowShape'
  BY <1>2 DEF Ledger, ScanAlertsOnce, RowShape
<1> QED  BY <1>6, <1>11, <1>12 DEF Ledger

LEMMA MinOfTwo ==
    ASSUME NEW n \in 0..2
    PROVE  /\ Min({2, n + 1}) \in 0..2 /\ Min({2, n + 1}) >= 1
           /\ Min({2, n + 1}) > 1 => n >= 1
<1> DEFINE S == {2, n + 1}
           m == IF n + 1 <= 2 THEN n + 1 ELSE 2
<1>1. m \in S /\ \A y \in S : m <= y
  OBVIOUS
<1>2. Min(S) \in S /\ \A y \in S : Min(S) <= y
  BY <1>1 DEF Min
<1> QED  BY <1>2

\* A worker commits and then holds nothing.
LEMMA CommitKeepsLedger ==
    ASSUME Ledger, NEW w \in Workers, Commit(w), NEW r, WorkerMay(r), r.raises = {},
           worker' = [worker EXCEPT ![w] = r]
    PROVE  Ledger'
<1> DEFINE changes == worker[w].changes
<1>1. WorkerMay(worker[w]) /\ worker[w].stage = "read" /\ Apply(changes)
  BY DEF Ledger, Holders, Commit
<1>2. Writes(changes) /\ OnlyUnmatches(changes)
  BY <1>1 DEF WorkerMay
<1>3. session' = session /\ overlapped' = overlapped /\ reopened' = reopened
  BY DEF Commit, history
<1>4. /\ DOMAIN alerts' = Invoices
      /\ \A i \in Invoices : alerts'[i] = IF Scanning(w, i) THEN Min({2, alerts[i] + 1})
                                                        ELSE alerts[i]
  BY <1>1 DEF Commit, Scanning
<1>5. /\ alerts' \in [Invoices -> 0..2]
      /\ \A i \in Invoices : alerts'[i] >= 1 => alerts[i] >= 1 \/ Scanning(w, i)
      /\ \A i \in Invoices :
            alerts'[i] > 1 => alerts[i] > 1 \/ (alerts[i] >= 1 /\ Scanning(w, i))
  <2>1. \A i \in Invoices : alerts[i] \in 0..2
    BY DEF Ledger, Alerted
  <2>2. \A i \in Invoices : alerts'[i] \in 0..2
    BY <1>4, <2>1, MinOfTwo
  <2>3. alerts' \in [Invoices -> 0..2]
    BY <2>2 DEF Commit
  <2>4. ASSUME NEW i \in Invoices
        PROVE  /\ alerts'[i] >= 1 => alerts[i] >= 1 \/ Scanning(w, i)
               /\ alerts'[i] > 1 => alerts[i] > 1 \/ (alerts[i] >= 1 /\ Scanning(w, i))
    <3>1. CASE Scanning(w, i)
      <4>1. alerts'[i] = Min({2, alerts[i] + 1}) /\ alerts[i] \in 0..2
        BY <1>4, <2>1, <3>1
      <4>2. Min({2, alerts[i] + 1}) > 1 => alerts[i] >= 1
        BY <4>1, MinOfTwo
      <4> QED  BY <3>1, <4>1, <4>2
    <3>2. CASE ~Scanning(w, i)
      BY <1>4, <3>2
    <3> QED  BY <3>1, <3>2
  <2> QED  BY <2>3, <2>4
<1>6. \A v \in Workers : \A i : Scanning(v, i)' => v # w /\ Scanning(v, i)
  BY DEF Ledger, Holders, Scanning
<1>7. Holders'
  BY <1>3 DEF Ledger, Holders
<1>8. RowShape'
  BY <1>1, <1>2, AppliedShape DEF Ledger
<1>9. ASSUME NEW i \in Invoices \ reopened, alerts'[i] >= 1
      PROVE  row'[i].status # "received"
  <2>1. "status" \in Columns
    BY DEF Columns
  <2>2. ASSUME <<i, "status", row'[i]["status"]>> \in changes
        PROVE  row'[i]["status"] = "unmatched"
    <3> DEFINE x == <<i, "status", row'[i]["status"]>>
    <3>1. x[2] = "status" => x[3] = "unmatched"
      BY <1>2, <2>2 DEF OnlyUnmatches
    <3> QED  BY <3>1
  <2>3. CASE Scanning(w, i)
    <3>1. \E x \in changes : x[1] = i /\ x[2] = "status"
      BY <1>1, <2>3 DEF WorkerMay, Scanning
    <3>2. <<i, "status", row'[i]["status"]>> \in changes
      BY <1>1, <1>2, <2>1, <3>1, Applied
    <3> QED  BY <2>2, <3>2
  <2>4. CASE ~Scanning(w, i)
    <3>1. row[i].status # "received"
      BY <1>5, <1>9, <2>4 DEF Ledger, Alerted
    <3>2. \/ row'[i]["status"] = row[i]["status"]
          \/ <<i, "status", row'[i]["status"]>> \in changes
      BY <1>1, <1>2, <2>1, Applied
    <3> QED  BY <2>2, <3>1, <3>2
  <2> QED  BY <2>3, <2>4
<1>10. ASSUME NEW i \in Invoices, NEW v \in Workers, alerts'[i] >= 1, Scanning(v, i)'
       PROVE  i \in overlapped \cup reopened
  BY <1>5, <1>6, <1>10 DEF Ledger, Alerted
<1>11. Alerted'
  <2>1. \A i \in Invoices, u, v \in Workers :
           u # v /\ Scanning(u, i)' /\ Scanning(v, i)' => i \in overlapped
    BY <1>6 DEF Ledger, Alerted
  <2> QED  BY <1>3, <1>5, <1>9, <1>10, <2>1 DEF Alerted
<1>12. ScanAlertsOnce'
  BY <1>3, <1>5 DEF Ledger, Alerted, ScanAlertsOnce
<1> QED  BY <1>7, <1>8, <1>11, <1>12 DEF Ledger

\* A session commits: what it puts back to RECEIVED is reopened.
LEMMA SessionCommitKeepsLedger ==
    ASSUME Ledger, NEW s \in Sessions, CommitSession(s)
    PROVE  Ledger'
<1> DEFINE changes == session[s].changes
<1>1. Writes(changes) /\ Apply(changes)
  BY DEF Ledger, Holders, SessionMay, CommitSession
<1>2. /\ worker' = worker /\ alerts' = alerts /\ overlapped' = overlapped
      /\ session' = [session EXCEPT ![s] = Idle]
      /\ reopened' = reopened \cup {i \in Invoices : <<i, "status", "received">> \in changes}
  BY DEF CommitSession
<1>3. Holders'
  BY <1>2, IdleMay DEF Ledger, Holders
<1>4. RowShape'
  BY <1>1, AppliedShape DEF Ledger
<1>5. ASSUME NEW i \in Invoices \ reopened', alerts[i] >= 1
      PROVE  row'[i].status # "received"
  <2>1. \/ row'[i]["status"] = row[i]["status"]
        \/ <<i, "status", row'[i]["status"]>> \in changes
    BY <1>1, Applied DEF Columns
  <2>2. row[i].status # "received"
    BY <1>2, <1>5 DEF Ledger, Alerted
  <2> QED  BY <1>2, <2>1, <2>2
<1>6. \A v \in Workers : \A i : Scanning(v, i)' <=> Scanning(v, i)
  BY <1>2 DEF Scanning
<1>7. Alerted' /\ ScanAlertsOnce'
  BY <1>2, <1>5, <1>6 DEF Ledger, Alerted, ScanAlertsOnce
<1> QED  BY <1>3, <1>4, <1>7 DEF Ledger

LEMMA CrashApiKeepsLedger ==
    ASSUME Ledger, CrashApi
    PROVE  Ledger'
<1>1. /\ worker' = worker /\ row' = row /\ alerts' = alerts /\ overlapped' = overlapped
      /\ reopened' = reopened /\ session' = [s \in Sessions |-> Idle]
  BY DEF CrashApi, history, table
<1>2. Holders'
  BY <1>1, IdleMay DEF Ledger, Holders
<1> QED  BY <1>1, <1>2 DEF Ledger, Alerted, ScanAlertsOnce, RowShape, Scanning

LEMMA FailSessionKeepsLedger ==
    ASSUME Ledger, NEW s \in Sessions, FailSession(s)
    PROVE  Ledger'
<1>1. /\ worker' = worker /\ row' = row /\ alerts' = alerts /\ overlapped' = overlapped
      /\ reopened' = reopened /\ session' = [session EXCEPT ![s] = Idle]
  BY DEF FailSession, history, table
<1>2. Holders'
  BY <1>1, IdleMay DEF Ledger, Holders
<1> QED  BY <1>1, <1>2 DEF Ledger, Alerted, ScanAlertsOnce, RowShape, Scanning

LEMMA LedgerNext == Ledger /\ [Next]_vars => Ledger'
<1> SUFFICES ASSUME Ledger, [Next]_vars PROVE Ledger'
  OBVIOUS
<1>1. ASSUME NEW s \in Sessions, Request(s) \/ Serve(s)
      PROVE  Ledger'
  BY <1>1, RequestKeepsLedger, AnalysisKeepsLedger, SessionCommitKeepsLedger DEF Serve
<1>2. ASSUME NEW w \in Workers, Work(w)
      PROVE  Ledger'
  <2>1. ASSUME NEW S \in SUBSET Invoices, SelectUnmatched(w, S)
        PROVE  Ledger'
    BY <2>1, ScanKeepsLedger
  <2>2. CASE MatchPeriod(w)
    BY <2>2, MatchKeepsLedger
  <2>3. CASE CommitWork(w)
    BY <2>3, IdleMay, IdleFields, CommitKeepsLedger DEF CommitWork
  <2> QED  BY <1>2, <2>1, <2>2, <2>3 DEF Work
<1>3. ASSUME NEW w \in Workers, CommitAndCrash(w)
      PROVE  Ledger'
  BY <1>3, DeliveredMay, CommitKeepsLedger DEF CommitAndCrash
<1>4. ASSUME NEW w \in Workers, CrashWorker(w)
      PROVE  Ledger'
  BY <1>4, DeliveredMay, OneWorker DEF CrashWorker, table, history
<1>5. ASSUME NEW w \in Workers, FailWork(w)
      PROVE  Ledger'
  BY <1>5, IdleMay, IdleFields, OneWorker DEF FailWork, table, history
<1>6. CASE CrashApi
  BY <1>6, CrashApiKeepsLedger
<1>7. CASE PassDeadline \/ (\E S \in SUBSET Invoices : SubmitBatch(S)) \/ UNCHANGED vars
  <2>1. /\ worker' = worker /\ session' = session /\ row' = row /\ alerts' = alerts
        /\ overlapped' = overlapped /\ reopened' = reopened
    BY <1>7 DEF PassDeadline, SubmitBatch, vars, table, history
  <2> QED
    BY <2>1 DEF Ledger, Holders, Alerted, ScanAlertsOnce, RowShape, Scanning
<1>8. ASSUME NEW s \in Sessions, FailSession(s)
      PROVE  Ledger'
  BY <1>8, FailSessionKeepsLedger
<1> QED  BY <1>1, <1>2, <1>3, <1>4, <1>5, <1>6, <1>7, <1>8 DEF Next

LEMMA LedgerInit == Init => Ledger
<1> SUFFICES ASSUME Init PROVE Ledger
  OBVIOUS
<1>1. RowShape
  BY DEF Init, RowShape, NewRow, Columns
<1>2. Holders
  BY IdleMay DEF Init, Holders
<1>3. \A w \in Workers : \A i : ~Scanning(w, i)
  BY IdleFields DEF Init, Scanning
<1>4. Alerted /\ ScanAlertsOnce
  BY <1>3 DEF Init, Alerted, ScanAlertsOnce
<1> QED  BY <1>1, <1>2, <1>4 DEF Ledger

\* The hourly scan alerts an invoice a second time only if two scans held it
\* at once or a PATCH put it back to RECEIVED: through any crashes before
\* and after the commit, redeliveries, failures and limits.
THEOREM ScanAlertsAtMostOnce == Spec => []ScanAlertsOnce
<1>1. Ledger => ScanAlertsOnce
  BY DEF Ledger
<1> QED  BY <1>1, LedgerInit, LedgerNext, PTL DEF Spec

\* A suspicion raised by the scan or an analysis is taken back by the commit
\* of a batch match only, never by a PATCH or an analysis that read the row
\* before it was raised.
THEOREM SuspicionStaysRaised == Spec => SuspicionOnlyWithdrawnByMatch
<1>1. ASSUME Ledger, Next, NEW i \in Invoices,
             row[i].is_suspicious, ~row'[i].is_suspicious
      PROVE  \E w \in Workers : /\ worker[w].task = "match" /\ worker[w].stage = "read"
                                /\ worker'[w].stage # "read"
  <2>1. ASSUME NEW changes, Writes(changes), OnlySuspects(changes), Apply(changes)
        PROVE  FALSE
    <3>1. \/ row'[i]["is_suspicious"] = row[i]["is_suspicious"]
          \/ <<i, "is_suspicious", row'[i]["is_suspicious"]>> \in changes
      BY <2>1, Applied DEF Columns
    <3>2. CASE <<i, "is_suspicious", row'[i]["is_suspicious"]>> \in changes
      <4> DEFINE x == <<i, "is_suspicious", row'[i]["is_suspicious"]>>
      <4>1. x[2] = "is_suspicious" => x[3] = TRUE
        BY <2>1, <3>2 DEF OnlySuspects
      <4>2. row'[i]["is_suspicious"] = TRUE
        BY <4>1
      <4> QED  BY <1>1, <4>2
    <3> QED  BY <1>1, <3>1, <3>2
  <2>2. ASSUME NEW s \in Sessions, CommitSession(s)
        PROVE  FALSE
    BY <1>1, <2>1, <2>2 DEF CommitSession, Ledger, Holders, SessionMay
  <2>3. ASSUME NEW w \in Workers, Commit(w)
        PROVE  worker[w].task = "match" /\ worker[w].stage = "read"
    BY <1>1, <2>1, <2>3 DEF Commit, Ledger, Holders, WorkerMay
  <2>4. ASSUME NEW w \in Workers, CommitWork(w) \/ CommitAndCrash(w)
        PROVE  Commit(w) /\ worker'[w].stage # "read"
    BY <1>1, <2>4, IdleFields, DeliveredMay DEF CommitWork, CommitAndCrash, Ledger, Holders
  <2>5. row' # row
    BY <1>1
  <2>6. \E w \in Workers : CommitWork(w) \/ CommitAndCrash(w)
    BY <1>1, <2>2, <2>5
       DEF Next, Request, Serve, Work, SubmitInvoice, ReceiveWebhook, LoadPatch, ProcessWebhook,
           AnalyseInvoice, SubmitBatch, SelectUnmatched, MatchPeriod, CrashWorker, FailWork,
           PassDeadline, CrashApi, FailSession, table
  <2> QED  BY <2>3, <2>4, <2>6
<1>2. Ledger /\ [Next]_vars =>
        [\A i \in Invoices :
            row[i].is_suspicious /\ ~row'[i].is_suspicious =>
                \E w \in Workers : /\ worker[w].task = "match" /\ worker[w].stage = "read"
                                   /\ worker'[w].stage # "read"]_vars
  BY <1>1
<1> QED  BY <1>2, LedgerInit, LedgerNext, PTL
   DEF Spec, SuspicionOnlyWithdrawnByMatch

-----------------------------------------------------------------------------
(* The rows of a list.                                                     *)

\* A row is kept if it is in S.
KeepIn(S, acc, i) == IF i \in S THEN Append(acc, i) ELSE acc

\* Only is a run of KeepIn, row after row.
LEMMA OnlyRun ==
    ASSUME NEW q \in Seq(Invoices), NEW S
    PROVE  \E t : /\ t[0] = << >>
                  /\ \A k \in 1 .. Len(q) : t[k] = KeepIn(S, t[k - 1], q[k])
                  /\ Only(q, S) = t[Len(q)]
<1> DEFINE Iter(h) == h = [s \in SUBSET (DOMAIN q) |->
                             IF s = {} THEN << >>
                             ELSE KeepIn(S, h[s \ {Max(s)}], q[Max(s)])]
           h == CHOOSE g : Iter(g)
           t == [k \in 0 .. Len(q) |-> h[1 .. k]]
           F == [p \in Seq(Invoices) \X Invoices |-> KeepIn(S, p[1], p[2])]
<1>1. Only(q, S) = h[DOMAIN q]
  BY DEF Only, KeepIn, FoldLeft, MapThenFoldSet
<1>2. /\ F \in [Seq(Invoices) \X Invoices -> Seq(Invoices)] /\ << >> \in Seq(Invoices)
      /\ \A a \in Seq(Invoices), i \in Invoices : F[<<a, i>>] = KeepIn(S, a, i)
  BY DEF KeepIn
<1>3. \E g : Iter(g)
  <2> HIDE DEF F
  <2>1. PICK g \in [SUBSET (DOMAIN q) -> Seq(Invoices)] : IsFoldLeft(g, q, << >>, F)
    BY <1>2, FoldLeftExists
  <2>2. \A s \in SUBSET (DOMAIN q) : s # {} => q[Max(s)] \in Invoices /\ g[s \ {Max(s)}] \in Seq(Invoices)
    BY PartsOfSequence
  <2>3. \A s \in SUBSET (DOMAIN q) :
           g[s] = IF s = {} THEN << >> ELSE KeepIn(S, g[s \ {Max(s)}], q[Max(s)])
    BY <1>2, <2>1, <2>2 DEF IsFoldLeft
  <2>4. Iter(g)
    BY <2>3
  <2> QED  BY <2>4
<1>4. Iter(h)
  <2> HIDE DEF Iter
  <2> QED  BY <1>3
<1> HIDE DEF h
<1>5. \A s \in SUBSET (DOMAIN q) :
         h[s] = IF s = {} THEN << >> ELSE KeepIn(S, h[s \ {Max(s)}], q[Max(s)])
  BY <1>4
<1>6. h[{}] = << >> /\ \A k \in 1 .. Len(q) : h[1 .. k] = KeepIn(S, h[1 .. (k - 1)], q[k])
  <2>1. ASSUME NEW k \in 1 .. Len(q)
        PROVE  h[1 .. k] = KeepIn(S, h[1 .. (k - 1)], q[k])
    <3> DEFINE s == 1 .. k
    <3>1. s \in SUBSET (DOMAIN q) /\ s # {} /\ Max(s) = k /\ s \ {k} = 1 .. (k - 1)
      BY PartsOfSequence
    <3> HIDE DEF s
    <3>2. h[s] = KeepIn(S, h[1 .. (k - 1)], q[k])
      BY <1>5, <3>1
    <3> QED  BY <3>2 DEF s
  <2> QED  BY <1>5, <2>1
<1>7. t[0] = << >>
  BY <1>6, PartsOfSequence
<1>8. \A k \in 1 .. Len(q) : t[k] = KeepIn(S, t[k - 1], q[k])
  BY <1>6
<1>9. Only(q, S) = t[Len(q)]
  BY <1>1, PartsOfSequence
<1> QED  BY <1>7, <1>8, <1>9

\* The list u has those of the first k rows of q that are in S.
Kept(u, q, S, k) ==
    /\ u \in Seq(Invoices)
    /\ \A n \in DOMAIN u : u[n] \in S /\ \E m \in 1 .. k : u[n] = q[m]
    /\ \A m \in 1 .. k : q[m] \in S => \E n \in DOMAIN u : u[n] = q[m]

\* The first of T among the first k rows of q is x.
Leads(q, k, T, x) ==
    \E n \in 1 .. k : q[n] = x /\ x \in T /\ \A l \in 1 .. (n - 1) : q[l] \notin T

\* One more row.
LEMMA LeadsNext ==
    ASSUME NEW q, NEW k \in Nat, NEW T, NEW x
    PROVE  Leads(q, k + 1, T, x) <=>
              \/ Leads(q, k, T, x)
              \/ q[k + 1] = x /\ x \in T /\ \A l \in 1 .. k : q[l] \notin T
<1>1. 1 .. (k + 1) = (1 .. k) \cup {k + 1} /\ (k + 1) - 1 = k
  OBVIOUS
<1> QED  BY <1>1 DEF Leads

\* What is kept of the first k rows of q, in which order: the rows that are
\* in S, each once if it is there once, and of those in T the first one first.
KeptInOrder(u, q, S, T, k) ==
    /\ Kept(u, q, S, k)
    /\ \A x : Leads(u, Len(u), T, x) <=> Leads(q, k, S \cap T, x)
    /\ Distinct(q) => Distinct(u)

\* Only keeps the rows of S, in their order and all of them.
LEMMA OnlyKeeps ==
    ASSUME NEW q \in Seq(Invoices), NEW S, NEW T
    PROVE  KeptInOrder(Only(q, S), q, S, T, Len(q))
<1>1. PICK t : /\ t[0] = << >>
               /\ \A k \in 1 .. Len(q) : t[k] = KeepIn(S, t[k - 1], q[k])
               /\ Only(q, S) = t[Len(q)]
  BY OnlyRun
<1> DEFINE P(k) == KeptInOrder(t[k], q, S, T, k)
           B == {k \in Nat : k <= Len(q) => P(k)}
<1>2. 0 \in B
  <2>1. t[0] \in Seq(Invoices) /\ DOMAIN t[0] = {} /\ 1 .. 0 = {} /\ Len(t[0]) = 0
    BY <1>1
  <2> QED  BY <2>1 DEF KeptInOrder, Kept, Leads, Distinct
<1>3. ASSUME NEW k \in B  PROVE k + 1 \in B
  <2> SUFFICES ASSUME k + 1 <= Len(q)  PROVE P(k + 1)
    OBVIOUS
  <2> DEFINE c == k + 1
             u == t[k]
             i == q[c]
  <2>1. /\ P(k) /\ c \in 1 .. Len(q) /\ i \in Invoices /\ k \in Nat
        /\ 1 .. c = (1 .. k) \cup {c} /\ c \notin 1 .. k
        /\ \A m \in 1 .. k : m \in 1 .. Len(q)
    OBVIOUS
  <2>2. t[c] = KeepIn(S, u, i)
    BY <1>1, <2>1
  <2>6. /\ Kept(u, q, S, k)
        /\ \A x : Leads(u, Len(u), T, x) <=> Leads(q, k, S \cap T, x)
        /\ Distinct(q) => Distinct(u)
    BY <2>1 DEF KeptInOrder
  <2> HIDE DEF u
  <2>3. \A x : Leads(q, c, S \cap T, x) <=>
                 \/ Leads(q, k, S \cap T, x)
                 \/ i = x /\ x \in S \cap T /\ \A l \in 1 .. k : q[l] \notin S \cap T
    BY <2>1, LeadsNext
  <2>4. CASE i \notin S
    <3>1. t[c] = u
      BY <2>2, <2>4 DEF KeepIn
    <3>2. Kept(u, q, S, c)
      BY <2>1, <2>4, <2>6 DEF Kept
    <3>3. \A x : Leads(u, Len(u), T, x) <=> Leads(q, c, S \cap T, x)
      BY <2>3, <2>4, <2>6
    <3> QED  BY <2>6, <3>1, <3>2, <3>3 DEF KeptInOrder
  <2>5. CASE i \in S
    <3> DEFINE w == Append(u, i)
    <3>0. u \in Seq(Invoices) /\ Len(u) \in Nat
      BY <2>6 DEF Kept
    <3>1. t[c] = w
      BY <2>2, <2>5 DEF KeepIn
    <3>2. /\ w \in Seq(Invoices) /\ Len(w) = Len(u) + 1
          /\ DOMAIN u = 1 .. Len(u) /\ DOMAIN w = 1 .. Len(w)
          /\ DOMAIN w = DOMAIN u \cup {Len(u) + 1}
          /\ Len(u) + 1 \notin DOMAIN u
          /\ \A n \in DOMAIN u : w[n] = u[n]
          /\ w[Len(u) + 1] = i
      BY <2>1, <3>0
    <3> HIDE DEF w
    <3>3. Kept(w, q, S, c)
      <4>1. ASSUME NEW n \in DOMAIN w  PROVE w[n] \in S /\ \E m \in 1 .. c : w[n] = q[m]
        BY <2>1, <2>5, <2>6, <3>2 DEF Kept
      <4>2. ASSUME NEW m \in 1 .. c, q[m] \in S  PROVE \E n \in DOMAIN w : w[n] = q[m]
        <5>1. CASE m = c
          BY <3>2, <5>1
        <5>2. CASE m \in 1 .. k
          <6>1. PICK n \in DOMAIN u : u[n] = q[m]
            BY <2>6, <4>2, <5>2 DEF Kept
          <6> QED  BY <3>2, <6>1
        <5> QED  BY <2>1, <5>1, <5>2
      <4> QED  BY <3>2, <4>1, <4>2 DEF Kept
    <3>4. ASSUME NEW x
          PROVE  Leads(w, Len(w), T, x) <=> Leads(q, c, S \cap T, x)
      <4>1. Leads(w, Len(w), T, x) <=>
               \/ Leads(w, Len(u), T, x)
               \/ i = x /\ x \in T /\ \A l \in 1 .. Len(u) : w[l] \notin T
        <5>1. Leads(w, Len(u) + 1, T, x) <=>
                 \/ Leads(w, Len(u), T, x)
                 \/ w[Len(u) + 1] = x /\ x \in T /\ \A l \in 1 .. Len(u) : w[l] \notin T
          BY <3>0, LeadsNext
        <5> QED  BY <3>2, <5>1
      <4>2. Leads(w, Len(u), T, x) <=> Leads(u, Len(u), T, x)
        <5>1. \A n \in 1 .. Len(u) : w[n] = u[n]
          BY <3>2
        <5>2. \A n \in 1 .. Len(u) : \A l \in 1 .. (n - 1) : l \in 1 .. Len(u)
          BY <3>0
        <5> QED  BY <5>1, <5>2 DEF Leads
      <4>3. (\A l \in 1 .. Len(u) : w[l] \notin T) <=> (\A l \in 1 .. k : q[l] \notin S \cap T)
        <5>1. \A l \in 1 .. Len(u) : w[l] = u[l] /\ u[l] \in S /\ \E m \in 1 .. k : u[l] = q[m]
          BY <2>6, <3>2 DEF Kept
        <5>2. \A m \in 1 .. k : q[m] \in S => \E l \in 1 .. Len(u) : w[l] = q[m]
          BY <2>6, <3>2 DEF Kept
        <5> QED  BY <5>1, <5>2
      <4>4. Leads(u, Len(u), T, x) <=> Leads(q, k, S \cap T, x)
        BY <2>6
      <4> QED  BY <2>3, <2>5, <4>1, <4>2, <4>3, <4>4
    <3>5. ASSUME Distinct(q)  PROVE Distinct(w)
      <4>1. Distinct(u)
        BY <2>6, <3>5
      <4>2. \A n \in DOMAIN u : u[n] # i
        <5>1. ASSUME NEW n \in DOMAIN u  PROVE u[n] # i
          <6>1. PICK m \in 1 .. k : u[n] = q[m]
            BY <2>6 DEF Kept
          <6> QED  BY <2>1, <3>5, <6>1 DEF Distinct
        <5> QED  BY <5>1
      <4>3. ASSUME NEW l \in 1 .. Len(w), NEW m \in 1 .. Len(w), w[l] = w[m]
            PROVE  l = m
        <5>1. (l \in DOMAIN u \/ l = Len(u) + 1) /\ (m \in DOMAIN u \/ m = Len(u) + 1)
          BY <3>2
        <5> QED  BY <3>2, <4>1, <4>2, <4>3, <5>1 DEF Distinct
      <4> QED  BY <4>3 DEF Distinct
    <3> QED  BY <3>1, <3>3, <3>4, <3>5 DEF KeptInOrder
  <2> QED  BY <2>4, <2>5
<1>4. B = Nat
  <2>1. B \in SUBSET Nat
    OBVIOUS
  <2> HIDE DEF B
  <2> QED  BY <1>2, <1>3, <2>1, Inductive
<1>5. P(Len(q))
  BY <1>4
<1> QED  BY <1>1, <1>5

-----------------------------------------------------------------------------
(* The matching of the endpoint.                                           *)

\* The matching of InvoiceLedger is the one that is proved about.
LEMMA SameMatching ==
    ASSUME NEW s, NEW b
    PROVE  Matcher!MatchPeriod(s, b) = Matching!MatchPeriod(s, b)
<1>1. \A i : Matcher!Key(i) = Matching!Key(i)
  BY DEF Matcher!Key, Matching!Key
<1>2. \A x, k : Matcher!HasKey(x, k) = Matching!HasKey(x, k)
                /\ Matcher!At(x, k) = Matching!At(x, k)
  BY DEF Matcher!Key, Matching!Key, Matcher!HasKey, Matching!HasKey, Matcher!At, Matching!At
<1>3. \A q : Matcher!SellerPass(q) = Matching!SellerPass(q)
  BY DEF Matcher!Key, Matching!Key, Matcher!SellerPass, Matching!SellerPass,
         Matcher!IndexSeller, Matching!IndexSeller, Matcher!HasKey, Matching!HasKey,
         Matcher!At, Matching!At, Matcher!Max, Matching!Max, Matcher!FoldLeft,
         Matching!FoldLeft, Matcher!MapThenFoldSet, Matching!MapThenFoldSet
<1>4. Matcher!BuyerPass(s, b) = Matching!BuyerPass(s, b)
  BY <1>3
     DEF Matcher!Key, Matching!Key, Matcher!BuyerPass, Matching!BuyerPass,
         Matcher!IndexBuyer, Matching!IndexBuyer, Matcher!HasKey, Matching!HasKey,
         Matcher!Max, Matching!Max, Matcher!FoldLeft,
         Matching!FoldLeft, Matcher!MapThenFoldSet, Matching!MapThenFoldSet
<1>5. \A x, y : Matcher!Unprocessed(x, y) = Matching!Unprocessed(x, y)
  BY DEF Matcher!Key, Matching!Key, Matcher!HasKey, Matching!HasKey,
         Matcher!Unprocessed, Matching!Unprocessed,
         Matcher!Max, Matching!Max, Matcher!FoldLeft,
         Matching!FoldLeft, Matcher!MapThenFoldSet, Matching!MapThenFoldSet
<1>6. \A st, v, a, w : Matcher!Risk(st, v, a, w) = Matching!Risk(st, v, a, w)
  BY DEF Matcher!Risk, Matching!Risk, Matcher!Base, Matching!Base, Matcher!Min, Matching!Min,
         Matcher!ValueAddon, Matching!ValueAddon, Matcher!GapAddon, Matching!GapAddon
<1>7. \A i, st : Matcher!CompareAlone(i, st) = Matching!CompareAlone(i, st)
  BY <1>1, <1>6 DEF Matcher!CompareAlone, Matching!CompareAlone
<1>8. \A x, y : Matcher!Apart(x, y) = Matching!Apart(x, y)
                /\ Matcher!AtLeastOne(x) = Matching!AtLeastOne(x)
  BY DEF Matcher!Apart, Matching!Apart, Matcher!AtLeastOne, Matching!AtLeastOne,
         Matcher!Max, Matching!Max
<1>9. \A x, y, dup : Matcher!StatusOfPair(x, y, dup) = Matching!StatusOfPair(x, y, dup)
  BY <1>8 DEF Matcher!StatusOfPair, Matching!StatusOfPair, Matcher!Differs, Matching!Differs
<1>10. \A x, y, dup : Matcher!ComparePair(x, y, dup) = Matching!ComparePair(x, y, dup)
  <2>1. \A x, y : Matcher!Max({x, y}) = Matching!Max({x, y})
    BY DEF Matcher!Max, Matching!Max
  <2> QED  BY <1>1, <1>6, <1>8, <1>9, <2>1 DEF Matcher!ComparePair, Matching!ComparePair
<1> QED
  BY <1>1, <1>2, <1>3, <1>4, <1>5, <1>7, <1>10 DEF Matcher!MatchPeriod, Matching!MatchPeriod

\* The sequences of a finite set have each of its elements once.
LEMMA SeqsOf ==
    ASSUME NEW P \in SUBSET Invoices, NEW q \in SetToSeqs(P)
    PROVE  q \in Seq(Invoices) /\ Distinct(q) /\ \A i : i \in P <=> \E n \in 1 .. Len(q) : q[n] = i
<1> DEFINE c == Cardinality(P)
<1>1. IsFiniteSet(P) /\ c \in Nat
  BY ContentAssumption, FS_Subset, FS_CardinalityType
<1> HIDE DEF c
<1>2. q \in [1 .. c -> P] /\ \A i, j \in 1 .. c : i # j => q[i] # q[j]
  BY DEF SetToSeqs, c
<1>3. Len(q) = c /\ q \in Seq(Invoices)
  BY <1>1, <1>2
<1>4. IsFiniteSet(1 .. c) /\ Cardinality(1 .. c) = c
  BY <1>1, FS_Interval
<1>5. q \in Injection(1 .. c, P)
  BY <1>2 DEF Injection, IsInjective
<1>6. q \in Surjection(1 .. c, P)
  BY <1>1, <1>4, <1>5, FS_Injection DEF c
<1> QED  BY <1>2, <1>3, <1>6 DEF Distinct, Surjection

\* The first object of a list that has a key, in both vocabularies.
LEMMA FirstOfKey ==
    ASSUME sent \in Contents, NEW q \in Seq(Invoices), NEW S, NEW k, NEW K,
           K = {j \in Invoices : sent[j].key = k}, Matching!Of(Only(q, S), k) # {}
    PROVE  Leads(q, Len(q), S \cap K, Matching!First(Only(q, S), k))
<1> DEFINE u == Only(q, S)
<1>1. KeptInOrder(u, q, S, K, Len(q))
  BY OnlyKeeps
<1>2. /\ u \in Seq(Invoices)
      /\ Leads(u, Len(u), K, Matching!First(u, k)) => Leads(q, Len(q), S \cap K, Matching!First(u, k))
  BY <1>1 DEF KeptInOrder, Kept
<1> HIDE DEF u
<1>3. PICK n \in 1 .. Len(u) : /\ Matching!First(u, k) = u[n] /\ Matching!Key(u[n]) = k
                               /\ \A l \in 1 .. (n - 1) : Matching!Key(u[l]) # k
  BY <1>1, ContentAssumption, Matching!FirstLeads DEF u, KeptInOrder, Kept, Matching!AmountAssumption
<1>4. u[n] \in K /\ \A l \in 1 .. (n - 1) : u[l] \notin K
  BY <1>2, <1>3 DEF Matching!Key
<1>5. Leads(u, Len(u), K, Matching!First(u, k))
  BY <1>3, <1>4 DEF Leads
<1> QED  BY <1>2, <1>5 DEF u

\* There is one first.
LEMMA OneLeads ==
    ASSUME NEW q, NEW k \in Nat, NEW T, NEW x, NEW y, Leads(q, k, T, x), Leads(q, k, T, y)
    PROVE  x = y
<1>1. PICK n \in 1 .. k : q[n] = x /\ x \in T /\ \A l \in 1 .. (n - 1) : q[l] \notin T
  BY DEF Leads
<1>2. PICK m \in 1 .. k : q[m] = y /\ y \in T /\ \A l \in 1 .. (m - 1) : q[l] \notin T
  BY DEF Leads
<1> QED  BY <1>1, <1>2

\* What leads a list depends on which of its rows are meant.
LEMMA SameLeads ==
    ASSUME NEW q, NEW k \in Nat, NEW T, NEW U, NEW x,
           \A n \in 1 .. k : q[n] \in T <=> q[n] \in U,
           Leads(q, k, T, x)
    PROVE  Leads(q, k, U, x)
<1>1. PICK n \in 1 .. k : q[n] = x /\ x \in T /\ \A l \in 1 .. (n - 1) : q[l] \notin T
  BY DEF Leads
<1> QED  BY <1>1 DEF Leads

\* Only begins with the first row of S.
LEMMA OnlyBegins ==
    ASSUME NEW q \in Seq(Invoices), NEW S, NEW n \in 1 .. Len(q), q[n] \in S
    PROVE  Leads(q, Len(q), S, Only(q, S)[1])
<1> DEFINE u == Only(q, S)
<1>1. KeptInOrder(u, q, S, S, Len(q))
  BY OnlyKeeps
<1> HIDE DEF u
<1>2. u \in Seq(Invoices) /\ (\A m \in DOMAIN u : u[m] \in S) /\ \E m \in DOMAIN u : u[m] = q[n]
  BY <1>1 DEF KeptInOrder, Kept
<1>3. 1 \in 1 .. Len(u) /\ u[1] \in S
  BY <1>2
<1>4. Leads(u, Len(u), S, u[1])
  BY <1>3 DEF Leads
<1>5. Leads(q, Len(q), S \cap S, u[1])
  BY <1>1, <1>4 DEF KeptInOrder
<1>6. S \cap S = S
  OBVIOUS
<1> QED  BY <1>5, <1>6 DEF u

\* The first row of a key that a party is in, if all rows of the key are of
\* that party: the first row of the key.
LEMMA PartyFirst ==
    ASSUME sent \in Contents, stored \subseteq Invoices,
           NEW P \in SUBSET stored, NEW q \in SetToSeqs(P), NEW i \in P, NEW S,
           NEW same, same = {j \in stored : sent[j].key = sent[i].key}, same \subseteq S
    PROVE  /\ Only(q, S) \in Seq(Invoices) /\ Matching!Distinct(Only(q, S))
           /\ Matching!Of(Only(q, S), sent[i].key) # {}
           /\ Matching!First(Only(q, S), sent[i].key) = Only(q, same)[1]
           /\ Only(q, same)[1] \in same
<1> DEFINE k == sent[i].key
           K == {j \in Invoices : sent[j].key = k}
           u == Only(q, S)
<1>1. q \in Seq(Invoices) /\ Distinct(q) /\ \A j : j \in P <=> \E n \in 1 .. Len(q) : q[n] = j
  BY SeqsOf
<1>2. KeptInOrder(u, q, S, K, Len(q))
  BY <1>1, OnlyKeeps
<1> HIDE DEF u
<1>3. u \in Seq(Invoices) /\ Matching!Distinct(u)
  BY <1>1, <1>2 DEF KeptInOrder, Kept, Distinct, Matching!Distinct
<1>4. PICK n \in 1 .. Len(q) : q[n] = i
  BY <1>1
<1>5. i \in same /\ i \in S
  OBVIOUS
<1>6. Matching!Of(u, k) # {}
  <2>1. PICK m \in DOMAIN u : u[m] = i
    BY <1>2, <1>4, <1>5 DEF KeptInOrder, Kept
  <2> QED  BY <1>3, <2>1 DEF Matching!Of, Matching!Key, Matching!Range
<1>7. Leads(q, Len(q), S \cap K, Matching!First(u, k))
  BY <1>1, <1>6, FirstOfKey DEF u
<1>8. \A m \in 1 .. Len(q) : q[m] \in S \cap K <=> q[m] \in same
  BY <1>1
<1>9. Leads(q, Len(q), same, Matching!First(u, k))
  <2> DEFINE T == S \cap K
  <2> HIDE DEF K
  <2>1. Len(q) \in Nat
    BY <1>1
  <2> HIDE DEF k
  <2> QED  BY <1>7, <1>8, <2>1, SameLeads
<1>10. Leads(q, Len(q), same, Only(q, same)[1])
  BY <1>1, <1>4, <1>5, OnlyBegins
<1>11. Matching!First(u, k) = Only(q, same)[1]
  BY <1>1, <1>9, <1>10, OneLeads
<1>12. Only(q, same)[1] \in same
  BY <1>10 DEF Leads
<1> QED  BY <1>3, <1>6, <1>11, <1>12 DEF u

\* A row between two parties whose key no other row has matches itself,
\* whatever the parties have declared.
LEMMA RowsMatchThemselves ==
    ASSUME sent \in Contents, stored \subseteq Invoices
    PROVE  PairMatchesItself
<1>1. ASSUME NEW before \in {stored} \cup {stored \ {i} : i \in stored},
             NEW sold \in SetToSeqs(before), NEW bought \in SetToSeqs(stored),
             NEW i \in {j \in before : Parties(j) = {sent[j].seller, sent[j].buyer}}
      PROVE  LET results == Matcher!MatchPeriod(OfSeller(sold, sent[i].seller),
                                                OfBuyer(bought, sent[i].buyer))
             IN (\A j \in stored : sent[j].key = sent[i].key => j = i) =>
                   \A n \in DOMAIN results :
                      results[n].key = sent[i].key => results[n].status = "matched"
  <2> SUFFICES ASSUME NEW results,
                      results = Matcher!MatchPeriod(OfSeller(sold, sent[i].seller),
                                                    OfBuyer(bought, sent[i].buyer)),
                      \A j \in stored : sent[j].key = sent[i].key => j = i,
                      NEW n \in DOMAIN results, results[n].key = sent[i].key
               PROVE  results[n].status = "matched"
    OBVIOUS
  <2> DEFINE S == {j \in Invoices : sent[j].seller = sent[i].seller}
             B == {j \in Invoices : sent[j].buyer = sent[i].buyer}
             s == Only(sold, S)
             b == Only(bought, B)
             k == sent[i].key
  <2>1. before \in SUBSET stored /\ stored \in SUBSET stored /\ i \in before /\ i \in stored
    OBVIOUS
  <2>2. PICK same : same = {j \in stored : sent[j].key = sent[i].key}
    OBVIOUS
  <2>3. same = {i}
    BY <2>1, <2>2
  <2>4. same \subseteq S /\ same \subseteq B
    BY <2>1, <2>3
  <2> HIDE DEF S, B
  <2>5. /\ s \in Seq(Invoices) /\ Matching!Distinct(s) /\ Matching!Of(s, k) # {}
        /\ Matching!First(s, k) = Only(sold, same)[1] /\ Only(sold, same)[1] \in same
    BY <2>1, <2>2, <2>4, PartyFirst
  <2>6. /\ b \in Seq(Invoices) /\ Matching!Distinct(b) /\ Matching!Of(b, k) # {}
        /\ Matching!First(b, k) = Only(bought, same)[1] /\ Only(bought, same)[1] \in same
    BY <2>1, <2>2, <2>4, PartyFirst
  <2>7. results = Matching!MatchPeriod(s, b)
    BY SameMatching DEF OfSeller, OfBuyer, S, B
  <2>8. \A j \in Invoices : sent[j].vat \in Nat
    BY ContentAssumption
  <2> HIDE DEF s, b, k
  <2>9. results[n].key = k
    BY DEF k
  <2>10. Matching!First(s, k) = Matching!First(b, k)
    BY <2>3, <2>5, <2>6
  <2> QED
    BY <2>5, <2>6, <2>7, <2>8, <2>9, <2>10, ContentAssumption, Matching!MatchesItself
       DEF Matching!AmountAssumption
<1> QED  BY <1>1 DEF PairMatchesItself

-----------------------------------------------------------------------------
(* Types.                                                                  *)

\* What a column may hold.
Value(c) == IF c = "status" THEN Statuses ELSE BOOLEAN

\* A row is a value for each column.
LEMMA RowIs ==
    ASSUME NEW f
    PROVE  f \in Row <=> f = [c \in Columns |-> f[c]] /\ \A c \in Columns : f[c] \in Value(c)
<1>1. ASSUME f \in Row
      PROVE  f = [c \in Columns |-> f[c]] /\ \A c \in Columns : f[c] \in Value(c)
  BY <1>1 DEF Row, Columns, Value
<1>2. ASSUME f = [c \in Columns |-> f[c]], \A c \in Columns : f[c] \in Value(c)
      PROVE  f \in Row
  <2> DEFINE r == [status |-> f["status"], declared_by_seller |-> f["declared_by_seller"],
                   declared_by_buyer |-> f["declared_by_buyer"],
                   is_suspicious |-> f["is_suspicious"]]
  <2>1. r \in Row
    BY <1>2 DEF Row, Columns, Value
  <2>2. DOMAIN f = Columns
    BY <1>2
  <2>3. f = r
    BY <1>2 DEF Columns
  <2> QED  BY <2>1, <2>3
<1> QED  BY <1>1, <1>2

\* Changes of rows of S.
TypedIn(changes, S) ==
    \A x \in changes : /\ x = <<x[1], x[2], x[3]>> /\ x[1] \in S
                       /\ x[2] \in Columns /\ x[3] \in Value(x[2])

TypedSession(r, S) ==
    /\ TypedIn(r.changes, S) /\ r.raises = {}
    /\ r.task = "analysis" => r.invoice \in S
TypedWorker(r, S) == TypedIn(r.changes, S) /\ (r.stage # "read" => r.changes = {})

\* The rows are typed, and so is all that may still be written.
Table ==
    /\ stored \subseteq Invoices /\ row \in [Invoices -> Row]
    /\ \A i \in Invoices \ stored : row[i] = NewRow
    /\ overlapped \subseteq stored /\ reopened \subseteq stored
    /\ \A s \in Sessions : TypedSession(session[s], stored)
    /\ \A w \in Workers : TypedWorker(worker[w], stored)

\* The other variables.
Others ==
    /\ sent \in Contents /\ overdue \subseteq Invoices
    /\ answered \subseteq Invoices /\ lost \subseteq accepted /\ accepted \subseteq Invoices

\* A new value of a row of S.
LEMMA ChangesTyped ==
    ASSUME NEW S, NEW i \in S, NEW old, NEW new,
           \A c \in Columns : new[c] # old[c] => new[c] \in Value(c)
    PROVE  TypedIn(Changes(i, old, new), S)
<1>1. ASSUME NEW x \in Changes(i, old, new)
      PROVE  x = <<x[1], x[2], x[3]>> /\ x[1] \in S /\ x[2] \in Columns /\ x[3] \in Value(x[2])
  <2>1. /\ x = <<x[1], x[2], x[3]>> /\ x[1] = i /\ x[2] \in Columns
        /\ x[3] = new[x[2]] /\ new[x[2]] # old[x[2]]
    BY ChangeOf
  <2>2. new[x[2]] \in Value(x[2])
    BY <2>1
  <2> QED  BY <2>1, <2>2
<1> QED  BY <1>1 DEF TypedIn

\* Nothing, and what was typed before rows were added.
LEMMA TypedFacts ==
    ASSUME NEW S
    PROVE  /\ TypedIn({}, S) /\ TypedSession(Idle, S) /\ TypedWorker(Idle, S)
           /\ \A r, T : S \subseteq T /\ TypedSession(r, S) => TypedSession(r, T)
           /\ \A r, T : S \subseteq T /\ TypedWorker(r, S) => TypedWorker(r, T)
<1>1. TypedIn({}, S)
  BY DEF TypedIn
<1>2. \A c, T : S \subseteq T /\ TypedIn(c, S) => TypedIn(c, T)
  BY DEF TypedIn
<1> QED  BY <1>1, <1>2, IdleFields DEF TypedSession, TypedWorker

\* A commit of typed changes.
LEMMA ApplyTyped ==
    ASSUME Table, NEW changes, TypedIn(changes, stored), Apply(changes)
    PROVE  row' \in [Invoices -> Row] /\ \A i \in Invoices \ stored : row'[i] = NewRow
<1>1. \A i \in Invoices, c \in Columns : Written(i, c, changes) \in Value(c)
  <2>1. ASSUME NEW i \in Invoices, NEW c \in Columns
        PROVE  Written(i, c, changes) \in Value(c)
    <3>1. CASE \E x \in changes : x[1] = i /\ x[2] = c
      <4> DEFINE y == CHOOSE x \in changes : x[1] = i /\ x[2] = c
      <4>1. y \in changes /\ y[1] = i /\ y[2] = c
        BY <3>1
      <4> HIDE DEF y
      <4>2. y[3] \in Value(c)
        BY <4>1 DEF TypedIn
      <4> QED  BY <3>1, <4>2 DEF Written, y
    <3>2. CASE ~\E x \in changes : x[1] = i /\ x[2] = c
      <4>1. row[i] \in Row
        BY DEF Table
      <4>2. row[i][c] \in Value(c)
        BY <4>1, RowIs
      <4> QED  BY <3>2, <4>2 DEF Written
    <3> QED  BY <3>1, <3>2
  <2> QED  BY <2>1
<1>2. row' = [i \in Invoices |-> [c \in Columns |-> Written(i, c, changes)]]
  BY DEF Apply
<1>3. ASSUME NEW i \in Invoices  PROVE row'[i] \in Row
  <2>1. row'[i] = [c \in Columns |-> Written(i, c, changes)]
    BY <1>2
  <2>2. row'[i] = [c \in Columns |-> row'[i][c]] /\ \A c \in Columns : row'[i][c] \in Value(c)
    BY <1>1, <2>1
  <2> QED  BY <2>2, RowIs
<1>4. ASSUME NEW i \in Invoices \ stored  PROVE row'[i] = NewRow
  <2>1. \A c \in Columns : Written(i, c, changes) = row[i][c]
    BY DEF Written, TypedIn
  <2>2. row[i] \in Row /\ row[i] = NewRow
    BY DEF Table
  <2>3. row[i] = [c \in Columns |-> row[i][c]]
    BY <2>2, RowIs
  <2>4. row'[i] = [c \in Columns |-> Written(i, c, changes)]
    BY <1>2
  <2> QED  BY <2>1, <2>2, <2>3, <2>4
<1> QED  BY <1>2, <1>3, <1>4

\* Rows are added as they are new, and sessions and workers go on typed.
LEMMA TableStep ==
    ASSUME Table, stored \subseteq stored', stored' \subseteq Invoices,
           row' = row, overlapped' \subseteq stored', reopened' = reopened,
           \A s \in Sessions : session'[s] = session[s] \/ TypedSession(session'[s], stored'),
           \A w \in Workers : worker'[w] = worker[w] \/ TypedWorker(worker'[w], stored')
    PROVE  Table'
<1>1. \A s \in Sessions : TypedSession(session'[s], stored')
  BY TypedFacts DEF Table
<1>2. \A w \in Workers : TypedWorker(worker'[w], stored')
  BY TypedFacts DEF Table
<1> QED  BY <1>1, <1>2 DEF Table

\* One session, or one worker, goes on.
LEMMA TableSession ==
    ASSUME Table, Ledger, NEW s \in Sessions, NEW r, session' = [session EXCEPT ![s] = r],
           TypedSession(r, stored'), stored \subseteq stored', stored' \subseteq Invoices,
           row' = row, overlapped' = overlapped, reopened' = reopened, worker' = worker
    PROVE  Table'
<1>1. \A q \in Sessions : session'[q] = session[q] \/ TypedSession(session'[q], stored')
  BY DEF Ledger, Holders
<1>2. overlapped' \subseteq stored'
  BY DEF Table
<1> QED  BY <1>1, <1>2, TableStep

\* ... or one worker.
LEMMA TableWorker ==
    ASSUME Table, Ledger, NEW w \in Workers, NEW r, worker' = [worker EXCEPT ![w] = r],
           TypedWorker(r, stored), stored' = stored, row' = row, overlapped' \subseteq stored,
           reopened' = reopened, session' = session
    PROVE  Table'
<1>1. \A q \in Workers : worker'[q] = worker[q] \/ TypedWorker(worker'[q], stored')
  BY DEF Ledger, Holders
<1>2. stored' \subseteq Invoices
  BY DEF Table
<1> QED  BY <1>1, <1>2, TableStep

\* Submissions.
LEMMA SubmitKeepsTable ==
    ASSUME Table, Ledger, NEW s \in Sessions, NEW i \in Invoices,
           SubmitInvoice(s, i) \/ ReceiveWebhook(s, i)
    PROVE  Table'
<1>1. CASE SubmitInvoice(s, i)
  <2> DEFINE r == [Idle EXCEPT !.task = "analysis", !.stage = "queued", !.invoice = i]
  <2>1. session' = [session EXCEPT ![s] = r] /\ stored' = stored \cup {i}
        /\ row' = row /\ overlapped' = overlapped /\ reopened' = reopened /\ worker' = worker
    BY <1>1 DEF SubmitInvoice, Insert, history
  <2>2. r.changes = {} /\ r.raises = {} /\ r.invoice = i
    BY DEF Idle
  <2> HIDE DEF r
  <2>3. TypedSession(r, stored')
    BY <2>1, <2>2, TypedFacts DEF TypedSession
  <2>4. stored' \subseteq Invoices
    BY <2>1 DEF Table
  <2> QED  BY <2>1, <2>3, <2>4, TableSession
<1>2. CASE ReceiveWebhook(s, i)
  <2> DEFINE r == [Idle EXCEPT !.task = "webhook", !.stage = "queued", !.invoice = i]
  <2>1. session' = [session EXCEPT ![s] = r] /\ stored' = stored
        /\ row' = row /\ overlapped' = overlapped /\ reopened' = reopened /\ worker' = worker
    BY <1>2 DEF ReceiveWebhook, table, history
  <2>2. r.changes = {} /\ r.raises = {} /\ r.task = "webhook"
    BY DEF Idle
  <2> HIDE DEF r
  <2>3. TypedSession(r, stored')
    BY <2>1, <2>2, TypedFacts DEF TypedSession
  <2>4. stored' \subseteq Invoices
    BY <2>1 DEF Table
  <2> QED  BY <2>1, <2>3, <2>4, TableSession
<1> QED  BY <1>1, <1>2

\* A batch adds rows that are new, or none.
LEMMA BatchKeepsTable ==
    ASSUME Table, NEW S \in SUBSET Invoices, SubmitBatch(S)
    PROVE  Table'
<1>1. stored \subseteq stored' /\ stored' \subseteq Invoices
  BY DEF SubmitBatch, AllOrNothing, Insert, Table
<1>2. row' = row /\ overlapped' = overlapped /\ reopened' = reopened
      /\ session' = session /\ worker' = worker
  BY DEF SubmitBatch, history
<1>3. overlapped' \subseteq stored'
  BY <1>1, <1>2 DEF Table
<1> QED  BY <1>1, <1>2, <1>3, TableStep

\* A webhook's insert adds the invoice that was accepted.
LEMMA ProcessKeepsTable ==
    ASSUME Table, Ledger, Intake, Others, NEW s \in Sessions, ProcessWebhook(s)
    PROVE  Table'
<1>1. session[s].invoice \in Invoices
  BY DEF Intake, WaitingAlone, Webhooks, ProcessWebhook, Others
<1>2. stored \subseteq stored' /\ stored' \subseteq Invoices
  BY <1>1 DEF ProcessWebhook, Insert, Table
<1>3. session' = [session EXCEPT ![s] = Idle] /\ row' = row /\ overlapped' = overlapped
      /\ reopened' = reopened /\ worker' = worker
  BY DEF ProcessWebhook, history
<1> QED  BY <1>2, <1>3, TypedFacts, TableSession

\* What a PATCH or an analysis is going to write.
LEMMA LoadKeepsTable ==
    ASSUME Table, Ledger, NEW s \in Sessions, NEW i \in Invoices, NEW edit \in Edits,
           LoadPatch(s, i, edit)
    PROVE  Table'
<1> DEFINE changes == Changes(i, row[i], Edited(row[i], edit))
           r == [Idle EXCEPT !.task = "patch", !.stage = "read", !.invoice = i,
                             !.changes = changes]
<1>1. session' = [session EXCEPT ![s] = r] /\ stored' = stored /\ i \in stored
      /\ row' = row /\ overlapped' = overlapped /\ reopened' = reopened /\ worker' = worker
  BY DEF LoadPatch, table, history
<1>2. \A c \in Columns : Edited(row[i], edit)[c] # row[i][c] => Edited(row[i], edit)[c] \in Value(c)
  BY EditAssumption DEF Edited, Value
<1>3. TypedIn(changes, stored)
  BY <1>1, <1>2, ChangesTyped
<1> HIDE DEF changes
<1>4. r.changes = changes /\ r.raises = {} /\ r.task = "patch"
  BY DEF Idle
<1> HIDE DEF r
<1>5. TypedSession(r, stored') /\ stored' \subseteq Invoices
  BY <1>1, <1>3, <1>4 DEF TypedSession, Table
<1> QED  BY <1>1, <1>5, TableSession

\* An analysis marks a row that is stored: its submission was committed.
LEMMA AnalysisKeepsTable ==
    ASSUME Table, Ledger, NEW s \in Sessions, NEW alerting \in BOOLEAN, AnalyseInvoice(s, alerting)
    PROVE  Table'
<1> DEFINE i == session[s].invoice
           new == [row[i] EXCEPT !.is_suspicious = @ \/ alerting]
           changes == Changes(i, row[i], new)
           r == [session[s] EXCEPT !.stage = "read", !.changes = changes]
<1>1. /\ stored' = stored /\ row' = row /\ overlapped' = overlapped /\ reopened' = reopened
      /\ worker' = worker /\ session[s].task = "analysis"
  BY DEF AnalyseInvoice, table, history
<1>2. session' = [session EXCEPT ![s] = r]
  BY DEF AnalyseInvoice, Ledger, Holders
<1>3. TypedSession(session[s], stored)
  BY DEF Table
<1>4. i \in stored /\ session[s].raises = {}
  BY <1>1, <1>3 DEF TypedSession
<1>5. row[i] \in Row
  BY <1>4 DEF Table
<1>6. \A c \in Columns : new[c] # row[i][c] => new[c] \in Value(c)
  <2> HIDE DEF i
  <2>1. DOMAIN row[i] = Columns
    BY <1>5 DEF Row, Columns
  <2>2. \A c \in Columns : c # "is_suspicious" => new[c] = row[i][c]
    BY <2>1
  <2>3. new["is_suspicious"] \in BOOLEAN
    BY <1>5, <2>1 DEF Row, Columns
  <2> HIDE DEF new
  <2> QED  BY <2>2, <2>3 DEF Value
<1> HIDE DEF i
<1>7. TypedIn(changes, stored)
  <2> HIDE DEF new
  <2> QED  BY <1>4, <1>6, ChangesTyped
<1> HIDE DEF changes
<1>8. r.changes = changes /\ r.raises = {} /\ r.invoice = i
  BY <1>4 DEF Ledger, Holders, SessionMay, Fields, i
<1> HIDE DEF r
<1>9. TypedSession(r, stored') /\ stored' \subseteq Invoices
  BY <1>1, <1>4, <1>7, <1>8 DEF TypedSession, Table
<1> QED  BY <1>1, <1>2, <1>9, TableSession

\* The scan's marks, and the batch match's.
LEMMA ScanKeepsTable ==
    ASSUME Table, Ledger, NEW w \in Workers, NEW S \in SUBSET Invoices, SelectUnmatched(w, S)
    PROVE  Table'
<1> DEFINE changes == UNION {Changes(i, row[i], Flagged(row[i])) : i \in S}
           r == [worker[w] EXCEPT !.task = "scan", !.stage = "read", !.raises = S,
                                  !.changes = changes]
<1>1. /\ stored' = stored /\ row' = row /\ reopened' = reopened /\ session' = session
      /\ S \subseteq stored /\ overlapped' \subseteq overlapped \cup S
  BY DEF SelectUnmatched, Unmatched, ClaimedOnly, table
<1>2. worker' = [worker EXCEPT ![w] = r]
  BY DEF SelectUnmatched, Ledger, Holders
<1>3. ASSUME NEW i \in S  PROVE TypedIn(Changes(i, row[i], Flagged(row[i])), stored)
  <2>1. row[i] \in Row /\ i \in stored
    BY <1>1 DEF Table
  <2>2. \A c \in Columns : Flagged(row[i])[c] \in Value(c)
    BY <2>1 DEF Flagged, Row, Columns, Value, Statuses
  <2> QED  BY <2>1, <2>2, ChangesTyped
<1>4. TypedIn(changes, stored)
  BY <1>3 DEF TypedIn
<1> HIDE DEF changes
<1>5. r.changes = changes /\ r.stage = "read"
  BY DEF Ledger, Holders, WorkerMay, Fields
<1> HIDE DEF r
<1>6. TypedWorker(r, stored)
  BY <1>4, <1>5 DEF TypedWorker
<1>7. overlapped' \subseteq stored
  BY <1>1 DEF Table
<1> QED  BY <1>1, <1>2, <1>6, <1>7, TableWorker

\* The invoice that a batch match blames is one of the rows that it read.
LEMMA BlamedTyped ==
    ASSUME NEW list \in Seq(Invoices), \A n \in 1 .. Len(list) : list[n] \in stored
    PROVE  TypedIn(Blamed(list), stored)
<1> DEFINE S == {i \in Invoices : sent[i].buyer # NONE}
           named == Only(list, S)
<1>1. CASE Blamed(list) = {}
  BY <1>1 DEF TypedIn
<1>2. CASE Blamed(list) # {}
  <2>1. named # << >> /\ \E results : Blamed(list) = Blame(named[1], results)
    BY <1>2 DEF Blamed
  <2>2. PICK results : Blamed(list) = Blame(named[1], results)
    BY <2>1
  <2> HIDE DEF S
  <2>3. KeptInOrder(named, list, S, {}, Len(list))
    BY OnlyKeeps
  <2> HIDE DEF named
  <2>4. named \in Seq(Invoices) /\ \A n \in DOMAIN named : \E m \in 1 .. Len(list) : named[n] = list[m]
    BY <2>3 DEF KeptInOrder, Kept
  <2>5. 1 \in DOMAIN named
    BY <2>1, <2>4
  <2> DEFINE i == named[1]
             new == Edited(row[i], [status |-> "unmatched",
                                    is_suspicious |-> results[Len(results)].risk >= 5000])
  <2>6. i \in stored
    BY <2>4, <2>5
  <2>7. \A c \in Columns : new[c] # row[i][c] => new[c] \in Value(c)
    <3> DEFINE risky == results[Len(results)].risk >= 5000
               verdict == [status |-> "unmatched", is_suspicious |-> risky]
    <3>1. risky \in BOOLEAN
      OBVIOUS
    <3> HIDE DEF risky
    <3>2. DOMAIN verdict = {"status", "is_suspicious"} /\ verdict["status"] = "unmatched"
          /\ verdict["is_suspicious"] = risky
      OBVIOUS
    <3> HIDE DEF verdict
    <3>3. ASSUME NEW c \in Columns, Edited(row[i], verdict)[c] # row[i][c]
          PROVE  Edited(row[i], verdict)[c] \in Value(c)
      <4>1. c \in DOMAIN verdict /\ Edited(row[i], verdict)[c] = verdict[c]
        BY <3>3 DEF Edited
      <4>2. CASE c = "status"
        BY <3>2, <4>1, <4>2 DEF Value, Statuses
      <4>3. CASE c = "is_suspicious"
        BY <3>1, <3>2, <4>1, <4>3 DEF Value
      <4> QED  BY <3>2, <4>1, <4>2, <4>3
    <3> QED  BY <3>3 DEF verdict, risky
  <2>8. Blamed(list) = Changes(i, row[i], new)
    BY <2>2 DEF Blame
  <2> HIDE DEF i, new
  <2>9. TypedIn(Changes(i, row[i], new), stored)
    BY <2>6, <2>7, ChangesTyped
  <2> QED  BY <2>8, <2>9
<1> QED  BY <1>1, <1>2

\* A batch match blames rows of its period.
LEMMA MatchKeepsTable ==
    ASSUME Table, Ledger, NEW w \in Workers, MatchPeriod(w)
    PROVE  Table'
<1>1. PICK P \in SUBSET stored : \E list \in SetToSeqs(P) : MatchRows(w, list)
  BY DEF MatchPeriod
<1>2. PICK list \in SetToSeqs(P) : MatchRows(w, list)
  BY <1>1
<1> DEFINE changes == UNION {Blamed(OfSeller(list, tin)) : tin \in Registered}
           r == [worker[w] EXCEPT !.task = "match", !.stage = "read", !.changes = changes]
<1>3. worker' = [worker EXCEPT ![w] = r]
  BY <1>2 DEF MatchRows, Ledger, Holders
<1>4. /\ stored' = stored /\ row' = row /\ reopened' = reopened /\ session' = session
      /\ overlapped' = overlapped
  BY DEF MatchPeriod, table, history
<1>5. list \in Seq(Invoices) /\ \A n \in 1 .. Len(list) : list[n] \in P
  BY SeqsOf DEF Table
<1>6. ASSUME NEW tin \in Registered  PROVE TypedIn(Blamed(OfSeller(list, tin)), stored)
  <2> DEFINE S == {i \in Invoices : sent[i].seller = tin}
             own == Only(list, S)
  <2> HIDE DEF S
  <2>1. KeptInOrder(own, list, S, {}, Len(list))
    BY <1>5, OnlyKeeps
  <2> HIDE DEF own
  <2>2. own \in Seq(Invoices) /\ \A n \in 1 .. Len(own) : own[n] \in stored
    BY <1>5, <2>1 DEF KeptInOrder, Kept
  <2> QED  BY <2>2, BlamedTyped DEF OfSeller, own, S
<1>7. TypedIn(changes, stored)
  BY <1>6 DEF TypedIn
<1> HIDE DEF changes
<1>8. r.changes = changes /\ r.stage = "read"
  BY DEF Ledger, Holders, WorkerMay, Fields
<1> HIDE DEF r
<1>9. TypedWorker(r, stored) /\ overlapped' \subseteq stored
  BY <1>4, <1>7, <1>8 DEF TypedWorker, Table
<1> QED  BY <1>3, <1>4, <1>9, TableWorker

\* The commits.
LEMMA SessionCommitKeepsTable ==
    ASSUME Table, Ledger, NEW s \in Sessions, CommitSession(s)
    PROVE  Table'
<1> DEFINE changes == session[s].changes
<1>1. /\ stored' = stored /\ overlapped' = overlapped /\ worker' = worker
      /\ session' = [session EXCEPT ![s] = Idle] /\ Apply(changes)
      /\ reopened' = reopened \cup {i \in Invoices : <<i, "status", "received">> \in changes}
  BY DEF CommitSession
<1>2. TypedIn(changes, stored)
  BY DEF Table, TypedSession
<1> HIDE DEF changes
<1>3. row' \in [Invoices -> Row] /\ \A i \in Invoices \ stored : row'[i] = NewRow
  BY <1>1, <1>2, ApplyTyped
<1>4. reopened' \subseteq stored
  <2>1. \A i : <<i, "status", "received">> \in changes => i \in stored
    BY <1>2 DEF TypedIn
  <2> QED  BY <1>1, <2>1 DEF Table
<1>5. \A q \in Sessions : TypedSession(session'[q], stored)
  BY <1>1, TypedFacts DEF Table, Ledger, Holders
<1> QED  BY <1>1, <1>3, <1>4, <1>5 DEF Table

\* A commit of a worker, whatever becomes of the worker.
LEMMA CommitKeepsTable ==
    ASSUME Table, Ledger, NEW w \in Workers, Commit(w), NEW r, TypedWorker(r, stored),
           worker' = [worker EXCEPT ![w] = r]
    PROVE  Table'
<1> DEFINE changes == worker[w].changes
<1>1. /\ stored' = stored /\ overlapped' = overlapped /\ reopened' = reopened
      /\ session' = session /\ Apply(changes)
  BY DEF Commit, history
<1>2. TypedIn(changes, stored)
  BY DEF Table, TypedWorker
<1> HIDE DEF changes
<1>3. row' \in [Invoices -> Row] /\ \A i \in Invoices \ stored : row'[i] = NewRow
  BY <1>1, <1>2, ApplyTyped
<1>4. \A q \in Workers : TypedWorker(worker'[q], stored)
  BY DEF Table, Ledger, Holders
<1> QED  BY <1>1, <1>3, <1>4 DEF Table

\* A task that is delivered again holds nothing.
LEMMA DeliveredTyped ==
    ASSUME NEW w \in Workers
    PROVE  TypedWorker(Delivered(w), stored)
<1>1. Delivered(w).changes = {}
  BY DEF Delivered, Idle
<1> QED  BY <1>1 DEF TypedWorker, TypedIn

\* Every step keeps the table typed.
LEMMA TableNext == Table /\ Ledger /\ Intake /\ Others /\ [Next]_vars => Table'
<1> SUFFICES ASSUME Table, Ledger, Intake, Others, [Next]_vars PROVE Table'
  OBVIOUS
<1>1. ASSUME NEW s \in Sessions, Request(s)
      PROVE  Table'
  BY <1>1, SubmitKeepsTable, LoadKeepsTable DEF Request
<1>2. ASSUME NEW s \in Sessions, Serve(s)
      PROVE  Table'
  BY <1>2, ProcessKeepsTable, AnalysisKeepsTable, SessionCommitKeepsTable DEF Serve
<1>3. ASSUME NEW w \in Workers, Work(w)
      PROVE  Table'
  <2>1. ASSUME NEW S \in SUBSET Invoices, SelectUnmatched(w, S)
        PROVE  Table'
    BY <2>1, ScanKeepsTable
  <2>2. CASE MatchPeriod(w)
    BY <2>2, MatchKeepsTable
  <2>3. CASE CommitWork(w)
    BY <2>3, TypedFacts, CommitKeepsTable DEF CommitWork
  <2> QED  BY <1>3, <2>1, <2>2, <2>3 DEF Work
<1>4. ASSUME NEW w \in Workers, CommitAndCrash(w)
      PROVE  Table'
  BY <1>4, DeliveredTyped, CommitKeepsTable DEF CommitAndCrash
<1>5. ASSUME NEW w \in Workers, CrashWorker(w) \/ FailWork(w)
      PROVE  Table'
  <2>1. /\ worker' = [worker EXCEPT ![w] = Delivered(w)] \/ worker' = [worker EXCEPT ![w] = Idle]
        /\ stored' = stored /\ row' = row /\ overlapped' = overlapped
        /\ reopened' = reopened /\ session' = session
    BY <1>5 DEF CrashWorker, FailWork, table, history
  <2>2. overlapped' \subseteq stored
    BY <2>1 DEF Table
  <2>3. TypedWorker(Idle, stored) /\ TypedWorker(Delivered(w), stored)
    BY TypedFacts, DeliveredTyped
  <2> QED  BY <2>1, <2>2, <2>3, TableWorker
<1>6. CASE CrashApi
  <2>1. /\ stored' = stored /\ row' = row /\ overlapped' = overlapped /\ reopened' = reopened
        /\ worker' = worker /\ session' = [s \in Sessions |-> Idle]
    BY <1>6 DEF CrashApi, table, history
  <2>2. stored' \subseteq Invoices /\ overlapped' \subseteq stored'
    BY <2>1 DEF Table
  <2>3. \A s \in Sessions : TypedSession(session'[s], stored')
    BY <2>1, TypedFacts
  <2> QED  BY <2>1, <2>2, <2>3, TableStep
<1>7. ASSUME NEW S \in SUBSET Invoices, SubmitBatch(S)
      PROVE  Table'
  BY <1>7, BatchKeepsTable
<1>8. CASE PassDeadline \/ UNCHANGED vars
  <2>1. /\ worker' = worker /\ session' = session /\ row' = row /\ stored' = stored
        /\ overlapped' = overlapped /\ reopened' = reopened
    BY <1>8 DEF PassDeadline, vars, table, history
  <2>2. stored' \subseteq Invoices /\ overlapped' \subseteq stored'
    BY <2>1 DEF Table
  <2> QED  BY <2>1, <2>2, TableStep
<1>9. ASSUME NEW s \in Sessions, FailSession(s)
      PROVE  Table'
  <2>1. /\ stored' = stored /\ row' = row /\ overlapped' = overlapped /\ reopened' = reopened
        /\ worker' = worker /\ session' = [session EXCEPT ![s] = Idle]
    BY <1>9 DEF FailSession, table, history
  <2>2. TypedSession(Idle, stored')
    BY TypedFacts
  <2>3. stored \subseteq stored' /\ stored' \subseteq Invoices
    BY <2>1 DEF Table
  <2> QED  BY <2>1, <2>2, <2>3, TableSession
<1> QED  BY <1>1, <1>2, <1>3, <1>4, <1>5, <1>6, <1>7, <1>8, <1>9 DEF Next

-----------------------------------------------------------------------------
(* The other variables, and the types.                                     *)

\* What is accepted comes from Invoices, and what is lost was waiting.
LEMMA OthersNext == Others /\ Intake /\ [Next]_vars => Others'
<1> SUFFICES ASSUME Others, Intake, [Next]_vars PROVE Others'
  OBVIOUS
<1>1. ASSUME NEW s \in Sessions, NEW i \in Invoices, SubmitInvoice(s, i) \/ ReceiveWebhook(s, i)
      PROVE  Others'
  BY <1>1 DEF SubmitInvoice, ReceiveWebhook, Others
<1>2. ASSUME NEW s \in Sessions, NEW i \in Invoices, NEW edit \in Edits, LoadPatch(s, i, edit)
      PROVE  Others'
  BY <1>2 DEF LoadPatch, intake, Others
<1>3. ASSUME NEW s \in Sessions, ProcessWebhook(s)
      PROVE  Others'
  <2>1. session[s].invoice \in accepted
    BY <1>3 DEF ProcessWebhook, Intake, WaitingAlone, Webhooks
  <2>2. /\ sent' = sent /\ overdue' = overdue /\ answered' = answered /\ accepted' = accepted
        /\ lost' \subseteq lost \cup {session[s].invoice}
    BY <1>3 DEF ProcessWebhook
  <2> QED  BY <2>1, <2>2 DEF Others
<1>4. ASSUME NEW s \in Sessions, NEW alerting \in BOOLEAN,
             AnalyseInvoice(s, alerting) \/ CommitSession(s)
      PROVE  Others'
  BY <1>4 DEF AnalyseInvoice, CommitSession, intake, Others
<1>5. ASSUME NEW w \in Workers, Work(w) \/ CrashWorker(w) \/ CommitAndCrash(w) \/ FailWork(w)
      PROVE  Others'
  BY <1>5 DEF Work, SelectUnmatched, MatchPeriod, CommitWork, Commit, CrashWorker,
     CommitAndCrash, FailWork, intake, Others
<1>6. ASSUME NEW S \in SUBSET Invoices, SubmitBatch(S)
      PROVE  Others'
  BY <1>6 DEF SubmitBatch, AllOrNothing, Others
<1>7. CASE CrashApi
  <2>1. {session[s].invoice : s \in {r \in Sessions : session[r].task = "webhook"}} \subseteq accepted
    BY DEF Intake, WaitingAlone, Webhooks
  <2> QED  BY <1>7, <2>1 DEF CrashApi, Others
<1>8. CASE PassDeadline \/ UNCHANGED vars
  BY <1>8 DEF PassDeadline, vars, intake, Others
<1>9. ASSUME NEW s \in Sessions, FailSession(s)
      PROVE  Others'
  <2>1. session[s].task = "webhook" => session[s].invoice \in accepted
    BY DEF Intake, WaitingAlone, Webhooks
  <2> QED  BY <1>9, <2>1 DEF FailSession, Others
<1> QED  BY <1>1, <1>2, <1>3, <1>4, <1>5, <1>6, <1>7, <1>8, <1>9 DEF Next, Request, Serve

\* Nothing is stored, held or sent at first.
LEMMA TableInit == Init => Table /\ Others
<1> SUFFICES ASSUME Init PROVE Table /\ Others
  OBVIOUS
<1>1. NewRow \in Row
  BY DEF NewRow, Row, Statuses
<1>2. row \in [Invoices -> Row] /\ \A i \in Invoices : row[i] = NewRow
  BY <1>1 DEF Init
<1>3. /\ \A s \in Sessions : TypedSession(session[s], stored)
      /\ \A w \in Workers : TypedWorker(worker[w], stored)
  BY TypedFacts DEF Init
<1> QED  BY <1>2, <1>3 DEF Init, Table, Others

\* The four invariants together, each a step's hypothesis for the next.
LEMMA TypedAlways == Spec => [](Ledger /\ Intake /\ Table /\ Others)
<1>1. Init => Ledger /\ Intake /\ Table /\ Others
  BY LedgerInit, IntakeInit, TableInit
<1>2. Ledger /\ Intake /\ Table /\ Others /\ [Next]_vars
         => (Ledger /\ Intake /\ Table /\ Others)'
  BY LedgerNext, IntakeNext, TableNext, OthersNext
<1> QED  BY <1>1, <1>2, PTL DEF Spec

\* The rows are rows, one that is not stored is as the constructor makes it,
\* the columns a session or a task is going to write are columns of stored
\* rows, what is lost was accepted, and a task that is not at work holds no
\* changes: nothing of what it had read outlives a crash.
THEOREM LedgerTypeCorrect == Spec => []TypeOK
<1>1. Ledger /\ Table /\ Others => TypeOK
  BY DEF Ledger, Alerted, Table, Others, TypeOK, TypedSession, TypedWorker
<1> QED  BY <1>1, TypedAlways, PTL

\* The matching endpoint, given the rows of a party's sales and purchases
\* that it reads from the one table, never reports an invoice between the
\* two whose key no other row has, however many invoices and whatever
\* PATCHes, scans and matches wrote to them.
THEOREM RowsAlwaysMatchThemselves == Spec => []PairMatchesItself
<1>1. Table /\ Others => PairMatchesItself
  BY RowsMatchThemselves DEF Table, Others
<1> QED  BY <1>1, TypedAlways, PTL
=============================================================================
