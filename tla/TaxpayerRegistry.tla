-------------------------- MODULE TaxpayerRegistry --------------------------
(***************************************************************************)
(* The registration columns of the taxpayers table: create_taxpayer, which *)
(* checks and inserts later; PATCH of a taxpayer; and the synchronisation  *)
(* with the Tax Management System (TMS), as a background task of the API   *)
(* and as a Celery task, through a client that turns every failure of a    *)
(* call into None.                                                         *)
(*                                                                         *)
(* A synchronisation asks the TMS first and reads the row when the answer  *)
(* is there.  It then assigns what the answer holds; its commit writes the *)
(* columns whose value differs from the one READ.  Requests and tasks are  *)
(* one-shot jobs.                                                          *)
(*                                                                         *)
(* Of an answer's keys the registration columns are followed here and the  *)
(* status in RiskAssessment (Synchronise).  An answer is taken to be about *)
(* the TIN that was asked for, and to hold neither id, risk_score nor      *)
(* total_alerts, which hasattr would let through as well.                  *)
(***************************************************************************)
EXTENDS Naturals, FiniteSets, FiniteSetsExt

CONSTANTS
    Tins,         \* tax identification numbers
    Columns,      \* the registration columns, "vat_number" among them
    Values,       \* what they hold
    Falsy,        \* ... those of them that are zero or empty
    NONE,         \* ... an attribute the answer leaves null; no row; no answer
    Records,      \* [Tins -> sequence of the TMS's records], one after another
    Existing,     \* the taxpayers that are registered to begin with
    Payloads,     \* bodies of POST and PATCH: functions of some columns
    MaxJobs,      \* bound: requests and tasks
    MaxCrashes,   \* bound: processes lost
    MaxFailures   \* bound: calls that fail or time out

Jobs == 1..MaxJobs   \* numbered as they start
Profiles == [Columns -> Values]

ASSUME ColumnAssumption ==
    /\ "vat_number" \in Columns /\ Falsy \subseteq Values
    /\ NONE \notin Values /\ NONE \notin Profiles
ASSUME RecordAssumption ==
    \A t \in Tins : 1 \in DOMAIN Records[t] /\ \A v \in DOMAIN Records[t] :
        Records[t][v] \in [Columns -> Values \cup {NONE}]
ASSUME ExistingAssumption ==
    /\ Existing \subseteq Tins
    /\ \A t \in Existing : Records[t][1] \in Profiles
    /\ \A t, u \in Existing :
          Records[t][1]["vat_number"] = Records[u][1]["vat_number"] => t = u
ASSUME PayloadAssumption ==
    \A p \in Payloads : /\ DOMAIN p \subseteq Columns /\ (\A c \in DOMAIN p : p[c] \in Values)
                        /\ "vat_number" \in DOMAIN p => p \in Profiles
ASSUME BoundAssumption == MaxJobs \in Nat /\ MaxCrashes \in Nat /\ MaxFailures \in Nat

VARIABLES
    row,         \* [Tins -> profile, or NONE where there is no row]
    version,     \* the TMS's current record of each taxpayer
    job,         \* requests and tasks
    spent,       \* crashes and failed calls so far
    upTo,        \* history: the newest record that a commit held, 0 for none
    replayed,    \* history: the profile, were its sessions run one by one
    overlapped   \* history: taxpayers of whom two sessions were open at once

vars == <<row, version, job, spent, upTo, replayed, overlapped>>
history == <<upTo, replayed, overlapped>>

-----------------------------------------------------------------------------
(* Rows, answers and sessions.                                             *)

Free == [kind |-> "free", tin |-> NONE, stage |-> "free", body |-> NONE, of |-> 0, changes |-> {}]

Starts(j) == job[j] = Free /\ \A k \in 1..(j - 1) : job[k] # Free

Syncs == {"api", "task"}

Registered == {t \in Tins : row[t] # NONE}

\* hasattr(tp, key) and val is not None, for the registration columns.
\* (Mutants: and val, which skips zero and the empty string; no check.)
AllKeys(body) == DOMAIN body
TruthyKeys(body) == {c \in DOMAIN body : body[c] \notin {NONE} \cup Falsy}
Keys(body) == {c \in DOMAIN body : body[c] # NONE}

Overlaid(old, body) ==
    [c \in Columns |-> IF c \in DOMAIN body /\ body[c] # NONE THEN body[c] ELSE old[c]]

\* What a session that read `old` writes of a body.
Changes(old, body) == {<<c, body[c]>> : c \in {d \in Keys(body) : body[d] # old[d]}}

Written(old, changes) ==
    [c \in Columns |-> IF \E x \in changes : x[1] = c
                       THEN (CHOOSE x \in changes : x[1] = c)[2] ELSE old[c]]

\* The unique index on the VAT number.
VatFree(t, vat) == \A u \in Registered \ {t} : row[u]["vat_number"] # vat
Fits(t, new) == VatFree(t, new["vat_number"])

\* Two sessions on a row: one is open from its answer, or from its read.
Open(j, t) == job[j].tin = t /\ job[j].stage \in {"answered", "loaded"}
Overlap(j, t) ==
    overlapped' = IF \E k \in Jobs \ {j} : Open(k, t) THEN overlapped \cup {t} ELSE overlapped

\* What is left of a job, that it went on to a stage without its data.
At(j, stage) == [Free EXCEPT !.kind = job[j].kind, !.tin = job[j].tin, !.stage = stage]
End(j, stage) == job' = [job EXCEPT ![j] = At(j, stage)]

-----------------------------------------------------------------------------
(* create_taxpayer.                                                        *)

\* The check: any row with the TIN or the VAT number refuses the request,
\* two of them with an exception (scalar_one_or_none) instead of a 409.
Conflicts(t, p) ==
    {u \in Registered : u = t \/ row[u]["vat_number"] = p["vat_number"]}

CheckNew(j, t, p) ==
    /\ Starts(j)
    /\ p \in Profiles
    /\ job' = [job EXCEPT ![j] = [Free EXCEPT !.kind = "create", !.tin = t,
                  !.stage = CASE Conflicts(t, p) = {} -> "checked"
                              [] Cardinality(Conflicts(t, p)) = 1 -> "conflict"
                              [] OTHER -> "error",
                  !.body = IF Conflicts(t, p) = {} THEN p ELSE NONE]]
    /\ UNCHANGED <<row, version, spent, history>>

\* The insert: the unique indexes on both numbers have the last word.
\* (Mutant: the check had it, an hour ago.)
CheckedBefore(t, p) == TRUE
Insertable(t, p) == Conflicts(t, p) = {}

InsertNew(j) ==
    /\ job[j].stage = "checked"
    /\ LET t == job[j].tin
           p == job[j].body
       IN IF Insertable(t, p)
          THEN /\ row' = [row EXCEPT ![t] = p]
               /\ replayed' = [replayed EXCEPT ![t] = p]
               /\ End(j, "created")
          ELSE UNCHANGED <<row, replayed>> /\ End(j, "error")
    /\ UNCHANGED <<version, spent, upTo, overlapped>>

-----------------------------------------------------------------------------
(* PATCH of a taxpayer; no body holds the VAT number.                      *)

LoadPatch(j, t, p) ==
    /\ Starts(j)
    /\ t \in Registered
    /\ "vat_number" \notin DOMAIN p
    /\ job' = [job EXCEPT ![j] = [Free EXCEPT !.kind = "patch", !.tin = t, !.body = p,
                                     !.stage = "loaded", !.changes = Changes(row[t], p)]]
    /\ Overlap(j, t)
    /\ UNCHANGED <<row, version, spent, upTo, replayed>>

-----------------------------------------------------------------------------
(* Synchronisation.                                                        *)

\* POST /tms/sync-taxpayer (404 for a TIN that has no row), or the task.
QueueSync(j, t, kind) ==
    /\ Starts(j)
    /\ kind = "api" => t \in Registered
    /\ job' = [job EXCEPT ![j] = [Free EXCEPT !.kind = kind, !.tin = t, !.stage = "queued"]]
    /\ UNCHANGED <<row, version, spent, history>>

\* get_taxpayer: the TMS answers with its current record.
Ask(j) ==
    /\ job[j].stage = "queued"
    /\ LET t == job[j].tin
       IN /\ job' = [job EXCEPT ![j].stage = "answered", ![j].body = Records[t][version[t]],
                                ![j].of = version[t]]
          /\ Overlap(j, t)
    /\ UNCHANGED <<row, version, spent, upTo, replayed>>

\* ... or does not: an error status, a timeout or a body that is no JSON is
\* None, and the synchronisation ends there.  Nothing tries again.
AskInVain(j) ==
    /\ job[j].stage = "queued"
    /\ spent.failures < MaxFailures
    /\ spent' = [spent EXCEPT !.failures = @ + 1]
    /\ End(j, "sync_failed")
    /\ UNCHANGED <<row, version, history>>

\* The row is read when the answer is there.  A task for a TIN without a row
\* is "synced" too.
LoadRow(j) ==
    /\ job[j].stage = "answered"
    /\ LET t == job[j].tin
       IN IF t \in Registered
          THEN job' = [job EXCEPT ![j].stage = "loaded",
                                  ![j].changes = Changes(row[t], job[j].body)]
          ELSE End(j, "synced")
    /\ UNCHANGED <<row, version, spent, history>>

\* What a commit leaves of the row; the VAT number of another taxpayer rolls
\* all of it back.
\* (Mutant: it only loses the VAT number.)
RestWritten(t, changes) ==
    LET new == Written(row[t], changes)
    IN IF Fits(t, new) THEN new ELSE [new EXCEPT !["vat_number"] = row[t]["vat_number"]]
Committed(t, changes) ==
    LET new == Written(row[t], changes) IN IF Fits(t, new) THEN new ELSE row[t]

CommitRow(j) ==
    /\ job[j].stage = "loaded"
    /\ LET t == job[j].tin
           fits == Fits(t, Written(row[t], job[j].changes))
           newest == job[j].kind = "patch" \/ job[j].of >= upTo[t]
       IN /\ row' = [row EXCEPT ![t] = Committed(t, job[j].changes)]
          /\ replayed' = IF fits /\ newest
                         THEN [replayed EXCEPT ![t] = Overlaid(@, job[j].body)] ELSE replayed
          /\ upTo' = IF fits THEN [upTo EXCEPT ![t] = Max({@, job[j].of})] ELSE upTo
          /\ IF ~fits THEN End(j, "error")
             ELSE End(j, IF job[j].kind = "task" THEN "unacknowledged" ELSE "synced")
    /\ UNCHANGED <<version, spent, overlapped>>

Acknowledge(j) ==
    /\ job[j].stage = "unacknowledged"
    /\ End(j, "synced")
    /\ UNCHANGED <<row, version, spent, history>>

-----------------------------------------------------------------------------
(* The TMS, and crashes.                                                   *)

UpdateTms(t) ==
    /\ version[t] + 1 \in DOMAIN Records[t]
    /\ version' = [version EXCEPT ![t] = @ + 1]
    /\ UNCHANGED <<row, job, spent, history>>

Running(j) == job[j].stage \in {"queued", "checked", "answered", "loaded", "unacknowledged"}

Crash ==
    /\ spent.crashes < MaxCrashes
    /\ spent' = [spent EXCEPT !.crashes = @ + 1]

\* A worker dies: its task is delivered again and asks again.
\* (Mutant: it was acknowledged when it was delivered.)
GivenUp(j) == At(j, "lost")
Redelivered(j) == At(j, "queued")

CrashWorker(j) ==
    /\ job[j].kind = "task" /\ Running(j)
    /\ Crash
    /\ job' = [job EXCEPT ![j] = Redelivered(j)]
    /\ UNCHANGED <<row, version, history>>

\* The API process dies with its requests and its background tasks.
CrashApi ==
    /\ \E j \in Jobs : job[j].kind # "task" /\ Running(j)
    /\ Crash
    /\ job' = [j \in Jobs |-> IF job[j].kind # "task" /\ Running(j)
                              THEN At(j, "lost") ELSE job[j]]
    /\ UNCHANGED <<row, version, history>>

-----------------------------------------------------------------------------
(* The specification.                                                      *)

\* Those that are registered are so as the TMS knows them.
Init ==
    /\ row = [t \in Tins |-> IF t \in Existing THEN Records[t][1] ELSE NONE]
    /\ upTo = [t \in Tins |-> IF t \in Existing THEN 1 ELSE 0]
    /\ replayed = row
    /\ version = [t \in Tins |-> 1]
    /\ job = [j \in Jobs |-> Free]
    /\ spent = [crashes |-> 0, failures |-> 0]
    /\ overlapped = {}

Request(j) ==
    \/ \E t \in Tins, p \in Payloads : CheckNew(j, t, p) \/ LoadPatch(j, t, p)
    \/ \E t \in Tins, kind \in Syncs : QueueSync(j, t, kind)

Step(j) ==
    InsertNew(j) \/ Ask(j) \/ AskInVain(j) \/ LoadRow(j) \/ CommitRow(j) \/ Acknowledge(j)

Next ==
    \/ \E j \in Jobs : Request(j) \/ Step(j) \/ CrashWorker(j)
    \/ \E t \in Tins : UpdateTms(t)
    \/ CrashApi

Spec == Init /\ [][Next]_vars

\* Workers keep at their tasks; nothing is assumed of the API process.
FairSpec == Spec /\ \A j \in Jobs : WF_vars(job[j].kind = "task" /\ Step(j))

-----------------------------------------------------------------------------
(* Properties.                                                             *)

Outcomes == {"created", "synced", "sync_failed", "conflict", "error", "lost"}

TypeOK ==
    /\ row \in [Tins -> Profiles \cup {NONE}]
    /\ \A t \in Tins : version[t] \in DOMAIN Records[t] /\ upTo[t] \in 0..version[t]
    /\ replayed \in [Tins -> Profiles \cup {NONE}]
    /\ overlapped \subseteq Tins
    /\ \A j \in Jobs :
          /\ job[j] = Free \/ Running(j) \/ job[j].stage \in Outcomes
          /\ job[j].changes # {} => job[j].stage = "loaded"

\* However checks and inserts of several requests interleave, a TIN is
\* registered by one of them, and no two rows share a VAT number, whatever
\* the synchronisations write over it.
RegisteredOnce ==
    /\ \A i, j \in Jobs : i # j /\ job[i].stage = "created" /\ job[j].stage = "created"
                             => job[i].tin # job[j].tin
    /\ \A t, u \in Registered : t # u => row[t]["vat_number"] # row[u]["vat_number"]

\* A taxpayer of whom two sessions were never open at once has the profile
\* that running them one by one gives: no column is a mixture of two
\* records, none goes back to an older record, none is lost, and what the
\* TMS leaves null stays.  The session of a synchronisation is open from the
\* answer on, as the answer is older than the row.
SerialAlone == \A t \in Registered \ overlapped : row[t] = replayed[t]

\* A commit writes all that it differs in, or nothing: of an answer whose VAT
\* number another taxpayer has, no column is taken over.
SyncAllOrNothing ==
    [][\A j \in Jobs, t \in Registered :
          Open(j, t) /\ job'[j].stage \in {"synced", "unacknowledged", "error"} =>
              \/ row'[t] = row[t]
              \/ \A x \in job[j].changes : row'[t][x[1]] = x[2]]_vars

\* The Celery task ends: synced, failed with the call, or with an exception,
\* and never lost, although workers die in the middle of it.
TaskSyncEnds ==
    \A j \in Jobs : (job[j].kind = "task" /\ job[j].stage = "queued")
                       ~> (job[j].stage \in {"synced", "sync_failed", "error"})
=============================================================================
