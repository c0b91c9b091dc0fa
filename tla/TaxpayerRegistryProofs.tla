----------------------- MODULE TaxpayerRegistryProofs -----------------------
(***************************************************************************)
(* What TaxpayerRegistry guarantees for any taxpayers, columns, values,    *)
(* records of the TMS, payloads, requests and tasks.                       *)
(*                                                                         *)
(* A check is older than its insert, and a commit than what it writes, so  *)
(* that uniqueness rests on what a job may rely on later: a taxpayer that  *)
(* it has read or created stays registered, and what it is to write holds  *)
(* one value for a column.                                                 *)
(***************************************************************************)
EXTENDS TaxpayerRegistry, TLAPS

\* What the TMS may answer, and the bodies of requests beside it.
Answers == [Columns -> Values \cup {NONE}]
Bodies == Profiles \cup Answers \cup Payloads \cup {NONE}
Versions == {0} \cup UNION {DOMAIN Records[t] : t \in Tins}

Kinds == {"free", "create", "patch", "api", "task"}
Stages == {"free", "queued", "checked", "answered", "loaded", "unacknowledged", "created",
           "synced", "sync_failed", "conflict", "error", "lost"}

JobRecord == [kind : Kinds, tin : Tins \cup {NONE}, stage : Stages, body : Bodies,
              of : Versions, changes : SUBSET (Columns \X Values)]

\* A set of changes gives a column one value.
OneValueEach(changes) == \A x, y \in changes : x[1] = y[1] => x = y

\* What a job relies on.
Relies(r) ==
    /\ r.stage # "free" => r.tin \in Tins
    /\ r.stage = "checked" => r.body \in Profiles
    /\ r.stage = "answered" => r.body \in Answers
    /\ r.stage \in {"loaded", "created"} => r.tin \in Registered
    /\ OneValueEach(r.changes)

Typed ==
    /\ row \in [Tins -> Profiles \cup {NONE}]
    /\ version \in [Tins -> Versions]
    /\ \A t \in Tins : version[t] \in DOMAIN Records[t]
    /\ job \in [Jobs -> JobRecord]

VatUnique ==
    \A t, u \in Registered : t # u => row[t]["vat_number"] # row[u]["vat_number"]

CreatedOnce ==
    \A i, j \in Jobs : i # j /\ job[i].stage = "created" /\ job[j].stage = "created"
                          => job[i].tin # job[j].tin

Sound == Typed /\ VatUnique /\ CreatedOnce /\ \A j \in Jobs : Relies(job[j])

-----------------------------------------------------------------------------
(* Rows, bodies and changes.                                               *)

LEMMA RowIsProfile ==
    ASSUME Typed, NEW t \in Registered
    PROVE  t \in Tins /\ row[t] \in Profiles
BY ColumnAssumption DEF Typed, Registered

LEMMA ProfileIsRow ==
    ASSUME NEW p \in Profiles
    PROVE  p # NONE
BY ColumnAssumption

\* Of a body whose keys are columns, a session that read a profile writes
\* values of columns, one for each.
LEMMA ChangesTyped ==
    ASSUME NEW old \in Profiles, NEW body, DOMAIN body \subseteq Columns,
           \A c \in DOMAIN body : body[c] \in Values \cup {NONE}
    PROVE  /\ Changes(old, body) \subseteq Columns \X Values
           /\ OneValueEach(Changes(old, body))
BY DEF Changes, Keys, OneValueEach

LEMMA WrittenIsProfile ==
    ASSUME NEW old \in Profiles, NEW changes \in SUBSET (Columns \X Values)
    PROVE  Written(old, changes) \in Profiles
<1>1. ASSUME NEW c \in Columns, \E x \in changes : x[1] = c
      PROVE  (CHOOSE x \in changes : x[1] = c)[2] \in Values
  <2> DEFINE y == CHOOSE x \in changes : x[1] = c
  <2>1. y \in changes
    BY <1>1
  <2>2. y \in Columns \X Values
    BY <2>1
  <2> QED  BY <2>2
<1>2. \A c \in Columns : old[c] \in Values
  BY DEF Profiles
<1> QED  BY <1>1, <1>2 DEF Written, Profiles

LEMMA PayloadBody ==
    ASSUME NEW p \in Payloads
    PROVE  DOMAIN p \subseteq Columns /\ \A c \in DOMAIN p : p[c] \in Values
BY PayloadAssumption

LEMMA AnswerBody ==
    ASSUME Typed, NEW t \in Tins
    PROVE  Records[t][version[t]] \in Answers /\ version[t] \in Versions
BY RecordAssumption DEF Typed, Answers, Versions

-----------------------------------------------------------------------------
(* The table under a step.                                                 *)

\* A step of a job takes no row away and leaves VAT numbers unique.
TableKept ==
    /\ row' \in [Tins -> Profiles \cup {NONE}]
    /\ Registered \subseteq Registered'
    /\ VatUnique'

LEMMA SameRows ==
    ASSUME Sound, row' = row
    PROVE  TableKept
BY DEF Sound, Typed, VatUnique, Registered, TableKept

\* One row changes, and nobody else has its new VAT number.
LEMMA OneRow ==
    ASSUME Sound, NEW t \in Tins, NEW new \in Profiles, Fits(t, new),
           row' = [row EXCEPT ![t] = new]
    PROVE  TableKept
<1>1. row' \in [Tins -> Profiles \cup {NONE}]
  BY DEF Sound, Typed
<1>2. row'[t] = new /\ \A u \in Tins \ {t} : row'[u] = row[u]
  BY DEF Sound, Typed
<1>3. Registered' = Registered \cup {t}
  BY <1>2, ProfileIsRow DEF Registered
<1>4. \A u \in Registered \ {t} : row[u]["vat_number"] # new["vat_number"]
  BY DEF Fits, VatFree
<1>5. VatUnique'
  BY <1>2, <1>3, <1>4 DEF Sound, VatUnique, Registered
<1> QED  BY <1>1, <1>3, <1>5 DEF TableKept

LEMMA InsertKeepsTable ==
    ASSUME Sound, NEW j \in Jobs, InsertNew(j)
    PROVE  TableKept
<1> DEFINE t == job[j].tin
           p == job[j].body
<1>1. t \in Tins /\ p \in Profiles
  BY DEF Sound, Relies, InsertNew
<1>2. CASE Insertable(t, p)
  <2>1. row' = [row EXCEPT ![t] = p]
    BY <1>2 DEF InsertNew
  <2>2. Fits(t, p)
    BY <1>2 DEF Insertable, Conflicts, Fits, VatFree
  <2> QED  BY <1>1, <2>1, <2>2, OneRow
<1>3. CASE ~Insertable(t, p)
  BY <1>3, SameRows DEF InsertNew
<1> QED  BY <1>2, <1>3

LEMMA CommitKeepsTable ==
    ASSUME Sound, NEW j \in Jobs, CommitRow(j)
    PROVE  TableKept
<1> DEFINE t == job[j].tin
           new == Written(row[t], job[j].changes)
<1>1. t \in Registered /\ job[j].changes \in SUBSET (Columns \X Values)
  BY DEF Sound, Typed, JobRecord, Relies, CommitRow
<1>2. t \in Tins /\ row[t] \in Profiles
  BY <1>1, RowIsProfile DEF Sound
<1>3. new \in Profiles
  BY <1>1, <1>2, WrittenIsProfile
<1>4. row' = [row EXCEPT ![t] = Committed(t, job[j].changes)]
  BY DEF CommitRow
<1>5. CASE Fits(t, new)
  <2>1. Committed(t, job[j].changes) = new
    BY <1>5 DEF Committed
  <2> QED  BY <1>2, <1>3, <1>4, <1>5, <2>1, OneRow
<1>6. CASE ~Fits(t, new)
  <2>1. Committed(t, job[j].changes) = row[t]
    BY <1>6 DEF Committed
  <2>2. row' = row
    BY <1>2, <1>4, <2>1 DEF Sound, Typed
  <2> QED  BY <2>2, SameRows
<1> QED  BY <1>5, <1>6

LEMMA StepKeepsTable ==
    ASSUME Sound, [Next]_vars
    PROVE  TableKept
<1>1. ASSUME NEW j \in Jobs, InsertNew(j)
      PROVE  TableKept
  BY <1>1, InsertKeepsTable
<1>2. ASSUME NEW j \in Jobs, CommitRow(j)
      PROVE  TableKept
  BY <1>2, CommitKeepsTable
<1>3. ASSUME row' = row
      PROVE  TableKept
  BY <1>3, SameRows
<1> QED
  BY <1>1, <1>2, <1>3 DEF Next, Request, Step, vars, CheckNew, LoadPatch, QueueSync, Ask,
     AskInVain, LoadRow, Acknowledge, CrashWorker, CrashApi, UpdateTms

-----------------------------------------------------------------------------
(* The jobs under a step.                                                  *)

JobsKept ==
    /\ job' \in [Jobs -> JobRecord]
    /\ CreatedOnce'
    /\ \A j \in Jobs : Relies(job[j])'

\* One job becomes r, which relies on what is there after the step; a job
\* that has just created a row found none before.
LEMMA OneJob ==
    ASSUME Sound, TableKept, NEW j \in Jobs, NEW r \in JobRecord,
           job' = [job EXCEPT ![j] = r],
           r.stage # "free" => r.tin \in Tins,
           r.stage = "checked" => r.body \in Profiles,
           r.stage = "answered" => r.body \in Answers,
           r.stage \in {"loaded", "created"} => r.tin \in Registered',
           r.stage = "created" => r.tin \notin Registered,
           OneValueEach(r.changes)
    PROVE  JobsKept
<1>1. job' \in [Jobs -> JobRecord]
  BY DEF Sound, Typed
<1>2. job'[j] = r /\ \A k \in Jobs \ {j} : job'[k] = job[k]
  BY DEF Sound, Typed
<1>3. \A k \in Jobs : job[k].stage \in {"loaded", "created"} => job[k].tin \in Registered
  BY DEF Sound, Relies
<1>4. CreatedOnce'
  BY <1>2, <1>3 DEF Sound, CreatedOnce
<1>5. ASSUME NEW k \in Jobs
      PROVE  Relies(job[k])'
  <2>1. CASE k = j
    BY <1>2, <2>1 DEF Relies
  <2>2. CASE k # j
    BY <1>2, <2>2 DEF Sound, Relies, TableKept
  <2> QED  BY <2>1, <2>2
<1> QED  BY <1>1, <1>4, <1>5 DEF JobsKept

\* Most steps leave a job without data.
Bare(r) == r.body = NONE /\ r.changes = {}

LEMMA BodiesAndVersions ==
    /\ Profiles \subseteq Bodies /\ Answers \subseteq Bodies /\ Payloads \subseteq Bodies
    /\ NONE \in Bodies /\ 0 \in Versions
BY DEF Bodies, Versions

LEMMA FreeType ==
    /\ Free \in JobRecord /\ Bare(Free) /\ Free.stage = "free" /\ Free.tin = NONE /\ Free.of = 0
BY BodiesAndVersions DEF Free, JobRecord, Kinds, Stages, Bare

LEMMA AtType ==
    ASSUME Sound, NEW j \in Jobs, NEW stage \in Stages
    PROVE  /\ At(j, stage) \in JobRecord /\ Bare(At(j, stage))
           /\ At(j, stage).stage = stage /\ At(j, stage).tin = job[j].tin
BY BodiesAndVersions DEF At, Free, JobRecord, Sound, Typed, Kinds, Bare

LEMMA EndKeepsJobs ==
    ASSUME Sound, TableKept, NEW j \in Jobs, job[j].stage # "free",
           NEW stage \in {"queued", "created", "synced", "unacknowledged", "sync_failed",
                          "error", "lost"},
           stage = "created" => job[j].tin \in Registered' \ Registered,
           End(j, stage)
    PROVE  JobsKept
<1>1. /\ At(j, stage) \in JobRecord /\ Bare(At(j, stage))
      /\ At(j, stage).stage = stage /\ At(j, stage).tin = job[j].tin
  BY AtType DEF Stages
<1>2. job[j].tin \in Tins
  BY DEF Sound, Relies
<1>3. job' = [job EXCEPT ![j] = At(j, stage)]
  BY DEF End
<1>4. OneValueEach(At(j, stage).changes)
  BY <1>1 DEF Bare, OneValueEach
<1> QED  BY <1>1, <1>2, <1>3, <1>4, OneJob

LEMMA CheckKeepsJobs ==
    ASSUME Sound, TableKept, NEW j \in Jobs, NEW t \in Tins, NEW p \in Payloads, CheckNew(j, t, p)
    PROVE  JobsKept
<1>1. PICK stage \in {"checked", "conflict", "error"}, body \in {p, NONE} :
        /\ job' = [job EXCEPT ![j] = [Free EXCEPT !.kind = "create", !.tin = t,
                                                  !.stage = stage, !.body = body]]
        /\ stage = "checked" => body = p
        /\ p \in Profiles
  <2> DEFINE stage == CASE Conflicts(t, p) = {} -> "checked"
                        [] Cardinality(Conflicts(t, p)) = 1 -> "conflict"
                        [] OTHER -> "error"
             body == IF Conflicts(t, p) = {} THEN p ELSE NONE
  <2>1. stage \in {"checked", "conflict", "error"} /\ body \in {p, NONE}
        /\ (stage = "checked" => body = p)
    OBVIOUS
  <2>2. job' = [job EXCEPT ![j] = [Free EXCEPT !.kind = "create", !.tin = t,
                                              !.stage = stage, !.body = body]]
        /\ p \in Profiles
    BY DEF CheckNew
  <2> HIDE DEF stage, body
  <2> QED  BY <2>1, <2>2
<1> DEFINE r == [Free EXCEPT !.kind = "create", !.tin = t, !.stage = stage, !.body = body]
<1>2. /\ r \in JobRecord /\ r.tin = t /\ r.stage = stage /\ r.body = body
      /\ OneValueEach(r.changes)
  BY <1>1, BodiesAndVersions DEF Free, JobRecord, Kinds, Stages, OneValueEach
<1> HIDE DEF r
<1>3. job' = [job EXCEPT ![j] = r]
  BY <1>1 DEF r
<1>4. stage = "checked" => body \in Profiles
  BY <1>1
<1> QED  BY <1>2, <1>3, <1>4, OneJob

LEMMA PatchKeepsJobs ==
    ASSUME Sound, TableKept, NEW j \in Jobs, NEW t \in Tins, NEW p \in Payloads, LoadPatch(j, t, p)
    PROVE  JobsKept
<1> DEFINE r == [Free EXCEPT !.kind = "patch", !.tin = t, !.body = p,
                             !.stage = "loaded", !.changes = Changes(row[t], p)]
<1>1. job' = [job EXCEPT ![j] = r] /\ t \in Registered
  BY DEF LoadPatch
<1>2. /\ Changes(row[t], p) \subseteq Columns \X Values
      /\ OneValueEach(Changes(row[t], p))
  BY <1>1, RowIsProfile, PayloadBody, ChangesTyped DEF Sound
<1>3. /\ r \in JobRecord /\ r.tin = t /\ r.stage = "loaded"
      /\ r.changes = Changes(row[t], p)
  BY <1>2, BodiesAndVersions DEF Free, JobRecord, Kinds, Stages
<1> HIDE DEF r
<1>4. t \in Registered'
  BY <1>1 DEF TableKept
<1> QED  BY <1>1, <1>2, <1>3, <1>4, OneJob

LEMMA QueueKeepsJobs ==
    ASSUME Sound, TableKept, NEW j \in Jobs, NEW t \in Tins, NEW kind \in Syncs,
           QueueSync(j, t, kind)
    PROVE  JobsKept
<1> DEFINE r == [Free EXCEPT !.kind = kind, !.tin = t, !.stage = "queued"]
<1>1. job' = [job EXCEPT ![j] = r]
  BY DEF QueueSync
<1>2. r \in JobRecord /\ r.tin = t /\ r.stage = "queued" /\ OneValueEach(r.changes)
  BY BodiesAndVersions DEF Free, JobRecord, Kinds, Stages, Syncs, OneValueEach
<1> HIDE DEF r
<1> QED  BY <1>1, <1>2, OneJob

LEMMA AskKeepsJobs ==
    ASSUME Sound, TableKept, NEW j \in Jobs, Ask(j)
    PROVE  JobsKept
<1> DEFINE t == job[j].tin
           r == [job[j] EXCEPT !.stage = "answered", !.body = Records[t][version[t]],
                               !.of = version[t]]
<1>1. job[j] \in JobRecord /\ t \in Tins /\ OneValueEach(job[j].changes)
  BY DEF Sound, Typed, Relies, Ask
<1>2. Records[t][version[t]] \in Answers /\ version[t] \in Versions
  BY <1>1, AnswerBody DEF Sound
<1>3. job' = [job EXCEPT ![j] = r]
  BY <1>1 DEF Ask, JobRecord, Sound, Typed
<1>4. /\ r \in JobRecord /\ r.tin = t /\ r.stage = "answered"
      /\ r.body = Records[t][version[t]] /\ r.changes = job[j].changes
  BY <1>1, <1>2, BodiesAndVersions DEF JobRecord, Stages
<1> HIDE DEF r
<1> QED  BY <1>1, <1>2, <1>3, <1>4, OneJob

LEMMA LoadKeepsJobs ==
    ASSUME Sound, TableKept, NEW j \in Jobs, LoadRow(j)
    PROVE  JobsKept
<1> DEFINE t == job[j].tin
           r == [job[j] EXCEPT !.stage = "loaded", !.changes = Changes(row[t], job[j].body)]
<1>1. job[j] \in JobRecord /\ t \in Tins /\ job[j].body \in Answers
  BY DEF Sound, Typed, Relies, LoadRow
<1>2. CASE t \in Registered
  <2>1. row[t] \in Profiles
    BY <1>2, RowIsProfile DEF Sound
  <2>2. DOMAIN job[j].body = Columns /\ \A c \in Columns : job[j].body[c] \in Values \cup {NONE}
    BY <1>1 DEF Answers
  <2>3. /\ Changes(row[t], job[j].body) \subseteq Columns \X Values
        /\ OneValueEach(Changes(row[t], job[j].body))
    BY <2>1, <2>2, ChangesTyped
  <2>4. job' = [job EXCEPT ![j] = r]
    BY <1>1, <1>2 DEF LoadRow, JobRecord, Sound, Typed
  <2>5. /\ r \in JobRecord /\ r.tin = t /\ r.stage = "loaded"
        /\ r.changes = Changes(row[t], job[j].body)
    BY <1>1, <2>3 DEF JobRecord, Stages
  <2>6. t \in Registered'
    BY <1>2 DEF TableKept
  <2> HIDE DEF r
  <2> QED  BY <1>1, <2>3, <2>4, <2>5, <2>6, OneJob
<1>3. CASE t \notin Registered
  BY <1>3, EndKeepsJobs DEF LoadRow
<1> QED  BY <1>2, <1>3

LEMMA InsertKeepsJobs ==
    ASSUME Sound, TableKept, NEW j \in Jobs, InsertNew(j)
    PROVE  JobsKept
<1> DEFINE t == job[j].tin
           p == job[j].body
<1>1. t \in Tins /\ p \in Profiles
  BY DEF Sound, Relies, InsertNew
<1>2. CASE Insertable(t, p)
  <2>1. row' = [row EXCEPT ![t] = p] /\ End(j, "created")
    BY <1>2 DEF InsertNew
  <2>2. t \notin Registered
    BY <1>2 DEF Insertable, Conflicts
  <2>3. row'[t] = p
    BY <1>1, <2>1 DEF Sound, Typed
  <2>4. t \in Registered'
    BY <1>1, <2>3, ProfileIsRow DEF Registered
  <2> QED  BY <2>1, <2>2, <2>4, EndKeepsJobs DEF InsertNew
<1>3. CASE ~Insertable(t, p)
  BY <1>3, EndKeepsJobs DEF InsertNew
<1> QED  BY <1>2, <1>3

\* The API's death leaves bare jobs; none of them has just created a row.
LEMMA CrashKeepsJobs ==
    ASSUME Sound, TableKept, CrashApi
    PROVE  JobsKept
<1>1. ASSUME NEW k \in Jobs
      PROVE  \/ job'[k] = job[k]
             \/ /\ job'[k] = At(k, "lost") /\ job[k].stage # "free"
  BY DEF CrashApi, Running
<1>2. ASSUME NEW k \in Jobs
      PROVE  /\ At(k, "lost") \in JobRecord /\ Bare(At(k, "lost"))
             /\ At(k, "lost").stage = "lost" /\ At(k, "lost").tin = job[k].tin
  BY AtType DEF Stages
<1>3. job' \in [Jobs -> JobRecord]
  BY <1>2 DEF CrashApi, Sound, Typed
<1>4. CreatedOnce'
  <2>1. \A k \in Jobs : job'[k].stage = "created" => job'[k] = job[k]
    BY <1>1, <1>2
  <2> QED  BY <2>1 DEF Sound, CreatedOnce
<1>5. ASSUME NEW k \in Jobs
      PROVE  Relies(job[k])'
  <2>1. CASE job'[k] = job[k]
    BY <2>1 DEF Sound, Relies, TableKept
  <2>2. CASE job'[k] = At(k, "lost") /\ job[k].stage # "free"
    BY <1>2, <2>2 DEF Sound, Relies, Bare, OneValueEach
  <2> QED  BY <1>1, <2>1, <2>2
<1> QED  BY <1>3, <1>4, <1>5 DEF JobsKept

LEMMA SameJobs ==
    ASSUME Sound, TableKept, job' = job
    PROVE  JobsKept
<1>1. \A k \in Jobs : Relies(job[k])'
  BY DEF Sound, Relies, TableKept
<1> QED  BY <1>1 DEF Sound, Typed, CreatedOnce, JobsKept

LEMMA StepKeepsJobs ==
    ASSUME Sound, TableKept, [Next]_vars
    PROVE  JobsKept
<1>1. ASSUME NEW j \in Jobs, Request(j)
      PROVE  JobsKept
  BY <1>1, CheckKeepsJobs, PatchKeepsJobs, QueueKeepsJobs DEF Request
<1>2. ASSUME NEW j \in Jobs, Step(j)
      PROVE  JobsKept
  <2>1. CASE InsertNew(j)
    BY <2>1, InsertKeepsJobs
  <2>2. CASE Ask(j)
    BY <2>2, AskKeepsJobs
  <2>3. CASE AskInVain(j)
    BY <2>3, EndKeepsJobs DEF AskInVain
  <2>4. CASE LoadRow(j)
    BY <2>4, LoadKeepsJobs
  <2>5. CASE CommitRow(j)
    BY <2>5, EndKeepsJobs DEF CommitRow
  <2>6. CASE Acknowledge(j)
    BY <2>6, EndKeepsJobs DEF Acknowledge
  <2> QED  BY <1>2, <2>1, <2>2, <2>3, <2>4, <2>5, <2>6 DEF Step
<1>3. ASSUME NEW j \in Jobs, CrashWorker(j)
      PROVE  JobsKept
  <2>1. End(j, "queued") /\ job[j].stage # "free"
    BY <1>3 DEF CrashWorker, Redelivered, Running, End
  <2> QED  BY <2>1, EndKeepsJobs
<1>4. CASE CrashApi
  BY <1>4, CrashKeepsJobs
<1>5. CASE job' = job
  BY <1>5, SameJobs
<1> QED  BY <1>1, <1>2, <1>3, <1>4, <1>5 DEF Next, vars, UpdateTms

-----------------------------------------------------------------------------
(* The theorems.                                                           *)

LEMMA SoundInit == Init => Sound
<1> SUFFICES ASSUME Init PROVE Sound
  OBVIOUS
<1>1. \A t \in Tins : row[t] # NONE => t \in Existing /\ row[t] = Records[t][1]
  BY DEF Init
<1>2. Typed
  <2>1. row \in [Tins -> Profiles \cup {NONE}]
    BY ExistingAssumption DEF Init
  <2>2. version \in [Tins -> Versions] /\ \A t \in Tins : version[t] \in DOMAIN Records[t]
    BY RecordAssumption DEF Init, Versions
  <2> QED  BY <2>1, <2>2, FreeType DEF Init, Typed
<1>3. VatUnique
  BY <1>1, ExistingAssumption DEF VatUnique, Registered
<1>4. \A j \in Jobs : Relies(job[j])
  BY FreeType DEF Init, Relies, Bare, OneValueEach
<1> QED  BY <1>2, <1>3, <1>4, FreeType DEF Init, Sound, CreatedOnce

LEMMA SoundNext == Sound /\ [Next]_vars => Sound'
<1> SUFFICES ASSUME Sound, [Next]_vars PROVE Sound'
  OBVIOUS
<1>1. TableKept
  BY StepKeepsTable
<1>2. JobsKept
  BY <1>1, StepKeepsJobs
<1>3. /\ version' \in [Tins -> Versions]
      /\ \A t \in Tins : version'[t] \in DOMAIN Records[t]
  <2>1. ASSUME NEW t \in Tins, UpdateTms(t)
        PROVE  /\ version' \in [Tins -> Versions]
               /\ \A u \in Tins : version'[u] \in DOMAIN Records[u]
    BY <2>1 DEF UpdateTms, Sound, Typed, Versions
  <2>2. CASE version' = version
    BY <2>2 DEF Sound, Typed
  <2> QED
    BY <2>1, <2>2 DEF Next, Request, Step, vars, CheckNew, LoadPatch, QueueSync, InsertNew,
       Ask, AskInVain, LoadRow, CommitRow, Acknowledge, CrashWorker, CrashApi
<1> QED  BY <1>1, <1>2, <1>3 DEF Sound, Typed, TableKept, JobsKept

\* However the checks and inserts of create_taxpayer and the commits of
\* synchronisations interleave: one request registers a TIN, and no two
\* taxpayers ever have the same VAT number.
THEOREM RegistrationIsUnique == Spec => []RegisteredOnce
<1>1. Sound => RegisteredOnce
  BY DEF Sound, VatUnique, CreatedOnce, RegisteredOnce
<1> QED  BY <1>1, SoundInit, SoundNext, PTL DEF Spec

\* A synchronisation or a PATCH commits all that it has to write, or none
\* of it: when sync_taxpayer's commit is refused for the VAT number, no other
\* column of the answer is kept.
THEOREM SyncIsAtomic == Spec => SyncAllOrNothing
<1>1. ASSUME Sound, Next, NEW j \in Jobs, NEW t \in Registered, Open(j, t),
             job'[j].stage \in {"synced", "unacknowledged", "error"}
      PROVE  row'[t] = row[t] \/ \A x \in job[j].changes : row'[t][x[1]] = x[2]
  <2> DEFINE new == Written(row[t], job[j].changes)
  <2>1. CASE CommitRow(j)
    <3>1. /\ OneValueEach(job[j].changes) /\ job[j].changes \subseteq Columns \X Values
          /\ t \in Tins /\ t = job[j].tin
      BY <1>1, RowIsProfile DEF Sound, Typed, JobRecord, Relies, Open
    <3>2. row'[t] \in {new, row[t]}
      BY <2>1, <3>1 DEF CommitRow, Committed, Sound, Typed
    <3>3. ASSUME NEW x \in job[j].changes
          PROVE  new[x[1]] = x[2]
      <4>1. x[1] \in Columns
        BY <3>1
      <4>2. (CHOOSE y \in job[j].changes : y[1] = x[1]) = x
        BY <3>1 DEF OneValueEach
      <4> QED  BY <4>1, <4>2 DEF Written
    <3> HIDE DEF new
    <3> QED  BY <3>2, <3>3
  <2>2. CASE row' = row
    BY <2>2
  <2>3. CASE \E k \in Jobs : InsertNew(k)
    <3>1. PICK k \in Jobs : InsertNew(k)
      BY <2>3
    <3>2. CASE Insertable(job[k].tin, job[k].body)
      <4>1. job[k].tin # t
        BY <3>2 DEF Insertable, Conflicts
      <4>2. row' = [row EXCEPT ![job[k].tin] = job[k].body]
        BY <3>1, <3>2 DEF InsertNew
      <4>3. t \in Tins
        BY DEF Registered
      <4>4. row'[t] = row[t]
        BY <1>1, <4>1, <4>2, <4>3 DEF Sound, Typed
      <4> QED  BY <4>4
    <3>3. CASE ~Insertable(job[k].tin, job[k].body)
      BY <3>1, <3>3 DEF InsertNew
    <3> QED  BY <3>2, <3>3
  <2>4. CASE \E k \in Jobs \ {j} : CommitRow(k)
    <3>1. PICK k \in Jobs \ {j}, stage \in Stages : End(k, stage)
      BY <2>4 DEF CommitRow, Stages
    <3>2. job'[j] = job[j]
      BY <3>1 DEF End, Sound, Typed
    <3> QED  BY <1>1, <3>2 DEF Open
  <2> QED
    BY <1>1, <2>1, <2>2, <2>3, <2>4 DEF Next, Request, Step, CheckNew, LoadPatch, QueueSync,
       Ask, AskInVain, LoadRow, Acknowledge, CrashWorker, CrashApi, UpdateTms
<1>2. Sound /\ [Next]_vars =>
        [\A j \in Jobs, t \in Registered :
            Open(j, t) /\ job'[j].stage \in {"synced", "unacknowledged", "error"} =>
                \/ row'[t] = row[t]
                \/ \A x \in job[j].changes : row'[t][x[1]] = x[2]]_vars
  BY <1>1
<1> QED  BY <1>2, SoundInit, SoundNext, PTL
   DEF Spec, SyncAllOrNothing

-----------------------------------------------------------------------------
(* Sessions that do not overlap.                                           *)

Opens == {"answered", "loaded"}

\* Records are numbered as they come, and no commit or answer is ahead.
Numbered ==
    /\ version \in [Tins -> Nat] /\ upTo \in [Tins -> Nat] /\ DOMAIN replayed = Tins
    /\ \A t \in Tins : upTo[t] <= version[t]
    /\ \A j \in Jobs :
          /\ job[j].of \in Nat
          /\ job[j].stage \in Opens => job[j].of <= version[job[j].tin]
          /\ job[j].stage = "loaded" => job[j].body \in Answers \cup Payloads

\* While sessions of t did not overlap, one is open at most; its changes are
\* those from the current row, and its answer is no older than the last one
\* that a commit held.
Current(t) ==
    \A j \in Jobs : Open(j, t) =>
        /\ \A k \in Jobs \ {j} : ~Open(k, t)
        /\ job[j].kind # "patch" => job[j].of >= upTo[t]
        /\ job[j].stage = "loaded" => job[j].changes = Changes(row[t], job[j].body)

Replayed(t) == t \in Registered => row[t] = replayed[t]

Serial == Numbered /\ \A t \in Tins \ overlapped : Current(t) /\ Replayed(t)

\* The changes from a row to a body, written to that row, lay the body over it.
LEMMA WritesBody ==
    ASSUME NEW old \in Profiles, NEW body, DOMAIN body \subseteq Columns
    PROVE  Written(old, Changes(old, body)) = Overlaid(old, body)
<1> DEFINE changes == Changes(old, body)
<1>1. ASSUME NEW c \in Columns
      PROVE  (IF \E x \in changes : x[1] = c
              THEN (CHOOSE x \in changes : x[1] = c)[2] ELSE old[c])
             = (IF c \in DOMAIN body /\ body[c] # NONE THEN body[c] ELSE old[c])
  <2>1. CASE c \in Keys(body) /\ body[c] # old[c]
    <3>1. <<c, body[c]>> \in changes
      BY <2>1 DEF Changes
    <3>2. \A x \in changes : x[1] = c => x = <<c, body[c]>>
      BY DEF Changes
    <3>3. (CHOOSE x \in changes : x[1] = c) = <<c, body[c]>>
      BY <3>1, <3>2
    <3> HIDE DEF changes
    <3>4. (\E x \in changes : x[1] = c) /\ (CHOOSE x \in changes : x[1] = c)[2] = body[c]
      <4>1. <<c, body[c]>>[1] = c /\ <<c, body[c]>>[2] = body[c]
        OBVIOUS
      <4> QED  BY <3>1, <3>3, <4>1
    <3>5. c \in DOMAIN body /\ body[c] # NONE
      BY <2>1 DEF Keys
    <3> QED  BY <3>4, <3>5
  <2>2. CASE ~(c \in Keys(body) /\ body[c] # old[c])
    <3>1. \A x \in changes : x[1] # c
      BY <2>2 DEF Changes
    <3> HIDE DEF changes
    <3> QED  BY <2>2, <3>1 DEF Keys
  <2> QED  BY <2>1, <2>2
<1> QED  BY <1>1 DEF Written, Overlaid

LEMMA NoBodyOutside ==
    ASSUME Numbered, NEW j \in Jobs, job[j].stage = "loaded"
    PROVE  DOMAIN job[j].body \subseteq Columns
BY PayloadBody DEF Numbered, Answers

\* A step that writes nothing and opens no session.
LEMMA StillSerial ==
    ASSUME Serial, UNCHANGED <<row, upTo, replayed, overlapped>>,
           version' \in [Tins -> Nat], \A t \in Tins : version[t] <= version'[t],
           \A k \in Jobs : \/ job'[k] = job[k]
                           \/ job'[k].stage \notin Opens /\ job'[k].of \in Nat,
           \A k \in Jobs : job[k].stage \in Opens => job[k].tin \in Tins
    PROVE  Serial'
<1>1. Numbered'
  <2>1. \A t \in Tins : upTo'[t] <= version'[t]
    BY DEF Serial, Numbered
  <2>2. \A j \in Jobs :
          /\ job'[j].of \in Nat
          /\ job'[j].stage \in Opens => job'[j].of <= version'[job'[j].tin]
          /\ job'[j].stage = "loaded" => job'[j].body \in Answers \cup Payloads
    BY DEF Serial, Numbered, Opens
  <2> QED  BY <2>1, <2>2 DEF Serial, Numbered, Answers
<1>2. ASSUME NEW t \in Tins \ overlapped  PROVE Current(t)' /\ Replayed(t)'
  <2>1. Current(t) /\ Replayed(t)
    BY DEF Serial
  <2>2. \A k \in Jobs : Open(k, t)' => Open(k, t) /\ job'[k] = job[k]
    BY DEF Open, Opens
  <2>3. Current(t)'
    BY <2>1, <2>2 DEF Current, Changes, Keys
  <2> QED  BY <2>1, <2>3 DEF Replayed, Registered
<1> QED  BY <1>1, <1>2 DEF Serial

\* A session is opened, or reads the row after its answer.
LEMMA OpenedSerial ==
    ASSUME Sound, Serial, NEW j \in Jobs, NEW t \in Tins, NEW r,
           job' = [job EXCEPT ![j] = r], UNCHANGED <<row, version, upTo, replayed>>,
           r.tin = t, r.of \in Nat, r.of <= version[t],
           t \notin overlapped' /\ r.kind # "patch" => r.of >= upTo[t],
           r.stage = "loaded" => /\ r.changes = Changes(row[t], r.body)
                                 /\ r.body \in Answers \cup Payloads,
           Overlap(j, t) \/ (Open(j, t) /\ overlapped' = overlapped)
    PROVE  Serial'
<1>1. job'[j] = r /\ \A k \in Jobs \ {j} : job'[k] = job[k]
  BY DEF Sound, Typed
<1>2. Numbered'
  BY <1>1 DEF Serial, Numbered, Answers
<1>3. /\ \A u \in Tins : u \notin overlapped' => u \notin overlapped
      /\ t \notin overlapped' => \A k \in Jobs \ {j} : ~Open(k, t)
  BY DEF Overlap, Serial, Current
<1>4. ASSUME NEW u \in Tins, u \notin overlapped'  PROVE Current(u)' /\ Replayed(u)'
  <2>1. Current(u) /\ Replayed(u)
    BY <1>3, <1>4 DEF Serial
  <2>2. \A k \in Jobs \ {j} : Open(k, u)' <=> Open(k, u)
    BY <1>1 DEF Open
  <2>3. Replayed(u)'
    BY <2>1 DEF Replayed, Registered
  <2>4. CASE u = t
    BY <1>1, <1>3, <1>4, <2>2, <2>3, <2>4 DEF Current, Open, Changes, Keys
  <2>5. CASE u # t
    <3>1. ~Open(j, u)'
      BY <1>1, <2>5 DEF Open
    <3> QED  BY <1>1, <2>1, <2>2, <2>3, <3>1 DEF Current, Changes, Keys
  <2> QED  BY <2>4, <2>5
<1> QED  BY <1>2, <1>4 DEF Serial

\* A job that is done holds no answer any more.
LEMMA EndsIdle ==
    ASSUME Sound, NEW j \in Jobs, NEW stage, End(j, stage)
    PROVE  /\ \A k \in Jobs \ {j} : job'[k] = job[k]
           /\ job'[j].stage = stage /\ job'[j].of = 0
<1>1. job \in [Jobs -> JobRecord]
  BY DEF Sound, Typed
<1>2. job' = [job EXCEPT ![j] = At(j, stage)]
  BY DEF End
<1>3. At(j, stage).stage = stage /\ At(j, stage).of = 0
  BY DEF At, Free
<1> HIDE DEF At
<1> QED  BY <1>1, <1>2, <1>3

LEMMA InsertSerial ==
    ASSUME Sound, Serial, NEW j \in Jobs, InsertNew(j)
    PROVE  Serial'
<1> DEFINE t == job[j].tin
           p == job[j].body
<1>0. \A k \in Jobs : /\ job[k].stage \in Opens => job[k].tin \in Tins
                      /\ job[k].stage = "loaded" => job[k].tin \in Registered
  BY DEF Sound, Relies, Opens
<1>1. t \in Tins /\ p \in Profiles
  BY DEF Sound, Relies, InsertNew
<1>2. /\ \A k \in Jobs \ {j} : job'[k] = job[k]
      /\ job'[j].stage \notin Opens /\ job'[j].of = 0
  <2>1. PICK stage \in {"created", "error"} : End(j, stage)
    BY DEF InsertNew
  <2> QED  BY <2>1, EndsIdle DEF Opens
<1>3. CASE ~Insertable(t, p)
  BY <1>0, <1>2, <1>3, StillSerial DEF InsertNew, Serial, Numbered
<1>4. CASE Insertable(t, p)
  <2>1. /\ row' = [row EXCEPT ![t] = p] /\ replayed' = [replayed EXCEPT ![t] = p]
        /\ UNCHANGED <<version, upTo, overlapped>>
    BY <1>4 DEF InsertNew
  <2>2. t \notin Registered
    BY <1>4 DEF Insertable, Conflicts
  <2>3. /\ row'[t] = p /\ replayed'[t] = p
        /\ \A u \in Tins \ {t} : row'[u] = row[u] /\ replayed'[u] = replayed[u]
    BY <1>1, <2>1 DEF Sound, Typed, Serial, Numbered
  <2>4. Numbered'
    BY <1>2, <2>1 DEF Serial, Numbered, Answers, Opens
  <2>5. ASSUME NEW u \in Tins \ overlapped  PROVE Current(u)' /\ Replayed(u)'
    <3>1. Current(u) /\ Replayed(u)
      BY DEF Serial
    <3>2. \A k \in Jobs : Open(k, u)' => Open(k, u) /\ job'[k] = job[k]
      BY <1>2 DEF Open, Opens
    <3>3. \A k \in Jobs : Open(k, u) /\ job[k].stage = "loaded" => row'[u] = row[u]
      BY <1>0, <2>2, <2>3 DEF Open
    <3>4. Current(u)'
      BY <2>1, <3>1, <3>2, <3>3 DEF Current, Changes, Keys
    <3>5. Replayed(u)'
      BY <2>3, <3>1 DEF Replayed, Registered
    <3> QED  BY <3>4, <3>5
  <2> QED  BY <2>1, <2>4, <2>5 DEF Serial
<1> QED  BY <1>3, <1>4

LEMMA MaxOfTwo ==
    ASSUME NEW m \in Nat, NEW n \in Nat
    PROVE  Max({m, n}) \in {m, n}
<1> DEFINE S == {m, n}
           x == IF m <= n THEN n ELSE m
<1>1. x \in S /\ \A y \in S : x >= y
  OBVIOUS
<1>2. Max(S) \in S
  BY <1>1 DEF Max
<1> QED  BY <1>2

\* The commit of a session that was alone on the row lays its body over it.
LEMMA CommitSerial ==
    ASSUME Sound, Serial, NEW j \in Jobs, CommitRow(j)
    PROVE  Serial'
<1> DEFINE t == job[j].tin
           new == Written(row[t], job[j].changes)
           fits == Fits(t, new)
           newest == job[j].kind = "patch" \/ job[j].of >= upTo[t]
<1>1. t \in Tins /\ t \in Registered /\ row[t] \in Profiles /\ job[j].of \in Nat
  BY RowIsProfile DEF Sound, Relies, CommitRow, Serial, Numbered
<1>2. /\ \A k \in Jobs \ {j} : job'[k] = job[k]
      /\ job'[j].stage \notin Opens /\ job'[j].of = 0
      /\ UNCHANGED <<version, overlapped>>
  <2>1. PICK stage \in {"error", "unacknowledged", "synced"} : End(j, stage)
    BY DEF CommitRow
  <2>2. UNCHANGED <<version, overlapped>>
    BY DEF CommitRow
  <2> QED  BY <2>1, <2>2, EndsIdle DEF Opens
<1>3. /\ row' = [row EXCEPT ![t] = IF fits THEN new ELSE row[t]]
      /\ replayed' = IF fits /\ newest
                     THEN [replayed EXCEPT ![t] = Overlaid(replayed[t], job[j].body)]
                     ELSE replayed
      /\ upTo' = IF fits THEN [upTo EXCEPT ![t] = Max({upTo[t], job[j].of})] ELSE upTo
  BY DEF CommitRow, Committed
<1> HIDE DEF fits, newest
<1>4. Numbered'
  <2>1. upTo[t] \in Nat /\ Max({upTo[t], job[j].of}) \in {upTo[t], job[j].of}
    BY <1>1, MaxOfTwo DEF Serial, Numbered
  <2>2. job[j].of <= version[t]
    BY DEF CommitRow, Serial, Numbered, Opens
  <2>3. upTo' \in [Tins -> Nat] /\ \A u \in Tins : upTo'[u] <= version[u]
    BY <1>1, <1>3, <2>1, <2>2 DEF Serial, Numbered
  <2>4. DOMAIN replayed' = Tins
    BY <1>3 DEF Serial, Numbered
  <2> QED  BY <1>2, <2>3, <2>4 DEF Serial, Numbered, Answers, Opens
<1>5. ASSUME NEW u \in Tins \ overlapped  PROVE Current(u)' /\ Replayed(u)'
  <2>1. Current(u) /\ Replayed(u)
    BY DEF Serial
  <2>2. \A k \in Jobs : Open(k, u)' => Open(k, u) /\ job'[k] = job[k] /\ k # j
    BY <1>2 DEF Open, Opens
  <2>3. CASE u # t
    <3>1. row'[u] = row[u] /\ replayed'[u] = replayed[u] /\ upTo'[u] = upTo[u]
      BY <1>1, <1>3, <2>3 DEF Sound, Typed, Serial, Numbered
    <3>2. Current(u)'
      BY <2>1, <2>2, <3>1 DEF Current, Changes, Keys
    <3> QED  BY <2>1, <3>1, <3>2 DEF Replayed, Registered
  <2>4. CASE u = t
    <3>1. Open(j, u)
      BY <2>4 DEF Open, CommitRow
    <3>2. \A k \in Jobs : ~Open(k, u)'
      BY <2>1, <2>2, <3>1 DEF Current
    <3>3. newest /\ job[j].changes = Changes(row[u], job[j].body)
      BY <2>1, <2>4, <3>1 DEF Current, CommitRow, newest
    <3>4. new = Overlaid(row[u], job[j].body)
      BY <1>1, <2>4, <3>3, WritesBody, NoBodyOutside DEF CommitRow, Serial
    <3>5. row[u] = replayed[u]
      BY <1>1, <2>1, <2>4 DEF Replayed
    <3> HIDE DEF new
    <3>6. row'[u] = replayed'[u]
      BY <1>1, <1>3, <2>4, <3>3, <3>4, <3>5 DEF Sound, Typed, Serial, Numbered
    <3> QED  BY <3>2, <3>6 DEF Current, Replayed
  <2> QED  BY <2>3, <2>4
<1> QED  BY <1>2, <1>4, <1>5 DEF Serial

LEMMA StepSerial == Sound /\ Serial /\ [Next]_vars => Serial'
<1> SUFFICES ASSUME Sound, Serial, [Next]_vars PROVE Serial'
  OBVIOUS
<1>0. /\ \A k \in Jobs : job[k].stage \in Opens => job[k].tin \in Tins
      /\ version \in [Tins -> Nat] /\ \A t \in Tins : version[t] <= version[t]
  BY DEF Sound, Relies, Opens, Serial, Numbered
<1>e. ASSUME NEW j \in Jobs, NEW stage, End(j, stage), stage \notin Opens,
             UNCHANGED <<row, version, upTo, replayed, overlapped>>
      PROVE  Serial'
  <2>1. \A k \in Jobs : job'[k] = job[k] \/ (job'[k].stage \notin Opens /\ job'[k].of \in Nat)
    BY <1>e DEF End, At, Free, Sound, Typed
  <2> QED  BY <1>0, <1>e, <2>1, StillSerial
<1>1. ASSUME NEW j \in Jobs, Request(j)  PROVE Serial'
  <2>1. ASSUME NEW t \in Tins, NEW p \in Payloads, CheckNew(j, t, p)  PROVE Serial'
    <3>1. job'[j].stage \notin Opens /\ job'[j].of = 0
          /\ \A k \in Jobs \ {j} : job'[k] = job[k]
      BY <2>1 DEF CheckNew, Free, Opens, Sound, Typed
    <3>2. UNCHANGED <<row, upTo, replayed, overlapped>> /\ version' = version
      BY <2>1 DEF CheckNew, history
    <3>3. \A k \in Jobs : \/ job'[k] = job[k]
                          \/ job'[k].stage \notin Opens /\ job'[k].of \in Nat
      BY <3>1
    <3> QED  BY <1>0, <3>2, <3>3, StillSerial
  <2>2. ASSUME NEW t \in Tins, NEW p \in Payloads, LoadPatch(j, t, p)  PROVE Serial'
    <3> DEFINE r == [Free EXCEPT !.kind = "patch", !.tin = t, !.body = p,
                                 !.stage = "loaded", !.changes = Changes(row[t], p)]
    <3>1. /\ r.tin = t /\ r.of = 0 /\ r.kind = "patch" /\ r.stage = "loaded"
          /\ r.changes = Changes(row[t], p) /\ r.body = p
      BY DEF Free
    <3>2. job' = [job EXCEPT ![j] = r] /\ Overlap(j, t)
          /\ UNCHANGED <<row, version, upTo, replayed>>
      BY <2>2 DEF LoadPatch
    <3>3. 0 <= version[t]
      BY DEF Serial, Numbered
    <3> HIDE DEF r
    <3>4. r.of \in Nat /\ r.of <= version[t] /\ r.body \in Answers \cup Payloads
      BY <3>1, <3>3
    <3> QED  BY <3>1, <3>2, <3>4, OpenedSerial
  <2>3. ASSUME NEW t \in Tins, NEW kind \in Syncs, QueueSync(j, t, kind)  PROVE Serial'
    <3>1. job'[j].stage \notin Opens /\ job'[j].of = 0
          /\ \A k \in Jobs \ {j} : job'[k] = job[k]
      BY <2>3 DEF QueueSync, Free, Opens, Sound, Typed
    <3> QED  BY <1>0, <2>3, <3>1, StillSerial DEF QueueSync, history
  <2> QED  BY <1>1, <2>1, <2>2, <2>3 DEF Request
<1>2. ASSUME NEW j \in Jobs, Step(j)  PROVE Serial'
  <2> DEFINE t == job[j].tin
  <2>1. CASE InsertNew(j)
    BY <2>1, InsertSerial
  <2>2. CASE Ask(j)
    <3> DEFINE r == [job[j] EXCEPT !.stage = "answered", !.body = Records[t][version[t]],
                                   !.of = version[t]]
    <3>1. job[j] \in JobRecord /\ t \in Tins
      BY <2>2 DEF Ask, Sound, Typed, Relies
    <3>2. job' = [job EXCEPT ![j] = r] /\ Overlap(j, t)
          /\ UNCHANGED <<row, version, upTo, replayed>>
      BY <2>2, <3>1 DEF Ask, JobRecord, Sound, Typed
    <3>3. r.tin = t /\ r.of = version[t] /\ r.stage = "answered"
      BY <3>1 DEF JobRecord
    <3>4. version[t] \in Nat /\ version[t] <= version[t] /\ version[t] >= upTo[t]
      BY <3>1 DEF Serial, Numbered
    <3> HIDE DEF r
    <3> QED  BY <3>1, <3>2, <3>3, <3>4, OpenedSerial
  <2>3. CASE AskInVain(j)
    BY <1>e, <2>3 DEF AskInVain, Opens, history
  <2>4. CASE LoadRow(j)
    <3>1. job[j] \in JobRecord /\ t \in Tins /\ job[j].body \in Answers /\ Open(j, t)
      BY <2>4 DEF LoadRow, Sound, Typed, Relies, Open
    <3>2. CASE t \in Registered
      <4> DEFINE r == [job[j] EXCEPT !.stage = "loaded", !.changes = Changes(row[t], job[j].body)]
      <4>1. job' = [job EXCEPT ![j] = r]
        BY <2>4, <3>1, <3>2 DEF LoadRow, JobRecord, Sound, Typed
      <4>2. /\ r.tin = t /\ r.of = job[j].of /\ r.kind = job[j].kind
            /\ r.changes = Changes(row[t], r.body) /\ r.body = job[j].body
        BY <3>1 DEF JobRecord
      <4>3. /\ job[j].of \in Nat /\ job[j].of <= version[t]
            /\ t \notin overlapped /\ job[j].kind # "patch" => job[j].of >= upTo[t]
        BY <2>4, <3>1 DEF LoadRow, Opens, Serial, Numbered, Current
      <4>4. UNCHANGED <<row, version, upTo, replayed, overlapped>>
        BY <2>4 DEF LoadRow, history
      <4> HIDE DEF r
      <4> QED  BY <3>1, <4>1, <4>2, <4>3, <4>4, OpenedSerial
    <3>3. CASE t \notin Registered
      BY <1>e, <2>4, <3>3 DEF LoadRow, Opens, history
    <3> QED  BY <3>2, <3>3
  <2>5. CASE CommitRow(j)
    BY <2>5, CommitSerial
  <2>6. CASE Acknowledge(j)
    BY <1>e, <2>6 DEF Acknowledge, Opens, history
  <2> QED  BY <1>2, <2>1, <2>2, <2>3, <2>4, <2>5, <2>6 DEF Step
<1>3. ASSUME NEW j \in Jobs, CrashWorker(j)  PROVE Serial'
  <2>1. End(j, "queued") /\ "queued" \notin Opens
    BY <1>3 DEF CrashWorker, Redelivered, End, Opens
  <2>2. UNCHANGED <<row, version, upTo, replayed, overlapped>>
    BY <1>3 DEF CrashWorker, history
  <2> QED  BY <1>e, <2>1, <2>2
<1>4. CASE CrashApi
  <2>1. \A k \in Jobs : job'[k] = job[k] \/ (job'[k].stage \notin Opens /\ job'[k].of \in Nat)
    BY <1>4 DEF CrashApi, At, Free, Opens
  <2> QED  BY <1>0, <1>4, <2>1, StillSerial DEF CrashApi, history
<1>5. ASSUME NEW t \in Tins, UpdateTms(t)  PROVE Serial'
  <2>1. version' \in [Tins -> Nat] /\ \A u \in Tins : version[u] <= version'[u]
    BY <1>0, <1>5 DEF UpdateTms
  <2> QED  BY <1>0, <1>5, <2>1, StillSerial DEF UpdateTms, history
<1>6. CASE UNCHANGED vars
  BY <1>0, <1>6, StillSerial DEF vars
<1> QED  BY <1>1, <1>2, <1>3, <1>4, <1>5, <1>6 DEF Next

LEMMA InitSerial == Init => Serial
<1> SUFFICES ASSUME Init PROVE Serial
  OBVIOUS
<1>1. \A j \in Jobs : job[j].of = 0 /\ job[j].stage = "free"
  BY FreeType DEF Init
<1>2. Numbered
  BY <1>1 DEF Init, Numbered, Opens
<1>3. \A t \in Tins : Current(t) /\ Replayed(t)
  BY <1>1 DEF Init, Current, Open, Replayed
<1> QED  BY <1>2, <1>3 DEF Serial

\* While sessions of a taxpayer never overlapped, its profile is the one that
\* they give one by one: a session that is alone writes from the current row,
\* and its answer is not older than what was committed before.
THEOREM AloneIsSerial == Spec => []SerialAlone
<1>1. Serial => SerialAlone
  BY DEF Serial, Replayed, SerialAlone, Registered
<1> QED  BY <1>1, SoundInit, SoundNext, InitSerial, StepSerial, PTL DEF Spec

-----------------------------------------------------------------------------
(* The types, those of the history included.                               *)

\* A job that has not started is the empty one, and only one that has read
\* its row has changes.
Tidy(r) == (r.stage = "free" => r = Free) /\ (r.changes # {} => r.stage = "loaded")

\* The replay knows every taxpayer that is registered.
Recorded ==
    /\ replayed \in [Tins -> Profiles \cup {NONE}]
    /\ \A t \in Registered : replayed[t] \in Profiles
    /\ overlapped \subseteq Tins
    /\ \A j \in Jobs : Tidy(job[j])

\* A body laid over a profile is a profile.
LEMMA OverlaidIsProfile ==
    ASSUME NEW old \in Profiles, NEW body \in Answers \cup Payloads
    PROVE  Overlaid(old, body) \in Profiles
<1>1. \A c \in DOMAIN body : body[c] # NONE => body[c] \in Values
  BY PayloadBody DEF Answers
<1>2. \A c \in Columns : old[c] \in Values
  BY DEF Profiles
<1> QED  BY <1>1, <1>2 DEF Overlaid, Profiles

\* A job that starts, goes on or ends is tidy.
LEMMA JobsTidy ==
    ASSUME Sound, Recorded, [Next]_vars
    PROVE  \A j \in Jobs : Tidy(job[j])'
<1> DEFINE Kept == \A k \in Jobs : Tidy(job'[k])
<1>1. ASSUME NEW j \in Jobs, NEW r, Tidy(r), job' = [job EXCEPT ![j] = r]
      PROVE  Kept
  BY <1>1 DEF Recorded, Sound, Typed
<1>2. ASSUME NEW j \in Jobs, NEW stage \in Stages \ {"free"}, End(j, stage)
      PROVE  Kept
  <2>1. Tidy(At(j, stage))
    BY <1>2, AtType DEF Bare, Tidy
  <2> QED  BY <1>1, <1>2, <2>1 DEF End
<1>3. ASSUME NEW j \in Jobs, NEW t \in Tins, NEW p \in Payloads, CheckNew(j, t, p)
      PROVE  Kept
  <2> DEFINE stage == CASE Conflicts(t, p) = {} -> "checked"
                        [] Cardinality(Conflicts(t, p)) = 1 -> "conflict"
                        [] OTHER -> "error"
             body == IF Conflicts(t, p) = {} THEN p ELSE NONE
             r == [Free EXCEPT !.kind = "create", !.tin = t, !.stage = stage, !.body = body]
  <2>1. stage # "free"
    OBVIOUS
  <2>2. job' = [job EXCEPT ![j] = r]
    BY <1>3 DEF CheckNew
  <2> HIDE DEF stage, body
  <2>3. r.stage = stage /\ r.changes = {}
    BY DEF Free
  <2> HIDE DEF r
  <2> QED  BY <1>1, <2>1, <2>2, <2>3 DEF Tidy
<1>4. ASSUME NEW j \in Jobs, NEW t \in Tins, NEW p \in Payloads, LoadPatch(j, t, p)
      PROVE  Kept
  <2> DEFINE r == [Free EXCEPT !.kind = "patch", !.tin = t, !.body = p,
                               !.stage = "loaded", !.changes = Changes(row[t], p)]
  <2>1. job' = [job EXCEPT ![j] = r]
    BY <1>4 DEF LoadPatch
  <2>2. r.stage = "loaded"
    BY DEF Free
  <2> HIDE DEF r
  <2> QED  BY <1>1, <2>1, <2>2 DEF Tidy
<1>5. ASSUME NEW j \in Jobs, NEW t \in Tins, NEW kind \in Syncs, QueueSync(j, t, kind)
      PROVE  Kept
  <2> DEFINE r == [Free EXCEPT !.kind = kind, !.tin = t, !.stage = "queued"]
  <2>1. job' = [job EXCEPT ![j] = r]
    BY <1>5 DEF QueueSync
  <2>2. r.stage = "queued" /\ r.changes = {}
    BY DEF Free
  <2> HIDE DEF r
  <2> QED  BY <1>1, <2>1, <2>2 DEF Tidy
<1>6. ASSUME NEW j \in Jobs, Ask(j)
      PROVE  Kept
  <2> DEFINE t == job[j].tin
             r == [job[j] EXCEPT !.stage = "answered", !.body = Records[t][version[t]],
                                 !.of = version[t]]
  <2>1. job[j] \in JobRecord /\ Tidy(job[j]) /\ job[j].stage = "queued"
    BY <1>6 DEF Sound, Typed, Recorded, Ask
  <2>2. job' = [job EXCEPT ![j] = r]
    BY <1>6, <2>1 DEF Ask, JobRecord, Sound, Typed
  <2>3. r.stage = "answered" /\ r.changes = job[j].changes
    BY <2>1 DEF JobRecord
  <2>4. job[j].changes = {}
    BY <2>1 DEF Tidy
  <2> HIDE DEF r
  <2> QED  BY <1>1, <2>2, <2>3, <2>4 DEF Tidy
<1>7. ASSUME NEW j \in Jobs, LoadRow(j)
      PROVE  Kept
  <2> DEFINE t == job[j].tin
             r == [job[j] EXCEPT !.stage = "loaded", !.changes = Changes(row[t], job[j].body)]
  <2>1. job[j] \in JobRecord
    BY DEF Sound, Typed
  <2>2. CASE t \in Registered
    <3>1. job' = [job EXCEPT ![j] = r]
      BY <1>7, <2>1, <2>2 DEF LoadRow, JobRecord, Sound, Typed
    <3>2. r.stage = "loaded"
      BY <2>1 DEF JobRecord
    <3> HIDE DEF r
    <3> QED  BY <1>1, <3>1, <3>2 DEF Tidy
  <2>3. CASE t \notin Registered
    BY <1>2, <1>7, <2>3 DEF LoadRow, Stages
  <2> QED  BY <2>2, <2>3
<1>8. ASSUME NEW j \in Jobs,
             InsertNew(j) \/ AskInVain(j) \/ CommitRow(j) \/ Acknowledge(j) \/ CrashWorker(j)
      PROVE  Kept
  <2>1. PICK stage \in {"created", "error", "sync_failed", "unacknowledged", "synced", "queued"} :
           End(j, stage)
    BY <1>8 DEF InsertNew, AskInVain, CommitRow, Acknowledge, CrashWorker, Redelivered, End
  <2> QED  BY <1>2, <2>1 DEF Stages
<1>9. CASE CrashApi
  <2>1. \A k \in Jobs : Tidy(At(k, "lost"))
    BY AtType DEF Bare, Tidy, Stages
  <2> QED  BY <1>9, <2>1 DEF CrashApi, Recorded
<1>10. CASE job' = job
  BY <1>10 DEF Recorded
<1> QED
  BY <1>3, <1>4, <1>5, <1>6, <1>7, <1>8, <1>9, <1>10 DEF Next, Request, Step, vars, UpdateTms

\* A commit or an insert replays what it writes; other steps replay nothing
\* and register nobody.
LEMMA StepRecorded == Sound /\ Serial /\ Recorded /\ [Next]_vars => Recorded'
<1> SUFFICES ASSUME Sound, Serial, Recorded, [Next]_vars PROVE Recorded'
  OBVIOUS
<1> DEFINE Kept == /\ replayed' \in [Tins -> Profiles \cup {NONE}]
                   /\ \A t \in Registered' : replayed'[t] \in Profiles
<1>1. ASSUME NEW j \in Jobs, InsertNew(j)
      PROVE  Kept
  <2> DEFINE t == job[j].tin
             p == job[j].body
  <2>1. t \in Tins /\ p \in Profiles
    BY <1>1 DEF Sound, Relies, InsertNew
  <2>2. \/ row' = row /\ replayed' = replayed
        \/ row' = [row EXCEPT ![t] = p] /\ replayed' = [replayed EXCEPT ![t] = p]
    BY <1>1 DEF InsertNew
  <2> QED  BY <2>1, <2>2 DEF Recorded, Registered, Sound, Typed
<1>2. ASSUME NEW j \in Jobs, CommitRow(j)
      PROVE  Kept
  <2> DEFINE t == job[j].tin
  <2>1. t \in Registered /\ t \in Tins /\ replayed[t] \in Profiles
    BY <1>2, RowIsProfile DEF Sound, Relies, CommitRow, Recorded
  <2>2. job[j].body \in Answers \cup Payloads
    BY <1>2 DEF CommitRow, Serial, Numbered
  <2>3. Overlaid(replayed[t], job[j].body) \in Profiles
    BY <2>1, <2>2, OverlaidIsProfile
  <2>4. \/ replayed' = replayed
        \/ replayed' = [replayed EXCEPT ![t] = Overlaid(replayed[t], job[j].body)]
    BY <1>2 DEF CommitRow
  <2>5. \A u \in Registered' : u \in Registered
    BY <1>2, <2>1 DEF CommitRow, Registered, Sound, Typed
  <2>6. PICK p \in Profiles : replayed' = replayed \/ replayed' = [replayed EXCEPT ![t] = p]
    BY <2>3, <2>4
  <2>7. t \in Tins
    BY <2>1
  <2> HIDE DEF t
  <2>8. replayed' \in [Tins -> Profiles \cup {NONE}]
    BY <2>6, <2>7 DEF Recorded
  <2>9. \A u \in Registered : replayed'[u] \in Profiles
    BY <2>6, <2>7 DEF Recorded, Registered
  <2> QED  BY <2>5, <2>8, <2>9
<1>3. ASSUME row' = row, replayed' = replayed
      PROVE  Kept
  <2>1. Registered' = Registered
    BY <1>3 DEF Registered
  <2> QED  BY <1>3, <2>1 DEF Recorded
<1> HIDE DEF Kept
<1>4. Kept
  BY <1>1, <1>2, <1>3 DEF Next, Request, Step, vars, history, CheckNew, LoadPatch, QueueSync, Ask,
     AskInVain, LoadRow, Acknowledge, CrashWorker, CrashApi, UpdateTms
<1>5. overlapped' \subseteq Tins
  <2>1. ASSUME NEW j \in Jobs, NEW t \in Tins, Overlap(j, t)
        PROVE  overlapped' \subseteq Tins
    BY <2>1 DEF Overlap, Recorded
  <2>2. ASSUME NEW j \in Jobs, Ask(j)
        PROVE  overlapped' \subseteq Tins
    <3>1. job[j].tin \in Tins /\ Overlap(j, job[j].tin)
      BY <2>2 DEF Ask, Sound, Relies
    <3> QED  BY <2>1, <3>1
  <2>3. ASSUME NEW j \in Jobs, NEW t \in Tins, NEW p \in Payloads, LoadPatch(j, t, p)
        PROVE  overlapped' \subseteq Tins
    BY <2>1, <2>3 DEF LoadPatch
  <2>4. CASE overlapped' = overlapped
    BY <2>4 DEF Recorded
  <2> QED  BY <2>2, <2>3, <2>4 DEF Next, Request, Step, vars, history, CheckNew, QueueSync, InsertNew,
     AskInVain, LoadRow, CommitRow, Acknowledge, CrashWorker, CrashApi, UpdateTms
<1>6. \A j \in Jobs : Tidy(job[j])'
  BY JobsTidy
<1> QED  BY <1>4, <1>5, <1>6 DEF Recorded, Kept

\* At first the replay is the table.
LEMMA InitRecorded == Init => Recorded
<1> SUFFICES ASSUME Init PROVE Recorded
  OBVIOUS
<1>1. Typed
  BY SoundInit DEF Sound
<1>2. \A t \in Registered : row[t] \in Profiles
  BY <1>1, RowIsProfile
<1> QED  BY <1>1, <1>2, FreeType DEF Init, Recorded, Tidy, Typed, Bare

\* Rows and their replays are profiles of registered taxpayers, no commit
\* held a record that the TMS has not given out yet, and a job is new, under
\* way or at one of the outcomes: none hangs in a state nobody handles, and
\* none goes on with the changes of a row that it no longer holds.
THEOREM RegistryTypeCorrect == Spec => []TypeOK
<1>1. Sound /\ Serial /\ Recorded => TypeOK
  <2> SUFFICES ASSUME Sound, Serial, Recorded PROVE TypeOK
    OBVIOUS
  <2>1. ASSUME NEW t \in Tins
        PROVE  version[t] \in DOMAIN Records[t] /\ upTo[t] \in 0..version[t]
    BY DEF Sound, Typed, Serial, Numbered
  <2>2. ASSUME NEW j \in Jobs
        PROVE  /\ job[j] = Free \/ Running(j) \/ job[j].stage \in Outcomes
               /\ job[j].changes # {} => job[j].stage = "loaded"
    <3>1. job[j].stage \in Stages
      BY DEF Sound, Typed, JobRecord
    <3>2. Tidy(job[j])
      BY DEF Recorded
    <3> QED  BY <3>1, <3>2 DEF Tidy, Running, Outcomes, Stages
  <2> QED  BY <2>1, <2>2 DEF Sound, Typed, Recorded, TypeOK
<1>2. Init => Sound /\ Serial /\ Recorded
  BY SoundInit, InitSerial, InitRecorded
<1>3. Sound /\ Serial /\ Recorded /\ [Next]_vars => (Sound /\ Serial /\ Recorded)'
  BY SoundNext, StepSerial, StepRecorded
<1> QED  BY <1>1, <1>2, <1>3, PTL DEF Spec
=============================================================================
