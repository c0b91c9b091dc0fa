---------------------------- MODULE FraudEngine ----------------------------
(***************************************************************************)
(* FraudDetectionEngine.analyze_taxpayer: the rules, the Benford and       *)
(* network analyses and the risk scorer on one taxpayer's context, and the *)
(* context that its callers select from the database.                      *)
(*                                                                         *)
(* The state is what an analysis may meet: invoices and transactions that  *)
(* arrive one after the other, and the time.  An analysis changes nothing, *)
(* so it is a function of the state; who runs it, and when its result is   *)
(* written, is module RiskAssessment, whose constant Verdict stands for    *)
(* the score and the number of alerts of Report.                           *)
(***************************************************************************)
EXTENDS DetectorRules

CONSTANTS
    Profiles,        \* the taxpayers' rows an analysis may find
    InvoiceLots,     \* invoices that may arrive, alike ones as one lot
    TransactionLots, \* returns and claims that may be filed
    Start,           \* the hour the history starts
    Step,            \* hours that pass at a time
    InvoiceLimit,    \* LIMIT of the callers' query of invoices: 500 or 1000
    TransactionLimit, \* LIMIT of their query of transactions: 50, 100 or 200
    MaxEvents        \* bound: lots of either kind and steps of time together

ASSUME ProfileAssumption ==
    \A p \in Profiles :
        /\ p.tin # NONE /\ p.streak \in Nat /\ p.turnover \in Int
        /\ p.registered # NONE => p.registered \in Int
        /\ p.lastFiling # NONE => p.lastFiling \in Int
ASSUME InvoiceAssumption ==
    \A i \in InvoiceLots :
        /\ {"seller", "buyer", "net", "vat", "hour", "n"} \subseteq DOMAIN i
        /\ i.n \in Nat \ {0} /\ i.net \in Nat /\ i.vat \in Nat /\ i.hour \in Int
ASSUME TransactionAssumption ==
    \A t \in TransactionLots :
        /\ {"output", "input", "refund", "paid", "n"} \subseteq DOMAIN t
        /\ t.n \in Nat \ {0} /\ t.output \in Int /\ t.input \in Int
        /\ t.refund \in Int /\ t.paid \in Int
ASSUME LimitAssumption == InvoiceLimit \in Nat \ {0} /\ TransactionLimit \in Nat \ {0}
ASSUME BoundAssumption == MaxEvents \in Nat /\ Start \in Int /\ Step \in Nat \ {0}

VARIABLES
    taxpayer,        \* the row analysed
    invoices,        \* the invoices table, in the order a query returns it
    transactions,    \* the transactions of the taxpayer, likewise
    now

vars == <<taxpayer, invoices, transactions, now>>

-----------------------------------------------------------------------------
(* The analysis.                                                           *)

\* The invoices in which the taxpayer is the seller or the buyer.
\* (Mutant: the invoices of its trading partners too.)
AllRows(t, rows) == Range(rows)
OwnRows(t, rows) == {i \in Range(rows) : i.seller = t \/ i.buyer = t}
OwnInvoices(t, rows) == RestrictValues(rows, LAMBDA i : i \in OwnRows(t, rows))

\* What a query with a LIMIT returns: the rows, or as many of them as the
\* limit, m[k] of the lot at k.  Which ones is the database's choice, for no
\* query has an ORDER BY.
Taken(rows, m) ==
    [k \in {j \in DOMAIN rows : m[j] > 0} |-> [rows[k] EXCEPT !.n = m[k]]]
Fetch(rows, limit) ==
    IF Count(rows) <= limit THEN {rows}
    ELSE {Taken(rows, m) : m \in {f \in [DOMAIN rows -> 0..limit] :
                                     /\ \A k \in DOMAIN rows : f[k] <= rows[k].n
                                     /\ SumFunction(f) = limit}}

\* Step 4: a network anomaly, if the network's risk reaches 40 and it holds
\* a circular chain.
NetworkAnomaly(rows) ==
    IF CircularChains(rows) # {} /\ NetworkRisk(rows) >= 4000
    THEN {[rule |-> "network_analyzer", score |-> NetworkRisk(rows), confidence |-> 75,
           severity |-> Severity(NetworkRisk(rows))]}
    ELSE {}

\* Steps 1 to 4.  The gather of the rules would log and leave out one that
\* raises; none does on rows that the database admits.
Detections(tp, rows, filed, time) ==
    UNION {MissingTrader(tp, rows, filed, time),
           Carousel(rows),
           InvoiceMill(tp, rows),
           RefundFraud(tp, rows, filed),
           ContraTrading(tp, rows, filed),
           BenfordTest(Issued(tp, rows)),
           NetworkAnomaly(rows)}

\* Step 5: the components of the composite score.
ComponentScores(tp, rows, filed, found) ==
    LET returns == VatReturns(filed)
        node == NodeMetrics(rows, tp.tin)
    IN [rules |-> RuleScore(found),
        anomaly |-> AnomalyScore,
        compliance |-> ComplianceScore(tp.streak, tp.status, Count(returns),
                                       Count(RestrictValues(returns, LAMBDA t : t.late))),
        network |-> NetworkScore(node.betweenness, node.inDegree),
        thirdparty |-> ThirdPartyScore({})]

\* Step 6: is_alert_worthy.
AlertWorthy(found) == {d \in found : d.score >= 3000}

\* analyze_taxpayer, on given rows: the alerts and the composite score.
Outcome(tp, rows, filed, found) ==
    [alerts |-> AlertWorthy(found),
     score |-> TotalScore(ComponentScores(tp, rows, filed, found))]
Report(tp, rows, filed, time) ==
    Outcome(tp, rows, filed, Detections(tp, rows, filed, time))

\* What assess_risk, the webhook's task and Celery's read for an analysis of
\* the taxpayer, given the tables, ...
FullReads(list, filed) ==
    [invoices : Fetch(OwnInvoices(taxpayer.tin, list), InvoiceLimit),
     transactions : Fetch(filed, TransactionLimit)]

\* ... and the task of a submitted invoice: that one, as its seller's.
Reads ==
    FullReads(invoices, transactions)
    \cup [invoices : {one \in Fetch(Issued(taxpayer, invoices), 1) : DOMAIN one # {}},
          transactions : Fetch(transactions, TransactionLimit)]

Analysis(read) == Report(taxpayer, read.invoices, read.transactions, now)

Rules(alerts) == {a.rule : a \in alerts}

-----------------------------------------------------------------------------
(* What happens to the context.                                            *)

Init ==
    /\ taxpayer \in Profiles
    /\ invoices = << >>
    /\ transactions = << >>
    /\ now = Start

Events == Len(invoices) + Len(transactions) + (now - Start) \div Step

\* An invoice, or several alike, is submitted.
Submit(lot) ==
    /\ Events < MaxEvents
    /\ invoices' = Append(invoices, lot)
    /\ UNCHANGED <<taxpayer, transactions, now>>

\* The tax authority's systems write returns and claims; nothing in src/ does.
File(lot) ==
    /\ Events < MaxEvents
    /\ transactions' = Append(transactions, lot)
    /\ UNCHANGED <<taxpayer, invoices, now>>

PassTime ==
    /\ Events < MaxEvents
    /\ now' = now + Step
    /\ UNCHANGED <<taxpayer, invoices, transactions>>

Next ==
    \/ \E lot \in InvoiceLots : Submit(lot)
    \/ \E lot \in TransactionLots : File(lot)
    \/ PassTime

Spec == Init /\ [][Next]_vars

-----------------------------------------------------------------------------
(* Properties.                                                             *)

ReportOK(report) ==
    /\ \A a \in report.alerts : a.score \in 3000..FullScore /\ a.confidence \in 1..95
    /\ Cardinality(Rules(report.alerts)) = Cardinality(report.alerts)
    /\ report.score \in 2910..FullScore

\* One alert at most per rule, of a score that is worth one; the composite
\* stays in its scale, whose lower end is what the anomaly detector gives
\* to everybody.
TypeOK ==
    /\ taxpayer \in Profiles
    /\ invoices \in Seq(InvoiceLots) /\ transactions \in Seq(TransactionLots)
    /\ now \in {Start + k * Step : k \in 0..MaxEvents}
    /\ \A read \in Reads : ReportOK(Analysis(read))

\* There is a ring: a trade whose goods come back to the seller by another
\* way than straight from the buyer.  By reachability, not by cycles: no
\* set of traders keeps what the buyer sells, and what its members sell on,
\* from the seller.
Ring(E) ==
    \E e \in E :
        /\ e[1] # e[2]
        /\ \A S \in SUBSET NodesOf(E) :
              /\ e[2] \in S
              /\ \A f \in E \ {<<e[2], e[1]>>} : f[1] \in S => f[2] \in S
              => e[1] \in S

\* Given the invoices of a ring, the chain detector reports chains and the
\* carousel rule alerts, on the ring alone: 35 points at a threshold of 35.
RingsFound ==
    /\ Ring(Edges(invoices)) <=> CircularChains(invoices) # {}
    /\ Ring(Edges(invoices)) => Carousel(invoices) # {}

\* ... but no analysis is ever given one: every edge of what the callers
\* select ends at the taxpayer, and a ring needs one that does not.  So
\* the circular signals and the network anomaly are never raised, whatever
\* is traded.
NoRingSeen == \A read \in Reads : Chains(Edges(read.invoices)) = {}

\* README.md:15 "Carousel Fraud | Circular chain of trades [...] | Graph
\* cycle detection": a taxpayer that trades in a ring gets a carousel alert.
RingAlerted ==
    (\E chain \in Chains(Edges(invoices)) : taxpayer.tin \in NodesOf(chain))
        => \E read \in Reads : "carousel_fraud" \in Rules(Analysis(read).alerts)

AllCritical(alerts) == alerts # {} /\ \A a \in alerts : a.severity = "critical"
RankedHigh(report) ==
    AllCritical(report.alerts) => RiskLevel(report.score) \in {"high", "critical"}

\* A taxpayer all of whose alerts are critical (80 and more) is classed as
\* high risk (75 and more) at least: 97% of 80 is enough, the mean of the
\* five components would not be.
CriticalIsHighRisk == \A read \in Reads : RankedHigh(Analysis(read))

\* What carries the threshold of its rule without any other signal.
MissingAlone(tp, rows, filed, time) ==
    \/ tp.streak >= 3
    \/ /\ tp.registered # NONE /\ DOMAIN VatReturns(filed) = {}
       /\ Days(tp.registered, time) >= 60
    \/ tp.lastFiling # NONE /\ Days(tp.lastFiling, time) > 90
    \/ ClaimedUndeclared(tp, rows) >= 15000
    \/ /\ tp.lastFiling # NONE /\ Days(tp.lastFiling, time) > 14
       /\ Total(RecentImports(tp, rows, time), "vat") >= 30000

SixfoldClaim(refunds) ==
    LET latest == refunds[Max(DOMAIN refunds)].refund
        earlier == Total(refunds, "refund") - latest
    IN /\ Count(refunds) >= 2
       /\ earlier > 0 /\ latest * (Count(refunds) - 1) >= 6 * earlier

RefundAlone(tp, rows, filed) ==
    LET refund == Total(Refunds(filed), "refund")
        output == Total(VatReturns(filed), "output")
        exports == Crossing(Issued(tp, rows))
    IN \/ output > 0 /\ 10 * refund > 8 * output
       \/ SixfoldClaim(Refunds(filed))
       \/ /\ DOMAIN exports # {}
          /\ 4 * Count(RestrictValues(exports, LAMBDA i : ~i.customs)) >= 3 * Count(exports)
       \/ Count(RestrictValues(Received(tp, rows), LAMBDA i : i.suspicious)) >= 6
       \/ Count(RestrictValues(filed, LAMBDA t : t.kind = "amended_return" /\ t.refund > 0)) >= 3

\* Which signals make a missing trader or a refund fraud alert alone, and
\* from which value on, some with exactly the 30 points of the threshold.
\* It is often not the value that raises the signal: 60 days registered
\* without a return, not 31; 15000 of undeclared VAT, not 10001; 30000 of
\* VAT on recent imports, not 1; a claim six times the mean, not three;
\* three exports in four without papers, not half; six invoices of flagged
\* suppliers, not one.  Three late filings, 91 days without one, refunds
\* over 80% of the output VAT and three amendments (the comment at
\* refund_fraud.py:32 says more than three) alert as soon as they are
\* signals.  An alert on one signal (a confidence of 20%) is always one of
\* these: turnover, a new trader's (15 points) or a refund's ratio to it (20
\* at most), never is.
TriggersSuffice ==
    \A read \in Reads :
        LET alerts == Analysis(read).alerts
            missing == MissingAlone(taxpayer, read.invoices, read.transactions, now)
            refund == RefundAlone(taxpayer, read.invoices, read.transactions)
        IN /\ missing => "missing_trader" \in Rules(alerts)
           /\ refund => "refund_fraud" \in Rules(alerts)
           /\ \A a \in alerts :
                 a.confidence = 20 => /\ a.rule = "missing_trader" => missing
                                      /\ a.rule = "refund_fraud" => refund

\* While the limits cut nothing off, the result of a full analysis depends
\* on the order that the database happens to return only through rows of
\* one instant (the price drops) and claims of different amounts (the spike
\* compares the last one of the list with the others).  Beyond a limit it
\* depends on which rows come back.
RowOrderIrrelevant ==
    LET own == OwnInvoices(taxpayer.tin, invoices)
    IN (/\ Count(own) <= InvoiceLimit /\ Count(transactions) <= TransactionLimit
        /\ \A i, j \in DOMAIN own : own[i].hour = own[j].hour => own[i] = own[j]
        /\ Cardinality({t.refund : t \in Range(Refunds(transactions))}) <= 1)
       => \A read \in FullReads(invoices, transactions),
             turned \in FullReads(Reverse(invoices), Reverse(transactions)) :
                Analysis(turned) = Analysis(read)

\* Silence is no way out: while nothing arrives, time leaves a missing
\* trader alert in place and never lowers it, for an analysis that reads the
\* same rows, unless it rests on imports, which count for thirty days.
SilenceKeepsMissing ==
    [][\A read \in Reads :
         LET found(time) == MissingTrader(taxpayer, read.invoices, read.transactions, time)
         IN now' # now /\ PostImport(taxpayer, read.invoices, now) = {} =>
                \A d \in found(now) : \E e \in found(now') : e.score >= d.score]_vars
=============================================================================
