---------------------------- MODULE DetectorRules ----------------------------
(***************************************************************************)
(* The five rule detectors of src/fraud_detection/rules and the Benford    *)
(* analysis of issued invoices, as functions of the context that the       *)
(* engine gives them: a taxpayer, a list of invoices, a list of            *)
(* transactions and the time.                                              *)
(*                                                                         *)
(* A rule collects signals, each worth points, and detects if the points   *)
(* reach its threshold.  Points are in hundredths and rounded down, rates  *)
(* in percent.  Times are hours; an amount is a whole number.              *)
(*   invoice      [seller, buyer, type, net, vat, hour, chapter, heading,  *)
(*                 customs, sellerDecl, buyerDecl, suspicious, n]          *)
(*   transaction  [kind, output, input, refund, paid, late, n]             *)
(*   taxpayer     [tin, status, registered, lastFiling, streak, newly,     *)
(*                 turnover]                                               *)
(* The commodity code is its chapter (two digits) and heading (four), NONE *)
(* if the invoice has none.                                                *)
(***************************************************************************)
EXTENDS TradeGraph, RiskScorer

CONSTANT Country    \* the country of each TIN

-----------------------------------------------------------------------------
(* Lists.                                                                  *)

Issued(tp, invoices) == RestrictValues(invoices, LAMBDA i : i.seller = tp.tin)
Received(tp, invoices) == RestrictValues(invoices, LAMBDA i : i.buyer = tp.tin)
VatReturns(transactions) == RestrictValues(transactions, LAMBDA t : t.kind = "vat_return")

Days(from, now) == (now - from) \div 24
Apart(a, b) == IF a <= b THEN b - a ELSE a - b

\* How many pairs of invoices there are of which the second matches the first.
Pairs(invoices, matches(_, _)) ==
    LET pairs == {p \in (DOMAIN invoices) \X (DOMAIN invoices) :
                     matches(invoices[p[1]], invoices[p[2]])}
    IN SumFunction([p \in pairs |-> invoices[p[1]].n * invoices[p[2]].n])

\* A signal and its points, if its condition holds.
Signal(name, condition, points) ==
    IF condition THEN {[name |-> name, points |-> points]} ELSE {}

Severity(score) ==
    CASE score >= 8000 -> "critical"
      [] 6000 <= score /\ score < 8000 -> "high"
      [] 4000 <= score /\ score < 6000 -> "medium"
      [] OTHER -> "low"

\* The result of a rule: one detection, or none below the threshold.  Each
\* signal is worth `share` percent of confidence, up to `most`.
\* (Mutant: points added up without the cap of 100.)
Points(signals) == SumFunction([s \in signals |-> s.points])
Uncapped(rule, signals, threshold, share, most) ==
    LET score == Points(signals)
    IN IF score >= threshold
       THEN {[rule |-> rule, score |-> score, severity |-> Severity(score),
              confidence |-> Capped(most, share * Cardinality(signals))]}
       ELSE {}
Detection(rule, signals, threshold, share, most) ==
    LET score == Capped(FullScore, Points(signals))
    IN IF score >= threshold
       THEN {[rule |-> rule, score |-> score, severity |-> Severity(score),
              confidence |-> Capped(most, share * Cardinality(signals))]}
       ELSE {}

-----------------------------------------------------------------------------
(* Missing trader.                                                         *)

\* Signal 2: the last filing is more than 90 days old.
\* (Mutant: looked at for half a year only.)
InactiveHalfYear(days) == Signal("inactive_trader", days > 90 /\ days <= 180,
                                 Capped(3500, (100 * days) \div 3))
Inactive(days) == Signal("inactive_trader", days > 90,
                         Capped(3500, (100 * days) \div 3))

\* Signal 4: the VAT that buyers claim of invoices the seller has not
\* declared.
ClaimedUndeclared(tp, invoices) ==
    Total(RestrictValues(Issued(tp, invoices), LAMBDA i : i.buyerDecl /\ ~i.sellerDecl), "vat")

\* Signal 5: imports of the last 30 days.
RecentImports(tp, invoices, now) ==
    RestrictValues(Received(tp, invoices),
                   LAMBDA i : i.type \in {"import", "intra_community"} /\ Days(i.hour, now) <= 30)

PostImport(tp, invoices, now) ==
    LET imports == RecentImports(tp, invoices, now)
    IN Signal("post_import_disappearance",
              /\ DOMAIN imports # {}
              /\ tp.lastFiling # NONE
              /\ Days(tp.lastFiling, now) > 14,
              Capped(3500, Total(imports, "vat") \div 10))

MissingTraderSignals(tp, invoices, transactions, now) ==
    (IF tp.registered # NONE /\ DOMAIN VatReturns(transactions) = {}
     THEN Signal("never_filed", Days(tp.registered, now) > 30,
                 Capped(4000, 50 * Days(tp.registered, now)))
     ELSE {})
    \cup (IF tp.lastFiling # NONE THEN Inactive(Days(tp.lastFiling, now)) ELSE {})
    \cup Signal("consecutive_late_filings", tp.streak >= 3, Capped(3500, 1000 * tp.streak))
    \cup Signal("undeclared_output_vat", ClaimedUndeclared(tp, invoices) > 10000,
                Capped(4000, ClaimedUndeclared(tp, invoices) \div 5))
    \cup PostImport(tp, invoices, now)
    \cup Signal("new_high_volume", tp.newly /\ tp.turnover > 1000000, 1500)

MissingTrader(tp, invoices, transactions, now) ==
    Detection("missing_trader", MissingTraderSignals(tp, invoices, transactions, now),
              3000, 20, 95)

-----------------------------------------------------------------------------
(* Carousel.                                                               *)

HighRiskHeadings == {8517, 8471, 8542, 7108, 7110, 2716, 3825, 6301}

\* _detect_price_drops: a seller that sells for 5% less than it last bought,
\* in the order that before gives of two positions.
PriceDropsIn(invoices, before(_, _)) ==
    LET priced == {k \in DOMAIN invoices : invoices[k].buyer # NONE /\ invoices[k].net # 0}
        bought(k) == {j \in priced : before(j, k) /\ invoices[j].buyer = invoices[k].seller}
        last(k) == {j \in bought(k) : \A l \in bought(k) : l = j \/ before(l, j)}
        dropped(k) == \E j \in last(k) :
            LET paid == invoices[j].net
            IN paid > 0 /\ 100 * (paid - invoices[k].net) > 5 * paid
    IN Count(Restrict(invoices, {k \in priced : dropped(k)}))

\* sorted(invoices, key=invoice_date): stable, so that rows of one instant
\* keep the order of the list.
\* (Mutant: in the order of the list.)
PriceDropsAsListed(invoices) == PriceDropsIn(invoices, LAMBDA j, k : j < k)
PriceDrops(invoices) ==
    PriceDropsIn(invoices, LAMBDA j, k : \/ invoices[j].hour < invoices[k].hour
                                         \/ invoices[j].hour = invoices[k].hour /\ j < k)

\* _detect_rapid_resales: pairs of a purchase and a sale of one trader, of
\* whatever goods and in either order, at most 24 hours apart.
RapidResales(invoices) ==
    Pairs(invoices, LAMBDA buy, sell : /\ buy.buyer # NONE /\ sell.seller = buy.buyer
                                       /\ Apart(sell.hour, buy.hour) <= 24)

\* The countries of the parties of exports and intra-community supplies.
Crossing(invoices) ==
    RestrictValues(invoices, LAMBDA i : i.type \in {"export", "intra_community"})
CrossedCountries(invoices) ==
    {Country[t] : t \in UNION {{i.seller, i.buyer} \ {NONE} : i \in Range(Crossing(invoices))}}

CircularSignal(chains) ==
    Signal("circular_chains", chains # {},
           Capped(5000, 3500 * Cardinality(chains)
                        + 500 * (Max({Cardinality(c) : c \in chains}) - MinChain)))

CarouselSignals(invoices) ==
    LET chains == Chains(Edges(invoices))
        risky == Count(RestrictValues(invoices, LAMBDA i : i.heading \in HighRiskHeadings))
    IN CircularSignal(chains)
       \cup Signal("high_risk_commodities", risky > 0, Capped(2500, 300 * risky))
       \cup Signal("price_drops_in_chain", PriceDrops(invoices) > 0,
                   Capped(2000, 800 * PriceDrops(invoices)))
       \cup Signal("rapid_resales", RapidResales(invoices) > 0,
                   Capped(2000, 500 * RapidResales(invoices)))
       \cup Signal("cross_border_carousel", chains # {} /\ DOMAIN Crossing(invoices) # {},
                   Capped(2000, 500 * Cardinality(CrossedCountries(invoices))))

\* (Mutant: more than the threshold of 35.)
CarouselAbove(invoices) == Detection("carousel_fraud", CarouselSignals(invoices), 3501, 25, 95)
Carousel(invoices) == Detection("carousel_fraud", CarouselSignals(invoices), 3500, 25, 95)

-----------------------------------------------------------------------------
(* Leading digits.                                                         *)

\* Of a whole amount; the two implementations, by string and by division,
\* agree on those.
LeadingDigit(amount) ==
    CHOOSE d \in 1..9 : \E k \in 0..8 : amount \div (10 ^ k) = d

\* The invoices whose amount has a leading digit d.
WithDigit(invoices, d) ==
    Count(RestrictValues(invoices, LAMBDA i : i.net > 0 /\ LeadingDigit(i.net) = d))

\* Benford's frequencies, in ten-thousandths.
BenfordExpected == <<3010, 1761, 1249, 969, 792, 669, 580, 512, 458>>

\* The mean absolute deviation from them, in ten-thousandths.
BenfordDeviation(invoices) ==
    LET n == SumFunction([d \in 1..9 |-> WithDigit(invoices, d)])
    IN IF n = 0 THEN 0
       ELSE SumFunction([d \in 1..9 |-> Apart((10000 * WithDigit(invoices, d)) \div n,
                                              BenfordExpected[d])]) \div 9

\* The chi-squared statistic of n positive amounts, in hundredths: the sum
\* of observed^2 / expected less n.
ChiSquared(invoices, n) ==
    SumFunction([d \in 1..9 |-> (100 * ((10000 * WithDigit(invoices, d) * WithDigit(invoices, d))
                                        \div n)) \div BenfordExpected[d]])
    - 100 * n

\* BenfordAnalyzer and the detection the engine makes of it.  The p-value
\* enters by its brackets: with 8 degrees of freedom it is below 5% above
\* 15.51 and below 1% above 20.09; the score of a bracket is taken at its
\* end, 80 * (1 - 0.05) and 80 * (1 - 0).
BenfordTest(invoices) ==
    LET positive == RestrictValues(invoices, LAMBDA i : i.net > 0)
        chi == ChiSquared(positive, Count(positive))
    IN IF Count(positive) < 30 \/ chi <= 1551 THEN {}
       ELSE {[rule |-> "benford_analysis", confidence |-> 90,
              score |-> IF chi > 2009 THEN 8000 ELSE 7600,
              severity |-> IF chi > 2009 THEN "high" ELSE "medium"]}

-----------------------------------------------------------------------------
(* Invoice mill.                                                           *)

\* The most invoices issued on one day.
BusiestDay(issued) ==
    Max({Count(RestrictValues(issued, LAMBDA i : i.hour \div 24 = day)) :
         day \in {i.hour \div 24 : i \in Range(issued)}})

IsRoundAmount(net) == net > 0 /\ net % 100 = 0

InvoiceMillSignals(tp, invoices) ==
    LET issued == Issued(tp, invoices)
        n == Count(issued)
        round == Count(RestrictValues(issued, LAMBDA i : IsRoundAmount(i.net)))
        buyers == {i.buyer : i \in Range(issued)}
    IN IF n = 0 THEN {}
       ELSE Signal("high_volume", BusiestDay(issued) >= 30,
                   Capped(3000, 50 * BusiestDay(issued)))
            \cup Signal("round_amounts", 10 * round >= 7 * n,
                        Capped(2500, (3000 * round) \div n))
            \cup Signal("no_purchase_invoices", 20 * Count(Received(tp, invoices)) < n, 2500)
            \cup Signal("concentrated_buyers", Cardinality(buyers) <= 3 /\ n > 20, 1500)
            \cup Signal("benford_anomaly", n >= 20 /\ BenfordDeviation(issued) > 1500,
                        Capped(2000, (8 * BenfordDeviation(issued)) \div 10))
            \cup Signal("new_entity_high_volume", tp.newly, 1000)

InvoiceMill(tp, invoices) ==
    Detection("invoice_mill", InvoiceMillSignals(tp, invoices), 3000, 20, 90)

-----------------------------------------------------------------------------
(* Refund fraud.                                                           *)

Refunds(transactions) ==
    RestrictValues(transactions, LAMBDA t : t.kind \in {"refund_claim", "amended_return"})

\* Signal 2: the last claim of the list against the mean of the others.
RefundSpike(refunds) ==
    LET latest == refunds[Max(DOMAIN refunds)].refund
        others == Count(refunds) - 1
        sum == Total(refunds, "refund") - latest
    IN IF Count(refunds) < 2 THEN {}
       ELSE Signal("refund_spike", sum > 0 /\ latest * others > 3 * sum,
                   Capped(3000, (500 * latest * others) \div sum))

\* Signal 3: exports and intra-community supplies without a customs
\* declaration.
PhantomExports(issued) ==
    LET exports == Count(Crossing(issued))
        bare == Count(RestrictValues(Crossing(issued), LAMBDA i : ~i.customs))
    IN Signal("phantom_exporter", 2 * bare > exports, Capped(3500, (4000 * bare) \div exports))

\* Signal 1.  (Mutant: worth half.)
HalfRefundRatio(refund, output) ==
    Signal("high_refund_to_output_ratio", output > 0 /\ 10 * refund > 8 * output,
           Capped(4000, (2000 * refund) \div output))
RefundRatio(refund, output) ==
    Signal("high_refund_to_output_ratio", output > 0 /\ 10 * refund > 8 * output,
           Capped(4000, (4000 * refund) \div output))

RefundFraudSignals(tp, invoices, transactions) ==
    LET refund == Total(Refunds(transactions), "refund")
        flagged == Count(RestrictValues(Received(tp, invoices), LAMBDA i : i.suspicious))
        amended == Count(RestrictValues(transactions,
                             LAMBDA t : t.kind = "amended_return" /\ t.refund > 0))
    IN RefundRatio(refund, Total(VatReturns(transactions), "output"))
       \cup RefundSpike(Refunds(transactions))
       \cup PhantomExports(Issued(tp, invoices))
       \cup Signal("refund_from_flagged_suppliers", flagged > 0, Capped(3000, 500 * flagged))
       \cup Signal("frequent_amendments", amended >= 3, Capped(3500, 1000 * amended))
       \cup Signal("high_refund_to_turnover", tp.turnover > 0 /\ 4 * refund > tp.turnover,
                   Capped(2000, (4000 * refund) \div tp.turnover))

RefundFraud(tp, invoices, transactions) ==
    Detection("refund_fraud", RefundFraudSignals(tp, invoices, transactions), 3000, 20, 90)

-----------------------------------------------------------------------------
(* Contra-trading.                                                         *)

\* Returns whose input and output nearly cancel out, on 50000 or more.
NearZero(return) ==
    LET gross == return.output + return.input
    IN gross >= 50000 /\ 100 * Apart(return.output, return.input) < 2 * gross

\* _detect_mirrored_timing: a purchase and a sale within 48 hours, of
\* different chapters; ten at most.
Mirrored(tp, invoices) ==
    Capped(10, Pairs(invoices, LAMBDA buy, sell :
                   /\ buy.buyer = tp.tin /\ sell.seller = tp.tin
                   /\ Apart(sell.hour, buy.hour) <= 48
                   /\ NONE \notin {buy.chapter, sell.chapter}
                   /\ buy.chapter # sell.chapter))

ContraSignals(tp, invoices, transactions) ==
    LET returns == VatReturns(transactions)
        nearZero == Count(RestrictValues(returns, NearZero))
        chapters == {i.chapter : i \in Range(invoices)} \ {NONE}
        output == Total(returns, "output")
        paid == Total(returns, "paid")
    IN Signal("persistent_near_zero_net_vat", nearZero >= 3, Capped(4000, 1000 * nearZero))
       \cup Signal("diverse_unrelated_sectors", Cardinality(chapters) >= 3,
                   Capped(2000, 500 * Cardinality(chapters)))
       \cup Signal("mirrored_chain_timing", Mirrored(tp, invoices) > 0,
                   Capped(2500, 800 * Mirrored(tp, invoices)))
       \cup Signal("minimal_actual_payments", output > 50000 /\ 20 * paid < output, 2000)

ContraTrading(tp, invoices, transactions) ==
    IF Count(transactions) < 3 THEN {}
    ELSE Detection("contra_trading", ContraSignals(tp, invoices, transactions), 3500, 25, 85)
=============================================================================
