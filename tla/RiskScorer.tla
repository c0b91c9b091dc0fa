----------------------------- MODULE RiskScorer -----------------------------
(***************************************************************************)
(* TaxpayerRiskScorer: how the detections of a run, the anomaly score, the *)
(* compliance history, the position in the trade network and third-party   *)
(* flags become the composite score that is stored as                      *)
(* taxpayer.risk_score.                                                    *)
(*                                                                         *)
(* Scores are natural numbers of hundredths of a point (10000 is 100.00),  *)
(* confidences are percents; divisions are rounded down where the code     *)
(* keeps floats and rounds the total to two digits at the end.             *)
(***************************************************************************)
EXTENDS Integers, FiniteSetsExt, Functions

FullScore == 10000

\* min(cap, score).
Capped(cap, score) == IF score <= cap THEN score ELSE cap

Categories == {"rules", "anomaly", "compliance", "network", "thirdparty"}

\* WEIGHTS, in percent.
Weights == [rules |-> 40, anomaly |-> 20, compliance |-> 20,
            network |-> 10, thirdparty |-> 10]

-----------------------------------------------------------------------------
(* The five components.                                                    *)

\* The mean of the triggered detections weighted by their confidence, so
\* that a weaker detection more may lower it.
RuleScore(detections) ==
    IF detections = {} THEN 0
    ELSE Capped(FullScore,
            SumFunction([d \in detections |-> d.score * d.confidence])
            \div SumFunction([d \in detections |-> d.confidence]))

\* AnomalyDetector.detect of a detector that nothing ever fits: isolation
\* score 0, no z-scores, and so 0.6 * 50.
AnomalyScore == 3000

\* _compute_compliance_score; returns is the number of VAT returns and late
\* how many of them were late.
ComplianceScore(streak, status, returns, late) ==
    Capped(FullScore,
        Capped(4000, 800 * streak)
        + (CASE status \in {"suspended", "missing", "under_investigation"} -> 4000
             [] status = "deregistered" -> 2000
             [] OTHER -> 0)
        + (IF returns = 0 THEN 0 ELSE (3000 * late) \div returns))

\* Betweenness in ten-thousandths and the in-degree of the taxpayer's node.
NetworkScore(betweenness, inDegree) ==
    Capped(FullScore, 2 * betweenness + 200 * inDegree)

\* _compute_third_party_score.  No caller of analyze_taxpayer passes flags.
ThirdPartyScore(flags) ==
    Capped(FullScore,
        SumFunction([f \in flags |-> CASE f = "fiu_sar_filed" -> 5000
                                        [] f = "customs_mismatch" -> 3000
                                        [] f = "interpol_watchlist" -> 4000
                                        [] f = "previous_fraud_conviction" -> 6000
                                        [] f = "linked_to_known_fraudster" -> 3500]))

-----------------------------------------------------------------------------
(* The composite.                                                          *)

WeightedMean(c) ==
    (c.rules * Weights.rules + c.anomaly * Weights.anomaly
     + c.compliance * Weights.compliance + c.network * Weights.network
     + c.thirdparty * Weights.thirdparty) \div 100

\* The largest of the five components.
Strongest(c) == Max({c[k] : k \in Categories})

\* The weighted mean, or 97% of the strongest component if that is more
\* (README.md:217-226 describes the mean alone).
\* (Mutant: the mean alone.)
MeanOnly(c) == Capped(FullScore, WeightedMean(c))
TotalScore(c) ==
    LET strong == (97 * Strongest(c)) \div 100
    IN Capped(FullScore, IF strong <= WeightedMean(c) THEN WeightedMean(c) ELSE strong)

\* _classify_risk with the thresholds of the settings.
RiskLevel(score) ==
    CASE score >= 9000 -> "critical"
      [] 7500 <= score /\ score < 9000 -> "high"
      [] 4000 <= score /\ score < 7500 -> "medium"
      [] OTHER -> "low"
=============================================================================
