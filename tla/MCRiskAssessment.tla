-------------------------- MODULE MCRiskAssessment --------------------------
(* Small instances of RiskAssessment for TLC.                              *)
EXTENDS RiskAssessment, TLC

\* Records that show nothing score 30, as the anomaly detector that was never
\* fitted does for every taxpayer; a suspended taxpayer is high risk; an
\* invoice alone (the analysis "invoice") triggers one rule at most.
MCVerdict ==
    [x \in Analyses \X Statuses \X Evidence |->
        LET bad == x[2] # ACTIVE  seen == x[3] # NoEvidence IN
        IF x[1] = "invoice" THEN [score |-> 30, alerts |-> IF seen THEN 1 ELSE 0]
        ELSE CASE bad /\ seen   -> [score |-> 95, alerts |-> 2]
               [] bad /\ ~seen  -> [score |-> 78, alerts |-> 1]
               [] ~bad /\ seen  -> [score |-> 60, alerts |-> 1]
               [] ~bad /\ ~seen -> [score |-> 29, alerts |-> 0]]

JobSymmetry == Permutations(Jobs)
=============================================================================
