-------------------------- MODULE FraudEngineProofs --------------------------
(***************************************************************************)
(* What holds of every analysis, whatever the taxpayers, the invoices and  *)
(* the transactions.                                                       *)
(*                                                                         *)
(* The invoices that the callers select never hold a chain (NoRingIsSeen). *)
(* So each rule raises one alert at most, whose points are a sum over its  *)
(* signals (OneDetection), and the five components stay in their scales;   *)
(* the composite is within 3% of the strongest of them (CompositeInScale). *)
(* Hence the type of a report, the class of a critical one, the patterns   *)
(* that suffice, and that points only grow while nothing arrives.          *)
(*                                                                         *)
(* A list in another order is its rows at renamed positions, and a sum     *)
(* over renamed positions is the same (OrderIsIrrelevant).  A ring is      *)
(* walked back to its seller, by a shortest walk, which is a chain         *)
(* (RingsAreFound).                                                        *)
(***************************************************************************)
EXTENDS FraudEngine, FoldFacts, FiniteSetTheorems, TLAPS

-----------------------------------------------------------------------------
(* The composite score.                                                    *)

Component == 0..FullScore

LEMMA ComponentBounds == \A x : x \in Component <=> x \in Int /\ 0 <= x /\ x <= 10000
<1>1. \A x \in Component : x \in Int /\ 0 <= x /\ x <= 10000
  BY DEF Component, FullScore
<1>2. \A x \in Int : 0 <= x /\ x <= 10000 => x \in Component
  BY DEF Component, FullScore
<1> QED  BY <1>1, <1>2

\* Max is a CHOOSE: of five scores one is the largest.
LEMMA StrongestIsMax ==
    ASSUME NEW c \in [Categories -> Component]
    PROVE  /\ Strongest(c) \in Component
           /\ \A k \in Categories : c[k] \in Component /\ c[k] <= Strongest(c)
<1> DEFINE S == {c[k] : k \in Categories}
<1>1. \A k \in Categories : c[k] \in Component
  OBVIOUS
<1>2. \A k \in Categories : c[k] \in Int
  BY <1>1, ComponentBounds
<1>3. S = {c["rules"], c["anomaly"], c["compliance"], c["network"], c["thirdparty"]}
  BY DEF Categories
<1>4. /\ c["rules"] \in Int /\ c["anomaly"] \in Int /\ c["compliance"] \in Int
      /\ c["network"] \in Int /\ c["thirdparty"] \in Int
  BY <1>2 DEF Categories
<1>5. \A v, w, x, y, z \in Int :
         \E most \in {v, w, x, y, z} : \A other \in {v, w, x, y, z} : most >= other
  OBVIOUS
<1>6. \E most \in S : \A other \in S : most >= other
  <2>1. PICK v, w, x, y, z \in Int : S = {v, w, x, y, z}
    BY <1>3, <1>4
  <2> QED  BY <1>5, <2>1
<1>7. Max(S) \in S /\ \A other \in S : Max(S) >= other
  BY <1>6 DEF Max
<1>8. Strongest(c) \in Component /\ \A k \in Categories : Strongest(c) >= c[k]
  BY <1>1, <1>7 DEF Strongest
<1>9. Strongest(c) \in Int
  BY <1>8, ComponentBounds
<1> QED  BY <1>1, <1>2, <1>8, <1>9

\* The arithmetic of TotalScore: the weights add up to 100%.
LEMMA MeanInScale ==
    ASSUME NEW m \in Int, 0 <= m, NEW v \in Int, NEW w \in Int, NEW x \in Int,
           NEW y \in Int, NEW z \in Int, 0 <= v, v <= m, 0 <= w, w <= m,
           0 <= x, x <= m, 0 <= y, y <= m, 0 <= z, z <= m
    PROVE  LET mean == (v * 40 + w * 20 + x * 20 + y * 10 + z * 10) \div 100
           IN mean \in Int /\ 0 <= mean /\ mean <= m
  OBVIOUS

\* risk_scorer.py:125-135: of any five components the composite is a score,
\* never above the strongest of them, and less than a hundredth of a point
\* below 97% of it ("should push the composite score close to that signal's
\* level").
THEOREM CompositeInScale ==
    ASSUME NEW c \in [Categories -> Component]
    PROVE  /\ TotalScore(c) \in Component
           /\ TotalScore(c) <= Strongest(c)
           /\ 97 * Strongest(c) < 100 * (TotalScore(c) + 1)
<1>1. PICK m \in Int : m = Strongest(c) /\ 0 <= m /\ m <= 10000
  BY StrongestIsMax, ComponentBounds
<1>2. \A k \in Categories : c[k] \in Int /\ 0 <= c[k] /\ c[k] <= m
  BY StrongestIsMax, ComponentBounds, <1>1
<1>3. PICK mean \in Int : mean = WeightedMean(c) /\ 0 <= mean /\ mean <= m
  <2>1. WeightedMean(c) = (c["rules"] * 40 + c["anomaly"] * 20 + c["compliance"] * 20
                           + c["network"] * 10 + c["thirdparty"] * 10) \div 100
    BY DEF WeightedMean, Weights
  <2> QED  BY <1>1, <1>2, <2>1, MeanInScale DEF Categories
<1>4. PICK strong \in Int : /\ strong = (97 * m) \div 100 /\ 0 <= strong /\ strong <= m
                            /\ 97 * m < 100 * (strong + 1)
  BY <1>1
<1>5. TotalScore(c) = IF strong <= mean THEN mean ELSE strong
  BY <1>1, <1>3, <1>4 DEF TotalScore, Capped, FullScore
<1>6. TotalScore(c) \in Int /\ 0 <= TotalScore(c) /\ strong <= TotalScore(c) /\ TotalScore(c) <= m
  BY <1>3, <1>4, <1>5
<1>7. 97 * m < 100 * (TotalScore(c) + 1)
  BY <1>1, <1>4, <1>6
<1>8. TotalScore(c) <= 10000
  BY <1>1, <1>6
<1> QED  BY <1>1, <1>6, <1>7, <1>8, ComponentBounds

-----------------------------------------------------------------------------
(* Rings.                                                                  *)

\* In a graph all of whose edges end at one node there is no closed walk
\* over three nodes or more: of two successive edges of it that node is the
\* common one, and the edge after them cannot end there.
LEMMA StarHasNoCycle ==
    ASSUME NEW E, NEW t, \A e \in E : e[1] = t \/ e[2] = t,
           NEW n \in Nat, n >= 3
    PROVE  SimpleCycles(E, n) = {}
<1> SUFFICES ASSUME NEW p \in SimpleCycles(E, n) PROVE FALSE
  OBVIOUS
<1>1. /\ After(n, 1) = 2 /\ After(n, 2) = 3
      /\ After(n, 3) \in 1..n /\ After(n, 3) # 2
  <2>1. CASE n = 3
    BY <2>1 DEF After
  <2>2. CASE n > 3
    BY <2>2 DEF After
  <2> QED  BY <2>1, <2>2
<1>2. /\ p[1] # p[2] /\ p[2] # p[3] /\ p[1] # p[3] /\ p[After(n, 3)] # p[2]
  BY <1>1 DEF SimpleCycles
<1>3. /\ <<p[1], p[2]>> \in E /\ <<p[2], p[3]>> \in E /\ <<p[3], p[After(n, 3)]>> \in E
  BY <1>1 DEF SimpleCycles
<1>4. p[2] = t
  BY <1>2, <1>3
<1> QED  BY <1>2, <1>3, <1>4

LEMMA StarHasNoRing ==
    ASSUME NEW E, NEW t, \A e \in E : e[1] = t \/ e[2] = t,
           Cardinality(NodesOf(E)) \in Int
    PROVE  Chains(E) = {}
<1>1. ASSUME NEW n \in MinChain..Cardinality(NodesOf(E))
      PROVE  SimpleCycles(E, n) = {}
  <2>1. n \in Nat /\ n >= 3
    BY DEF MinChain
  <2> QED  BY <2>1, StarHasNoCycle
<1> QED  BY <1>1 DEF Chains, ChainsFrom

-----------------------------------------------------------------------------
(* What the callers select.                                                *)

\* Finitely many invoices make a finite graph.
LEMMA GraphIsFinite ==
    ASSUME NEW R, IsFiniteSet(R)
    PROVE  IsFiniteSet(EdgesOf(R)) /\ IsFiniteSet(NodesOf(EdgesOf(R)))
<1> DEFINE E == EdgesOf(R)
<1>1. IsFiniteSet(E)
  <2> DEFINE named == {r \in R : r.buyer # NONE}
  <2>1. IsFiniteSet(named)
    BY FS_Subset
  <2>2. [i \in named |-> <<i.seller, i.buyer>>] \in Surjection(named, E)
    BY DEF EdgesOf, Surjection
  <2> QED  BY <2>1, <2>2, FS_Surjection
<1>2. IsFiniteSet(NodesOf(E))
  <2>1. [e \in E |-> e[1]] \in Surjection(E, {e[1] : e \in E})
    BY DEF Surjection
  <2>2. [e \in E |-> e[2]] \in Surjection(E, {e[2] : e \in E})
    BY DEF Surjection
  <2>3. IsFiniteSet({e[1] : e \in E}) /\ IsFiniteSet({e[2] : e \in E})
    BY <1>1, <2>1, <2>2, FS_Surjection
  <2> QED  BY <2>3, FS_Union DEF NodesOf
<1> QED  BY <1>1, <1>2

LEMMA RangeIsFinite ==
    ASSUME NEW f, IsFiniteSet(DOMAIN f)
    PROVE  IsFiniteSet(Range(f))
<1>1. [k \in DOMAIN f |-> f[k]] \in Surjection(DOMAIN f, Range(f))
  BY DEF Range, Surjection
<1> QED  BY <1>1, FS_Surjection

\* Every edge of invoices of one trader ends at that trader.
LEMMA OwnRowsAreAStar ==
    ASSUME NEW t, NEW rows, IsFiniteSet(DOMAIN rows),
           \A k \in DOMAIN rows : rows[k].seller = t \/ rows[k].buyer = t
    PROVE  Chains(Edges(rows)) = {}
<1> DEFINE own == Range(rows)
           E == EdgesOf(own)
<1>1. \A e \in E : e[1] = t \/ e[2] = t
  BY DEF EdgesOf, Range
<1>2. IsFiniteSet(own)
  BY RangeIsFinite
<1>3. Cardinality(NodesOf(E)) \in Int
  BY <1>2, GraphIsFinite, FS_CardinalityType
<1>4. Edges(rows) = E
  BY DEF Edges
<1> HIDE DEF E
<1> QED  BY <1>1, <1>3, <1>4, StarHasNoRing

-----------------------------------------------------------------------------
(* Lists of rows.                                                          *)

\* Rows of a list, at finitely many positions.
Listed(rows) ==
    /\ IsFiniteSet(DOMAIN rows) /\ DOMAIN rows \subseteq Nat
    /\ \A k \in DOMAIN rows : rows[k].n \in Nat /\ rows[k].n > 0

InvoiceRows(rows) ==
    /\ Listed(rows)
    /\ \A k \in DOMAIN rows : rows[k].net \in Nat /\ rows[k].vat \in Nat /\ rows[k].hour \in Int

TransactionRows(rows) ==
    /\ Listed(rows)
    /\ \A k \in DOMAIN rows : /\ rows[k].output \in Int /\ rows[k].input \in Int
                              /\ rows[k].refund \in Int /\ rows[k].paid \in Int

\* Some of them.
Part(p, rows) == DOMAIN p \subseteq DOMAIN rows /\ \A k \in DOMAIN p : p[k] = rows[k]

LEMMA PartIsListed ==
    ASSUME NEW p, NEW rows, Part(p, rows)
    PROVE  /\ Listed(rows) => Listed(p)
           /\ InvoiceRows(rows) => InvoiceRows(p)
           /\ TransactionRows(rows) => TransactionRows(p)
<1>1. Listed(rows) => Listed(p)
  BY FS_Subset DEF Listed, Part
<1> QED  BY <1>1 DEF InvoiceRows, TransactionRows, Part

\* The number of rows is a natural number, no less than any of them stands for.
LEMMA CountIs ==
    ASSUME NEW rows, Listed(rows)
    PROVE  /\ Count(rows) \in Nat
           /\ \A k \in DOMAIN rows : rows[k].n <= Count(rows)
           /\ Count(rows) = 0 <=> DOMAIN rows = {}
<1> DEFINE f == [k \in DOMAIN rows |-> rows[k].n]
<1>1. IsFiniteSet(DOMAIN rows) /\ \A k \in DOMAIN rows : f[k] \in Nat /\ f[k] > 0 /\ f[k] = rows[k].n
  BY DEF Listed
<1>2. Count(rows) = SumOver(f, DOMAIN rows)
  BY SumFunctionIs DEF Count
<1> HIDE DEF f
<1>3. Count(rows) \in Nat /\ \A k \in DOMAIN rows : f[k] <= Count(rows)
  BY <1>1, <1>2, SumOverNat, SumOverElement
<1>4. DOMAIN rows = {} => Count(rows) = 0
  BY <1>2, SumOverNone
<1>5. \A k \in DOMAIN rows : rows[k].n <= Count(rows) /\ Count(rows) > 0
  BY <1>1, <1>3
<1>6. Count(rows) = 0 => DOMAIN rows = {}
  <2>1. ASSUME NEW k \in DOMAIN rows  PROVE Count(rows) # 0
    <3>1. rows[k].n <= Count(rows) /\ Count(rows) > 0
      BY <1>5
    <3> QED  BY <3>1
  <2> QED  BY <2>1
<1>7. \A k \in DOMAIN rows : rows[k].n <= Count(rows)
  BY <1>5
<1> QED  BY <1>3, <1>4, <1>6, <1>7

\* A total is an integer, and a natural number if the column has nothing else.
LEMMA TotalIs ==
    ASSUME NEW rows, Listed(rows), NEW c
    PROVE  /\ (\A k \in DOMAIN rows : rows[k][c] \in Int) => Total(rows, c) \in Int
           /\ (\A k \in DOMAIN rows : rows[k][c] \in Nat) => Total(rows, c) \in Nat
           /\ DOMAIN rows = {} => Total(rows, c) = 0
<1> DEFINE f == [k \in DOMAIN rows |-> rows[k].n * rows[k][c]]
<1>1. IsFiniteSet(DOMAIN rows) /\ \A k \in DOMAIN rows : rows[k].n \in Nat
  BY DEF Listed
<1>2. Total(rows, c) = SumOver(f, DOMAIN rows)
  BY SumFunctionIs DEF Total
<1>3. ASSUME \A k \in DOMAIN rows : rows[k][c] \in Int  PROVE \A k \in DOMAIN rows : f[k] \in Int
  BY <1>1, <1>3
<1>4. ASSUME \A k \in DOMAIN rows : rows[k][c] \in Nat  PROVE \A k \in DOMAIN rows : f[k] \in Nat
  BY <1>1, <1>4
<1> HIDE DEF f
<1>5. DOMAIN rows = {} => Total(rows, c) = 0
  BY <1>2, SumOverNone
<1>6. (\A k \in DOMAIN rows : rows[k][c] \in Int) => Total(rows, c) \in Int
  BY <1>1, <1>2, <1>3, SumOverInt
<1>7. (\A k \in DOMAIN rows : rows[k][c] \in Nat) => Total(rows, c) \in Nat
  BY <1>1, <1>2, <1>4, SumOverNat
<1> QED  BY <1>5, <1>6, <1>7

-----------------------------------------------------------------------------
(* Signals and detections.                                                 *)

\* Finitely many signals, each worth some points.
Signals(S) == IsFiniteSet(S) /\ \A s \in S : s.points \in Nat

LEMMA NoSignals == Signals({})
BY FS_EmptySet DEF Signals

\* A set of signals that is empty or holds one.
OneSignal(A, points) ==
    \/ A = {}
    \/ points \in Nat /\ \E name : A = {[name |-> name, points |-> points]}

LEMMA SignalIs ==
    ASSUME NEW A, NEW points, OneSignal(A, points)
    PROVE  /\ Signals(A)
           /\ A # {} => \E s \in A : s.points = points
           /\ \A s \in A : s.points = points
<1>1. CASE A = {}
  BY <1>1, NoSignals
<1>2. CASE A # {}
  <2>1. PICK name : A = {[name |-> name, points |-> points]}
    BY <1>2 DEF OneSignal
  <2>2. IsFiniteSet(A)
    BY <2>1, FS_Singleton
  <2>3. \A s \in A : s.points = points
    BY <2>1
  <2>4. [name |-> name, points |-> points] \in A
    BY <2>1
  <2> QED  BY <1>2, <2>2, <2>3, <2>4 DEF Signals, OneSignal
<1> QED  BY <1>1, <1>2

\* One of the signals is worth 30 points, the threshold of two rules.
Worth(S) == \E s \in S : s.points >= 3000

\* It is, if there is a signal and its points are.
LEMMA WorthIs ==
    ASSUME NEW A, NEW points, OneSignal(A, points)
    PROVE  Signals(A) /\ (Worth(A) <=> A # {} /\ points >= 3000)
<1>1. Signals(A) /\ (A # {} => \E s \in A : s.points = points) /\ \A s \in A : s.points = points
  BY SignalIs
<1>2. Worth(A) => A # {} /\ points >= 3000
  BY <1>1 DEF Worth
<1>3. A # {} /\ points >= 3000 => Worth(A)
  BY <1>1 DEF Worth
<1> QED  BY <1>1, <1>2, <1>3

LEMMA SignalsUnion ==
    ASSUME NEW A, NEW B, Signals(A), Signals(B)
    PROVE  Signals(A \cup B)
BY FS_Union DEF Signals

\* Their points add up.
LEMMA PointsAre ==
    ASSUME NEW S, Signals(S)
    PROVE  Points(S) \in Nat /\ \A s \in S : s.points <= Points(S)
<1> DEFINE f == [s \in S |-> s.points]
<1>1. IsFiniteSet(S) /\ \A s \in S : f[s] \in Nat /\ f[s] = s.points
  BY DEF Signals
<1>2. Points(S) = SumOver(f, S)
  BY SumFunctionIs DEF Points
<1> HIDE DEF f
<1> QED  BY <1>1, <1>2, SumOverNat, SumOverElement

\* A detection of a rule: its score is worth an alert, and its severity says
\* what its score is.
Detected(d, rule) ==
    /\ d.rule = rule
    /\ d.score \in 3000..FullScore /\ d.confidence \in 1..95
    /\ d.severity = "critical" => d.score >= 8000

\* One at most.
OneDetection(D, rule) ==
    /\ IsFiniteSet(D)
    /\ \A d \in D : Detected(d, rule)
    /\ \A d, e \in D : d = e

LEMMA NoDetection == \A rule : OneDetection({}, rule)
BY FS_EmptySet DEF OneDetection

LEMMA SeverityIs ==
    ASSUME NEW score \in Int, Severity(score) = "critical"
    PROVE  score >= 8000
BY DEF Severity

\* The numbers a rule may have: its threshold, the confidence a signal is
\* worth and the most it may reach.
Tariff(threshold, share, most) ==
    threshold \in 3000..FullScore /\ share \in 1..95 /\ most \in 1..95

\* The rule alerts if one of its signals is worth the threshold.
Alerting(D, rule, S, threshold) ==
    (\E s \in S : s.points >= threshold) => \E d \in D : d.rule = rule

\* What a rule makes of its signals.
LEMMA DetectionIs ==
    ASSUME NEW rule, NEW S, Signals(S), NEW threshold, NEW share, NEW most,
           Tariff(threshold, share, most), NEW D, D = Detection(rule, S, threshold, share, most)
    PROVE  OneDetection(D, rule) /\ Alerting(D, rule, S, threshold)
<1> DEFINE score == Capped(FullScore, Points(S))
           d == [rule |-> rule, score |-> score, severity |-> Severity(score),
                 confidence |-> Capped(most, share * Cardinality(S))]
<1>1. D = IF score >= threshold THEN {d} ELSE {}
  BY DEF Detection
<1>0. Points(S) \in Nat /\ (\A s \in S : s.points \in Nat /\ s.points <= Points(S))
      /\ threshold \in Int /\ 3000 <= threshold /\ threshold <= 10000
      /\ share \in 1..95 /\ most \in 1..95
  BY PointsAre DEF FullScore, Signals, Tariff
<1>2. /\ score \in Int /\ score <= 10000 /\ score <= Points(S)
      /\ \A s \in S : s.points >= threshold => score >= threshold
  BY <1>0 DEF Capped, FullScore
<1>3. CASE score >= threshold
  <2>1. S # {}
    <3>1. Points({}) = 0
      BY SumFunctionIs, SumOverNone DEF Points
    <3> HIDE DEF score
    <3>2. Points(S) >= 3000
      BY <1>0, <1>2, <1>3
    <3> QED  BY <3>1, <3>2
  <2>2. Cardinality(S) \in Nat /\ Cardinality(S) # 0
    BY <2>1, FS_CardinalityType, FS_EmptySet DEF Signals
  <2>3. share * Cardinality(S) >= 1 /\ share * Cardinality(S) \in Int
    BY <1>0, <2>2
  <2>4. d.confidence \in 1..95
    BY <1>0, <2>3 DEF Capped
  <2>5. d.score \in 3000..FullScore
    <3>1. d.score = score
      OBVIOUS
    <3> HIDE DEF score, d
    <3> QED  BY <1>0, <1>2, <1>3, <3>1 DEF FullScore
  <2>6. d.severity = "critical" => d.score >= 8000
    BY <1>2, SeverityIs
  <2>7. d.rule = rule
    OBVIOUS
  <2> HIDE DEF d, score
  <2>8. Detected(d, rule) /\ D = {d}
    BY <1>1, <1>3, <2>4, <2>5, <2>6, <2>7 DEF Detected
  <2>9. OneDetection(D, rule)
    BY <2>8, FS_Singleton DEF OneDetection
  <2> QED  BY <2>7, <2>8, <2>9 DEF Alerting, Detected
<1>4. CASE ~(score >= threshold)
  <2> HIDE DEF score, d
  <2>1. D = {} /\ \A s \in S : ~(s.points >= threshold)
    BY <1>1, <1>2, <1>4
  <2> QED  BY <2>1, NoDetection DEF Alerting
<1> QED  BY <1>3, <1>4

\* The points of a single signal.
LEMMA LonePoints ==
    ASSUME NEW S, Signals(S), Cardinality(S) = 1
    PROVE  \E s \in S : s.points \in Nat /\ Points(S) = s.points
<1> DEFINE f == [x \in S |-> x.points]
<1>1. IsFiniteSet(S) /\ \A x \in S : f[x] \in Int /\ f[x] = x.points
  BY DEF Signals
<1>2. S # {}
  BY <1>1, FS_EmptySet
<1>3. PICK s : s \in S
  BY <1>2
<1>4. IsFiniteSet(S \ {s}) /\ Cardinality(S \ {s}) = Cardinality(S) - 1
  BY <1>1, <1>3, FS_RemoveElement
<1>5. S \ {s} = {}
  BY <1>4, FS_EmptySet
<1>6. Points(S) = SumOver(f, S)
  BY SumFunctionIs DEF Points
<1> HIDE DEF f
<1>7. SumOver(f, S) = f[s] + SumOver(f, S \ {s})
  BY <1>1, <1>3, SumOverRemove
<1>8. SumOver(f, S \ {s}) = 0
  BY <1>5, SumOverNone
<1>9. Points(S) = s.points
  BY <1>1, <1>3, <1>6, <1>7, <1>8
<1>10. s.points \in Nat
  BY <1>3 DEF Signals
<1> QED  BY <1>3, <1>9, <1>10

\* A detection of 20% confidence rests on one signal, worth the threshold.
LEMMA LoneSignal ==
    ASSUME NEW rule, NEW S, Signals(S), NEW most \in 90..95,
           NEW d \in Detection(rule, S, 3000, 20, most), d.confidence = 20
    PROVE  Worth(S)
<1> DEFINE score == Capped(FullScore, Points(S))
           det == [rule |-> rule, score |-> score, severity |-> Severity(score),
                   confidence |-> Capped(most, 20 * Cardinality(S))]
<1>1. Detection(rule, S, 3000, 20, most) = IF score >= 3000 THEN {det} ELSE {}
  BY DEF Detection
<1>2. d = det /\ score >= 3000
  <2> HIDE DEF det, score
  <2> QED  BY <1>1
<1>3. Capped(most, 20 * Cardinality(S)) = 20
  <2>1. det.confidence = Capped(most, 20 * Cardinality(S))
    OBVIOUS
  <2> HIDE DEF det
  <2> QED  BY <1>2, <2>1
<1>4. Cardinality(S) = 1
  <2>1. Cardinality(S) \in Nat
    BY FS_CardinalityType DEF Signals
  <2> QED  BY <1>3, <2>1 DEF Capped
<1>5. PICK s \in S : s.points \in Nat /\ Points(S) = s.points
  BY <1>4, LonePoints
<1>6. s.points >= 3000
  <2>1. score >= 3000 /\ score = Capped(FullScore, s.points)
    BY <1>2, <1>5
  <2> HIDE DEF score
  <2> QED  BY <1>5, <2>1 DEF Capped, FullScore
<1> QED  BY <1>5, <1>6 DEF Worth

-----------------------------------------------------------------------------
(* The rules.                                                              *)

\* What the rules select of a list are parts of it.
LEMMA Selections ==
    ASSUME NEW tp, NEW rows
    PROVE  /\ Part(Issued(tp, rows), rows) /\ Part(Received(tp, rows), rows)
           /\ Part(Crossing(rows), rows)
           /\ Part(VatReturns(rows), rows) /\ Part(Refunds(rows), rows)
BY DEF Part, Issued, Received, Crossing, VatReturns, Refunds, RestrictValues, Restrict

LEMMA DaysAre == \A from, time \in Int : Days(from, time) \in Int
BY DEF Days

\* The profile's fields.
LEMMA ProfileIs ==
    ASSUME NEW tp \in Profiles
    PROVE  /\ tp.tin # NONE /\ tp.streak \in Nat /\ tp.turnover \in Int
           /\ tp.registered # NONE => tp.registered \in Int
           /\ tp.lastFiling # NONE => tp.lastFiling \in Int
BY ProfileAssumption

\* A cap leaves a natural number one.
LEMMA CappedIs ==
    ASSUME NEW cap \in Nat, NEW x \in Nat
    PROVE  Capped(cap, x) \in Nat /\ Capped(cap, x) <= cap /\ (x >= cap => Capped(cap, x) = cap)
           /\ (x <= cap => Capped(cap, x) = x)
BY DEF Capped

LEMMA ClaimedIs ==
    ASSUME NEW tp, NEW rows, InvoiceRows(rows)
    PROVE  ClaimedUndeclared(tp, rows) \in Nat
<1> DEFINE p == RestrictValues(Issued(tp, rows), LAMBDA i : i.buyerDecl /\ ~i.sellerDecl)
<1>1. Part(p, Issued(tp, rows))
  BY DEF Part, RestrictValues, Restrict
<1>2. InvoiceRows(p)
  BY <1>1, Selections, PartIsListed
<1>3. ClaimedUndeclared(tp, rows) = Total(p, "vat")
  BY DEF ClaimedUndeclared
<1> HIDE DEF p
<1> QED  BY <1>2, <1>3, TotalIs DEF InvoiceRows

LEMMA PostImportIs ==
    ASSUME NEW tp, NEW rows, InvoiceRows(rows), NEW time
    PROVE  /\ Signals(PostImport(tp, rows, time))
           /\ Worth(PostImport(tp, rows, time)) <=>
                 /\ tp.lastFiling # NONE /\ Days(tp.lastFiling, time) > 14
                 /\ Total(RecentImports(tp, rows, time), "vat") >= 30000
<1> DEFINE p == RecentImports(tp, rows, time)
           vat == Total(p, "vat")
           gone == tp.lastFiling # NONE /\ Days(tp.lastFiling, time) > 14
           points == Capped(3500, vat \div 10)
           A == PostImport(tp, rows, time)
<1>1. Part(p, Received(tp, rows))
  BY DEF Part, RecentImports, RestrictValues, Restrict
<1>2. InvoiceRows(p)
  BY <1>1, Selections, PartIsListed
<1>3. vat \in Nat /\ (DOMAIN p = {} => vat = 0)
  BY <1>2, TotalIs DEF InvoiceRows
<1>4. A = IF DOMAIN p # {} /\ gone
          THEN {[name |-> "post_import_disappearance", points |-> points]} ELSE {}
  BY DEF PostImport, Signal
<1> HIDE DEF vat, gone, A
<1>5. points \in Nat /\ (points >= 3000 <=> vat >= 30000)
  BY <1>3 DEF Capped
<1> HIDE DEF points
<1>6. Signals(A) /\ (Worth(A) <=> (DOMAIN p # {} /\ gone) /\ points >= 3000)
  <2> DEFINE raised == DOMAIN p # {} /\ gone
  <2>1. raised \in BOOLEAN
    BY DEF gone
  <2>2. A = IF raised THEN {[name |-> "post_import_disappearance", points |-> points]} ELSE {}
    BY <1>4
  <2> HIDE DEF raised
  <2>3. Signals(A) /\ (Worth(A) <=> raised /\ points >= 3000)
    <3>1. raised => points \in Nat
      BY <1>5, <2>1
    <3>2. OneSignal(A, points)
      BY <2>2, <3>1 DEF OneSignal
    <3>3. A # {} <=> raised
      BY <2>2
    <3> QED  BY <3>2, <3>3, WorthIs
  <2> QED  BY <2>3 DEF raised
<1>7. vat >= 30000 => DOMAIN p # {}
  <2>1. CASE DOMAIN p = {}
    <3>1. vat = 0
      BY <1>3, <2>1
    <3>2. ~(vat >= 30000)
      BY <3>1
    <3> QED  BY <3>2
  <2>2. CASE DOMAIN p # {}
    BY <2>2
  <2> QED  BY <2>1, <2>2
<1>8. Worth(A) <=> gone /\ vat >= 30000
  BY <1>5, <1>6, <1>7
<1>9. Signals(A)
  BY <1>6
<1> HIDE DEF p
<1> QED  BY <1>8, <1>9 DEF A, gone, vat, p

\* missing_trader: its signals, and when one of them is worth its threshold.
LEMMA MissingTraderSignalsAre ==
    ASSUME NEW tp \in Profiles, NEW rows, InvoiceRows(rows), NEW filed, TransactionRows(filed),
           NEW time \in Int
    PROVE  /\ Signals(MissingTraderSignals(tp, rows, filed, time))
           /\ Worth(MissingTraderSignals(tp, rows, filed, time))
                 <=> MissingAlone(tp, rows, filed, time)
<1> DEFINE age == Days(tp.registered, time)
           silent == Days(tp.lastFiling, time)
           owed == ClaimedUndeclared(tp, rows)
           never == tp.registered # NONE /\ DOMAIN VatReturns(filed) = {}
           dark == /\ tp.lastFiling # NONE /\ Days(tp.lastFiling, time) > 14
                   /\ Total(RecentImports(tp, rows, time), "vat") >= 30000
           A1 == IF never THEN Signal("never_filed", age > 30, Capped(4000, 50 * age)) ELSE {}
           A2 == IF tp.lastFiling # NONE THEN Inactive(silent) ELSE {}
           A3 == Signal("consecutive_late_filings", tp.streak >= 3, Capped(3500, 1000 * tp.streak))
           A4 == Signal("undeclared_output_vat", owed > 10000, Capped(4000, owed \div 5))
           A5 == PostImport(tp, rows, time)
           A6 == Signal("new_high_volume", tp.newly /\ tp.turnover > 1000000, 1500)
           S == MissingTraderSignals(tp, rows, filed, time)
<1>1. S = ((((A1 \cup A2) \cup A3) \cup A4) \cup A5) \cup A6
  BY DEF MissingTraderSignals
<1>2. Signals(A1) /\ (Worth(A1) <=> never /\ age >= 60)
  <2>1. CASE never
    <3>1. age \in Int
      BY <2>1, ProfileIs, DaysAre
    <3> HIDE DEF age
    <3> DEFINE points == Capped(4000, 50 * age)
               raised == age > 30
    <3>2. raised \in BOOLEAN /\ (raised => points \in Nat)
          /\ (raised /\ points >= 3000 <=> age >= 60)
      BY <3>1 DEF Capped
    <3>3. A1 = IF raised THEN {[name |-> "never_filed", points |-> points]} ELSE {}
      BY <2>1 DEF Signal
    <3> HIDE DEF A1, points, raised, never
    <3>4. Signals(A1) /\ (Worth(A1) <=> raised /\ points >= 3000)
      <4>1. raised => points \in Nat
        BY <3>2
      <4>2. OneSignal(A1, points)
        BY <3>3, <4>1 DEF OneSignal
      <4>3. A1 # {} <=> raised
        BY <3>3
      <4> QED  BY <4>2, <4>3, WorthIs
    <3> QED  BY <2>1, <3>2, <3>4
  <2>2. CASE ~never
    BY <2>2, NoSignals DEF Worth
  <2> QED  BY <2>1, <2>2
<1>3. Signals(A2) /\ (Worth(A2) <=> tp.lastFiling # NONE /\ silent > 90)
  <2>1. CASE tp.lastFiling # NONE
    <3>1. silent \in Int
      BY <2>1, ProfileIs, DaysAre
    <3> HIDE DEF silent
    <3> DEFINE points == Capped(3500, (100 * silent) \div 3)
               raised == silent > 90
    <3>2. raised \in BOOLEAN /\ (raised => points \in Nat /\ points >= 3000)
      BY <3>1 DEF Capped
    <3>3. A2 = IF raised THEN {[name |-> "inactive_trader", points |-> points]} ELSE {}
      BY <2>1 DEF Inactive, Signal
    <3> HIDE DEF A2, points
    <3>4. Signals(A2) /\ (Worth(A2) <=> raised /\ points >= 3000)
      <4>1. raised => points \in Nat
        BY <3>2
      <4>2. OneSignal(A2, points)
        BY <3>3, <4>1 DEF OneSignal
      <4>3. A2 # {} <=> raised
        BY <3>3
      <4> QED  BY <4>2, <4>3, WorthIs
    <3> QED  BY <2>1, <3>2, <3>4
  <2>2. CASE tp.lastFiling = NONE
    BY <2>2, NoSignals DEF Worth
  <2> QED  BY <2>1, <2>2
<1>4. Signals(A3) /\ (Worth(A3) <=> tp.streak >= 3)
  <2>1. tp.streak \in Nat
    BY ProfileIs
  <2> DEFINE points == Capped(3500, 1000 * tp.streak)
             raised == tp.streak >= 3
  <2>2. raised \in BOOLEAN /\ points \in Nat /\ (raised => points >= 3000)
    BY <2>1 DEF Capped
  <2>3. A3 = IF raised THEN {[name |-> "consecutive_late_filings", points |-> points]} ELSE {}
    BY DEF Signal
  <2> HIDE DEF A3, points
  <2>4. Signals(A3) /\ (Worth(A3) <=> raised /\ points >= 3000)
    <3>1. raised => points \in Nat
      BY <2>2
    <3>2. OneSignal(A3, points)
      BY <2>3, <3>1 DEF OneSignal
    <3>3. A3 # {} <=> raised
      BY <2>3
    <3> QED  BY <3>2, <3>3, WorthIs
  <2> QED  BY <2>2, <2>4
<1>5. Signals(A4) /\ (Worth(A4) <=> owed >= 15000)
  <2>1. owed \in Nat
    BY ClaimedIs
  <2> HIDE DEF owed
  <2> DEFINE points == Capped(4000, owed \div 5)
             raised == owed > 10000
  <2>2. raised \in BOOLEAN /\ points \in Nat /\ (raised /\ points >= 3000 <=> owed >= 15000)
    BY <2>1 DEF Capped
  <2>3. A4 = IF raised THEN {[name |-> "undeclared_output_vat", points |-> points]} ELSE {}
    BY DEF Signal
  <2> HIDE DEF A4, points, raised
  <2>4. Signals(A4) /\ (Worth(A4) <=> raised /\ points >= 3000)
    <3>1. raised => points \in Nat
      BY <2>2
    <3>2. OneSignal(A4, points)
      BY <2>3, <3>1 DEF OneSignal
    <3>3. A4 # {} <=> raised
      BY <2>3
    <3> QED  BY <3>2, <3>3, WorthIs
  <2> QED  BY <2>2, <2>4
<1>6. Signals(A5) /\ (Worth(A5) <=> dark)
  BY PostImportIs
<1>7. Signals(A6) /\ ~Worth(A6)
  <2>1. PICK points \in Nat : points = 1500
    BY SMT
  <2>2. A6 = {} \/ A6 = {[name |-> "new_high_volume", points |-> points]}
    BY <2>1, SMT DEF Signal
  <2> HIDE DEF A6
  <2>3. OneSignal(A6, points)
    BY <2>2 DEF OneSignal
  <2>4. Signals(A6) /\ \A s \in A6 : s.points = points
    BY <2>3, SignalIs
  <2> QED  BY <2>1, <2>4, SMT DEF Worth
<1> HIDE DEF A1, A2, A3, A4, A5, A6, S
<1>8. Signals(S)
  <2>1. Signals(A1) /\ Signals(A2) /\ Signals(A3) /\ Signals(A4) /\ Signals(A5) /\ Signals(A6)
    BY <1>2, <1>3, <1>4, <1>5, <1>6, <1>7
  <2> QED  BY <1>1, <2>1, SignalsUnion
<1>9. Worth(S) <=> Worth(A1) \/ Worth(A2) \/ Worth(A3) \/ Worth(A4) \/ Worth(A5) \/ Worth(A6)
  BY <1>1 DEF Worth
<1>10. MissingAlone(tp, rows, filed, time) <=>
           \/ tp.streak >= 3 \/ (never /\ age >= 60) \/ (tp.lastFiling # NONE /\ silent > 90)
           \/ owed >= 15000 \/ dark
  BY DEF MissingAlone
<1> HIDE DEF never, age, silent, owed, dark
<1>11. Worth(S) <=> MissingAlone(tp, rows, filed, time)
  BY <1>2, <1>3, <1>4, <1>5, <1>6, <1>7, <1>9, <1>10
<1> QED  BY <1>8, <1>11 DEF S

\* For any context the rule makes one detection at most.
LEMMA MissingTraderIs ==
    ASSUME NEW tp \in Profiles, NEW rows, InvoiceRows(rows), NEW filed, TransactionRows(filed),
           NEW time \in Int
    PROVE  /\ OneDetection(MissingTrader(tp, rows, filed, time), "missing_trader")
           /\ MissingAlone(tp, rows, filed, time) =>
                 \E d \in MissingTrader(tp, rows, filed, time) : d.rule = "missing_trader"
           /\ \A d \in MissingTrader(tp, rows, filed, time) :
                 d.confidence = 20 => MissingAlone(tp, rows, filed, time)
<1> DEFINE S == MissingTraderSignals(tp, rows, filed, time)
           D == MissingTrader(tp, rows, filed, time)
<1>1. Signals(S) /\ (Worth(S) <=> MissingAlone(tp, rows, filed, time))
  BY MissingTraderSignalsAre
<1>2. Tariff(3000, 20, 95) /\ 95 \in 90..95
  BY DEF Tariff, FullScore
<1>3. D = Detection("missing_trader", S, 3000, 20, 95)
  BY DEF MissingTrader
<1> HIDE DEF S, D
<1>4. OneDetection(D, "missing_trader") /\ Alerting(D, "missing_trader", S, 3000)
  BY <1>1, <1>2, <1>3, DetectionIs
<1>5. \A d \in D : d.confidence = 20 => Worth(S)
  BY <1>1, <1>2, <1>3, LoneSignal
<1> QED  BY <1>1, <1>4, <1>5 DEF D, Alerting, Worth

\* A signal whose points are a natural number.
LEMMA RaisedIs ==
    ASSUME NEW A, NEW name, NEW points \in Nat, A = {} \/ A = {[name |-> name, points |-> points]}
    PROVE  Signals(A)
<1>1. OneSignal(A, points)
  BY DEF OneSignal
<1> QED  BY <1>1, SignalIs

\* Pairs of rows are counted by a natural number.
LEMMA PairsAre ==
    ASSUME NEW rows, Listed(rows), NEW P \in SUBSET ((DOMAIN rows) \X (DOMAIN rows))
    PROVE  SumFunction([p \in P |-> rows[p[1]].n * rows[p[2]].n]) \in Nat
<1> DEFINE f == [p \in P |-> rows[p[1]].n * rows[p[2]].n]
<1>1. IsFiniteSet((DOMAIN rows) \X (DOMAIN rows))
  BY FS_Product DEF Listed
<1>2. IsFiniteSet(P)
  BY <1>1, FS_Subset
<1>3. ASSUME NEW p \in P  PROVE f[p] \in Nat
  <2>1. p[1] \in DOMAIN rows /\ p[2] \in DOMAIN rows
    OBVIOUS
  <2>2. rows[p[1]].n \in Nat /\ rows[p[2]].n \in Nat
    BY <2>1 DEF Listed
  <2>3. f[p] = rows[p[1]].n * rows[p[2]].n
    OBVIOUS
  <2> HIDE DEF f
  <2> QED  BY <2>2, <2>3
<1>4. SumFunction(f) = SumOver(f, P)
  BY SumFunctionIs
<1> HIDE DEF f
<1>5. SumFunction(f) \in Nat
  BY <1>2, <1>3, <1>4, SumOverNat
<1> QED  BY <1>5 DEF f

\* What is counted of a carousel is.
LEMMA CarouselCounts ==
    ASSUME NEW rows, InvoiceRows(rows)
    PROVE  /\ Count(RestrictValues(rows, LAMBDA i : i.heading \in HighRiskHeadings)) \in Nat
           /\ PriceDrops(rows) \in Nat
           /\ RapidResales(rows) \in Nat
<1>0. Listed(rows)
  BY DEF InvoiceRows
<1>1. Count(RestrictValues(rows, LAMBDA i : i.heading \in HighRiskHeadings)) \in Nat
  <2> DEFINE p == RestrictValues(rows, LAMBDA i : i.heading \in HighRiskHeadings)
  <2>1. Part(p, rows)
    BY DEF Part, RestrictValues, Restrict
  <2> HIDE DEF p
  <2>2. Count(p) \in Nat
    BY <1>0, <2>1, PartIsListed, CountIs
  <2> QED  BY <2>2 DEF p
<1>2. PriceDrops(rows) \in Nat
  <2>1. \E K \in SUBSET (DOMAIN rows) : PriceDrops(rows) = Count(Restrict(rows, K))
    BY DEF PriceDrops, PriceDropsIn
  <2>2. PICK K \in SUBSET (DOMAIN rows) : PriceDrops(rows) = Count(Restrict(rows, K))
    BY <2>1
  <2>3. Part(Restrict(rows, K), rows)
    BY DEF Part, Restrict
  <2> QED  BY <1>0, <2>2, <2>3, PartIsListed, CountIs
<1>3. RapidResales(rows) \in Nat
  <2> DEFINE P == {p \in (DOMAIN rows) \X (DOMAIN rows) :
                      /\ rows[p[1]].buyer # NONE /\ rows[p[2]].seller = rows[p[1]].buyer
                      /\ Apart(rows[p[2]].hour, rows[p[1]].hour) <= 24}
  <2>1. RapidResales(rows) = SumFunction([p \in P |-> rows[p[1]].n * rows[p[2]].n])
    BY DEF RapidResales, Pairs
  <2>2. P \in SUBSET ((DOMAIN rows) \X (DOMAIN rows))
    OBVIOUS
  <2> HIDE DEF P
  <2> QED  BY <1>0, <2>1, <2>2, PairsAre
<1> QED  BY <1>1, <1>2, <1>3

\* The signals of a carousel that need no chain.
Risky(rows) == Count(RestrictValues(rows, LAMBDA i : i.heading \in HighRiskHeadings))
RiskySignal(rows) ==
    Signal("high_risk_commodities", Risky(rows) > 0, Capped(2500, 300 * Risky(rows)))
DropsSignal(rows) ==
    Signal("price_drops_in_chain", PriceDrops(rows) > 0, Capped(2000, 800 * PriceDrops(rows)))
ResalesSignal(rows) ==
    Signal("rapid_resales", RapidResales(rows) > 0, Capped(2000, 500 * RapidResales(rows)))
ChainlessSignals(rows) == RiskySignal(rows) \cup DropsSignal(rows) \cup ResalesSignal(rows)

\* ... and the one that needs a chain and trade across a border.
CrossingSignal(rows) ==
    Signal("cross_border_carousel",
           Chains(Edges(rows)) # {} /\ DOMAIN Crossing(rows) # {},
           Capped(2000, 500 * Cardinality(CrossedCountries(rows))))

LEMMA CarouselSignalsSplit ==
    ASSUME NEW rows
    PROVE  CarouselSignals(rows)
            = CircularSignal(Chains(Edges(rows))) \cup ChainlessSignals(rows) \cup CrossingSignal(rows)
<1>1. CarouselSignals(rows)
        = CircularSignal(Chains(Edges(rows))) \cup RiskySignal(rows) \cup DropsSignal(rows)
          \cup ResalesSignal(rows) \cup CrossingSignal(rows)
  BY DEF CarouselSignals, Risky, RiskySignal, DropsSignal, ResalesSignal, CrossingSignal
<1> QED  BY <1>1 DEF ChainlessSignals

LEMMA ChainlessSignalsAre ==
    ASSUME NEW rows, InvoiceRows(rows)
    PROVE  Signals(ChainlessSignals(rows))
<1>1. Risky(rows) \in Nat /\ PriceDrops(rows) \in Nat /\ RapidResales(rows) \in Nat
  BY CarouselCounts DEF Risky
<1>2. Signals(RiskySignal(rows))
  <2> DEFINE points == Capped(2500, 300 * Risky(rows))
  <2>1. points \in Nat
    BY <1>1 DEF Capped
  <2>2. RiskySignal(rows) = {}
        \/ RiskySignal(rows) = {[name |-> "high_risk_commodities", points |-> points]}
    BY DEF RiskySignal, Signal
  <2> HIDE DEF points
  <2> QED  BY <2>1, <2>2, RaisedIs
<1>3. Signals(DropsSignal(rows))
  <2> DEFINE points == Capped(2000, 800 * PriceDrops(rows))
  <2>1. points \in Nat
    BY <1>1 DEF Capped
  <2>2. DropsSignal(rows) = {}
        \/ DropsSignal(rows) = {[name |-> "price_drops_in_chain", points |-> points]}
    BY DEF DropsSignal, Signal
  <2> HIDE DEF points
  <2> QED  BY <2>1, <2>2, RaisedIs
<1>4. Signals(ResalesSignal(rows))
  <2> DEFINE points == Capped(2000, 500 * RapidResales(rows))
  <2>1. points \in Nat
    BY <1>1 DEF Capped
  <2>2. ResalesSignal(rows) = {}
        \/ ResalesSignal(rows) = {[name |-> "rapid_resales", points |-> points]}
    BY DEF ResalesSignal, Signal
  <2> HIDE DEF points
  <2> QED  BY <2>1, <2>2, RaisedIs
<1> QED  BY <1>2, <1>3, <1>4, SignalsUnion DEF ChainlessSignals

\* carousel_fraud: without a chain it has three signals at most.
LEMMA CarouselIs ==
    ASSUME NEW rows, InvoiceRows(rows), Chains(Edges(rows)) = {}
    PROVE  OneDetection(Carousel(rows), "carousel_fraud")
<1> DEFINE S == CarouselSignals(rows)
<1>1. S = ChainlessSignals(rows)
  <2>1. CircularSignal(Chains(Edges(rows))) = {}
    BY DEF CircularSignal, Signal
  <2>2. CrossingSignal(rows) = {}
    BY DEF CrossingSignal, Signal
  <2> QED  BY <2>1, <2>2, CarouselSignalsSplit
<1>2. Signals(S)
  BY <1>1, ChainlessSignalsAre
<1>3. Tariff(3500, 25, 95)
  BY DEF Tariff, FullScore
<1>4. Carousel(rows) = Detection("carousel_fraud", S, 3500, 25, 95)
  BY DEF Carousel
<1> DEFINE D == Carousel(rows)
<1> HIDE DEF S, D
<1>5. OneDetection(D, "carousel_fraud")
  BY <1>2, <1>3, <1>4, DetectionIs DEF D
<1> QED  BY <1>5 DEF D

\* Without a chain there is no network anomaly.
LEMMA NoNetworkAnomaly ==
    ASSUME NEW rows, Chains(Edges(rows)) = {}
    PROVE  NetworkAnomaly(rows) = {}
BY DEF NetworkAnomaly, CircularChains

\* The busiest day has some of the rows, if there are any.
LEMMA BusiestDayIs ==
    ASSUME NEW rows, InvoiceRows(rows), DOMAIN rows # {}
    PROVE  BusiestDay(rows) \in Nat
<1> DEFINE On(day) == RestrictValues(rows, LAMBDA i : i.hour \div 24 = day)
           days == {i.hour \div 24 : i \in Range(rows)}
           S == {Count(On(day)) : day \in days}
<1>1. IsFiniteSet(S) /\ S # {}
  <2>0. days = {rows[k].hour \div 24 : k \in DOMAIN rows}
    BY DEF Range
  <2> HIDE DEF On, days
  <2>1. S = {Count(On(rows[k].hour \div 24)) : k \in DOMAIN rows}
    BY <2>0
  <2> DEFINE f == [k \in DOMAIN rows |-> Count(On(rows[k].hour \div 24))]
  <2>2. f \in Surjection(DOMAIN rows, S)
    BY <2>1 DEF Surjection
  <2> HIDE DEF f, S
  <2>3. IsFiniteSet(S)
    BY <2>2, FS_Surjection DEF InvoiceRows, Listed
  <2>4. S # {}
    <3>1. PICK k \in DOMAIN rows : TRUE
      OBVIOUS
    <3>2. Count(On(rows[k].hour \div 24)) \in S
      BY <2>1
    <3> QED  BY <3>2
  <2> QED  BY <2>3, <2>4
<1>2. S \in SUBSET Int
  <2>1. ASSUME NEW day  PROVE Count(On(day)) \in Int
    <3>1. Part(On(day), rows)
      BY DEF Part, RestrictValues, Restrict
    <3> HIDE DEF On
    <3>2. Count(On(day)) \in Nat
      BY <3>1, PartIsListed, CountIs DEF InvoiceRows
    <3> QED  BY <3>2
  <2> HIDE DEF On, days
  <2> QED  BY <2>1
<1>3. \A x \in S : x \in Nat
  <2>1. ASSUME NEW day  PROVE Count(On(day)) \in Nat
    <3>1. Part(On(day), rows)
      BY DEF Part, RestrictValues, Restrict
    <3> HIDE DEF On
    <3> QED  BY <3>1, PartIsListed, CountIs DEF InvoiceRows
  <2> HIDE DEF On, days
  <2> QED  BY <2>1
<1>4. BusiestDay(rows) = Max(S)
  BY DEF BusiestDay
<1> HIDE DEF S
<1> QED  BY <1>1, <1>2, <1>3, <1>4, MaxOfFinite

\* How far the leading digits are from Benford's.
LEMMA BenfordDeviationIs ==
    ASSUME NEW rows, InvoiceRows(rows)
    PROVE  BenfordDeviation(rows) \in Nat
<1> DEFINE w == [d \in 1..9 |-> WithDigit(rows, d)]
           n == SumFunction(w)
           f == [d \in 1..9 |-> Apart((10000 * WithDigit(rows, d)) \div n, BenfordExpected[d])]
<1>1. ASSUME NEW d \in 1..9  PROVE WithDigit(rows, d) \in Nat
  <2> DEFINE p == RestrictValues(rows, LAMBDA i : i.net > 0 /\ LeadingDigit(i.net) = d)
  <2>1. Part(p, rows)
    BY DEF Part, RestrictValues, Restrict
  <2>2. WithDigit(rows, d) = Count(p)
    BY DEF WithDigit
  <2> HIDE DEF p
  <2> QED  BY <2>1, <2>2, PartIsListed, CountIs DEF InvoiceRows
<1>2. IsFiniteSet(1..9)
  <2>1. 1 \in Int /\ 9 \in Int
    OBVIOUS
  <2> QED  BY <2>1, FS_Interval
<1>3. n \in Nat
  <2>1. DOMAIN w = 1..9 /\ \A d \in 1..9 : w[d] \in Nat
    BY <1>1
  <2> HIDE DEF w
  <2> QED  BY <1>2, <2>1, SumFunctionIs, SumOverNat
<1>4. BenfordDeviation(rows) = IF n = 0 THEN 0 ELSE SumFunction(f) \div 9
  BY DEF BenfordDeviation
<1>5. n # 0 => SumFunction(f) \in Nat
  <2> SUFFICES ASSUME n # 0 PROVE SumFunction(f) \in Nat
    OBVIOUS
  <2> HIDE DEF n
  <2>1. ASSUME NEW d \in 1..9  PROVE f[d] \in Nat
    <3> DEFINE a == (10000 * WithDigit(rows, d)) \div n
    <3>1. a \in Nat
      BY <1>1, <1>3
    <3>2. BenfordExpected[d] \in Int
      BY SMT DEF BenfordExpected
    <3>3. f[d] = Apart(a, BenfordExpected[d])
      OBVIOUS
    <3>4. \A x \in Nat, y \in Int : Apart(x, y) \in Nat
      BY DEF Apart
    <3> HIDE DEF f, a
    <3>5. Apart(a, BenfordExpected[d]) \in Nat
      BY <3>1, <3>2, <3>4
    <3> QED  BY <3>3, <3>5
  <2>2. DOMAIN f = 1..9
    OBVIOUS
  <2> HIDE DEF f
  <2> QED  BY <1>2, <2>1, <2>2, SumFunctionIs, SumOverNat
<1> HIDE DEF n, f
<1>6. CASE n = 0
  BY <1>4, <1>6
<1>7. CASE n # 0
  <2>1. SumFunction(f) \div 9 \in Nat
    BY <1>5, <1>7
  <2> QED  BY <1>4, <1>7, <2>1
<1> QED  BY <1>6, <1>7

\* invoice_mill: none of its signals divides by nothing.
LEMMA InvoiceMillSignalsAre ==
    ASSUME NEW tp, NEW rows, InvoiceRows(rows)
    PROVE  Signals(InvoiceMillSignals(tp, rows))
<1> DEFINE issued == Issued(tp, rows)
           n == Count(issued)
           p == RestrictValues(issued, LAMBDA i : IsRoundAmount(i.net))
           round == Count(p)
           buyers == {i.buyer : i \in Range(issued)}
           A1 == Signal("high_volume", BusiestDay(issued) >= 30,
                        Capped(3000, 50 * BusiestDay(issued)))
           A2 == Signal("round_amounts", 10 * round >= 7 * n,
                        Capped(2500, (3000 * round) \div n))
           A3 == Signal("no_purchase_invoices", 20 * Count(Received(tp, rows)) < n, 2500)
           A4 == Signal("concentrated_buyers", Cardinality(buyers) <= 3 /\ n > 20, 1500)
           A5 == Signal("benford_anomaly", n >= 20 /\ BenfordDeviation(issued) > 1500,
                        Capped(2000, (8 * BenfordDeviation(issued)) \div 10))
           A6 == Signal("new_entity_high_volume", tp.newly, 1000)
           S == InvoiceMillSignals(tp, rows)
<1>1. S = IF n = 0 THEN {} ELSE A1 \cup A2 \cup A3 \cup A4 \cup A5 \cup A6
  BY DEF InvoiceMillSignals
<1>2. InvoiceRows(issued)
  BY Selections, PartIsListed
<1>3. n \in Nat /\ (n # 0 => DOMAIN issued # {})
  BY <1>2, CountIs DEF InvoiceRows
<1>4. round \in Nat
  <2>1. Part(p, issued)
    BY DEF Part, RestrictValues, Restrict
  <2> HIDE DEF p, issued
  <2> QED  BY <1>2, <2>1, PartIsListed, CountIs DEF InvoiceRows
<1>5. CASE n = 0
  <2> HIDE DEF n, A1, A2, A3, A4, A5, A6, S
  <2> QED  BY <1>1, <1>5, NoSignals DEF S
<1>6. CASE n # 0
  <2>1. Signals(A1)
    <3>1. BusiestDay(issued) \in Nat
      BY <1>2, <1>3, <1>6, BusiestDayIs
    <3> DEFINE points == Capped(3000, 50 * BusiestDay(issued))
    <3>2. points \in Nat
      BY <3>1 DEF Capped
    <3>3. A1 = {} \/ A1 = {[name |-> "high_volume", points |-> points]}
      BY DEF Signal
    <3> HIDE DEF A1, points
    <3> QED  BY <3>2, <3>3, RaisedIs
  <2>2. Signals(A2)
    <3> HIDE DEF n, round
    <3> DEFINE points == Capped(2500, (3000 * round) \div n)
    <3>1. (3000 * round) \div n \in Nat
      BY <1>3, <1>4, <1>6
    <3>2. points \in Nat
      BY <3>1 DEF Capped
    <3>3. A2 = {} \/ A2 = {[name |-> "round_amounts", points |-> points]}
      BY DEF Signal
    <3> HIDE DEF A2, points
    <3> QED  BY <3>2, <3>3, RaisedIs
  <2>3. Signals(A3)
    <3>1. PICK points \in Nat : points = 2500
      BY SMT
    <3>2. A3 = {} \/ A3 = {[name |-> "no_purchase_invoices", points |-> points]}
      BY <3>1, SMT DEF Signal
    <3> HIDE DEF A3
    <3> QED  BY <3>2, RaisedIs
  <2>4. Signals(A4)
    <3> HIDE DEF n, buyers
    <3>1. PICK points \in Nat : points = 1500
      BY SMT
    <3>2. A4 = {} \/ A4 = {[name |-> "concentrated_buyers", points |-> points]}
      BY <3>1, SMT DEF Signal
    <3> HIDE DEF A4
    <3> QED  BY <3>2, RaisedIs
  <2>5. Signals(A5)
    <3>1. BenfordDeviation(issued) \in Nat
      BY <1>2, BenfordDeviationIs
    <3> DEFINE points == Capped(2000, (8 * BenfordDeviation(issued)) \div 10)
    <3>2. points \in Nat
      BY <3>1 DEF Capped
    <3>3. A5 = {} \/ A5 = {[name |-> "benford_anomaly", points |-> points]}
      BY DEF Signal
    <3> HIDE DEF A5, points
    <3> QED  BY <3>2, <3>3, RaisedIs
  <2>6. Signals(A6)
    <3>1. PICK points \in Nat : points = 1000
      BY SMT
    <3>2. A6 = {} \/ A6 = {[name |-> "new_entity_high_volume", points |-> points]}
      BY <3>1, SMT DEF Signal
    <3> HIDE DEF A6
    <3> QED  BY <3>2, RaisedIs
  <2> HIDE DEF n, A1, A2, A3, A4, A5, A6, S
  <2>7. S = A1 \cup A2 \cup A3 \cup A4 \cup A5 \cup A6
    BY <1>1, <1>6
  <2> QED  BY <2>1, <2>2, <2>3, <2>4, <2>5, <2>6, <2>7, SignalsUnion DEF S
<1> QED  BY <1>5, <1>6

LEMMA InvoiceMillIs ==
    ASSUME NEW tp, NEW rows, InvoiceRows(rows)
    PROVE  OneDetection(InvoiceMill(tp, rows), "invoice_mill")
<1> DEFINE S == InvoiceMillSignals(tp, rows)
           D == InvoiceMill(tp, rows)
<1>1. Signals(S)
  BY InvoiceMillSignalsAre
<1>2. Tariff(3000, 20, 90)
  BY DEF Tariff, FullScore
<1>3. D = Detection("invoice_mill", S, 3000, 20, 90)
  BY DEF InvoiceMill
<1> HIDE DEF S, D
<1>4. OneDetection(D, "invoice_mill")
  BY <1>1, <1>2, <1>3, DetectionIs
<1> QED  BY <1>4 DEF D

\* benford_analysis.
LEMMA BenfordTestIs ==
    ASSUME NEW rows
    PROVE  OneDetection(BenfordTest(rows), "benford_analysis")
<1> DEFINE D == BenfordTest(rows)
<1>1. PICK score, severity, confidence :
         /\ score \in 3000..FullScore /\ confidence \in 1..95 /\ severity # "critical"
         /\ \/ D = {}
            \/ D = {[rule |-> "benford_analysis", confidence |-> confidence,
                     score |-> score, severity |-> severity]}
  <2> DEFINE positive == RestrictValues(rows, LAMBDA i : i.net > 0)
             chi == ChiSquared(positive, Count(positive))
             strong == chi > 2009
             score == IF strong THEN 8000 ELSE 7600
             severity == IF strong THEN "high" ELSE "medium"
  <2>1. \/ D = {}
        \/ D = {[rule |-> "benford_analysis", confidence |-> 90,
                 score |-> score, severity |-> severity]}
    <3>1. D = IF Count(positive) < 30 \/ chi <= 1551 THEN {}
              ELSE {[rule |-> "benford_analysis", confidence |-> 90,
                     score |-> score, severity |-> severity]}
      BY DEF BenfordTest
    <3> HIDE DEF D, score, severity, positive, chi
    <3> QED  BY <3>1
  <2> HIDE DEF strong
  <2>2. score \in 3000..FullScore
    BY SMT DEF FullScore
  <2>3. severity # "critical"
    OBVIOUS
  <2> HIDE DEF D, score, severity
  <2>4. 90 \in 1..95
    OBVIOUS
  <2> QED  BY <2>1, <2>2, <2>3, <2>4
<1> DEFINE d == [rule |-> "benford_analysis", confidence |-> confidence,
                 score |-> score, severity |-> severity]
<1>2. Detected(d, "benford_analysis")
  BY <1>1 DEF Detected
<1> HIDE DEF D
<1>3. CASE D = {}
  BY <1>3, NoDetection DEF D
<1>4. CASE D = {d}
  <2> HIDE DEF d
  <2>1. OneDetection(D, "benford_analysis")
    BY <1>2, <1>4, FS_Singleton DEF OneDetection
  <2> QED  BY <2>1 DEF D
<1> QED  BY <1>1, <1>3, <1>4

\* refund_fraud: refunds over 80% of the output VAT are worth 32 points.
LEMMA RefundRatioIs ==
    ASSUME NEW refund \in Int, NEW output \in Int
    PROVE  /\ Signals(RefundRatio(refund, output))
           /\ Worth(RefundRatio(refund, output)) <=> output > 0 /\ 10 * refund > 8 * output
<1> DEFINE high == output > 0 /\ 10 * refund > 8 * output
           points == Capped(4000, (4000 * refund) \div output)
           A == RefundRatio(refund, output)
<1>1. high => points \in Nat /\ points >= 3000
  <2> SUFFICES ASSUME high PROVE points \in Nat /\ points >= 3000
    OBVIOUS
  <2> DEFINE q == (4000 * refund) \div output
  <2>1. 4000 * refund >= 3200 * output
    OBVIOUS
  <2>2. q \in Int /\ q >= 3200
    BY <2>1
  <2> HIDE DEF q
  <2>3. points = Capped(4000, q)
    BY DEF q
  <2> QED  BY <2>2, <2>3 DEF Capped
<1>2. A = IF high THEN {[name |-> "high_refund_to_output_ratio", points |-> points]} ELSE {}
  BY DEF RefundRatio, Signal
<1>3. high \in BOOLEAN
  OBVIOUS
<1> HIDE DEF high, points, A
<1>4. Signals(A) /\ (Worth(A) <=> high /\ points >= 3000)
  <2>1. high => points \in Nat
    BY <1>1, <1>3
  <2>2. OneSignal(A, points)
    BY <1>2, <2>1 DEF OneSignal
  <2>3. A # {} <=> high
    BY <1>2
  <2> QED  BY <2>2, <2>3, WorthIs
<1>5. Signals(A) /\ (Worth(A) <=> high)
  BY <1>1, <1>4
<1> QED  BY <1>5 DEF A, high

\* The spike compares the last claim with the others: there are two at least.
LEMMA RefundSpikeIs ==
    ASSUME NEW refunds, TransactionRows(refunds)
    PROVE  /\ Signals(RefundSpike(refunds))
           /\ Worth(RefundSpike(refunds)) <=> SixfoldClaim(refunds)
<1> DEFINE latest == refunds[Max(DOMAIN refunds)].refund
           others == Count(refunds) - 1
           sum == Total(refunds, "refund") - latest
           high == sum > 0 /\ latest * others > 3 * sum
           points == Capped(3000, (500 * latest * others) \div sum)
           A == RefundSpike(refunds)
<1>1. /\ Count(refunds) \in Nat /\ Total(refunds, "refund") \in Int
      /\ Count(refunds) # 0 => DOMAIN refunds # {}
  BY CountIs, TotalIs DEF TransactionRows
<1>2. CASE Count(refunds) < 2
  <2>1. A = {}
    BY <1>2 DEF RefundSpike
  <2>2. ~(Count(refunds) >= 2)
    BY <1>1, <1>2
  <2>3. ~SixfoldClaim(refunds)
    BY <2>2 DEF SixfoldClaim
  <2> QED  BY <2>1, <2>3, NoSignals DEF Worth
<1>3. CASE ~(Count(refunds) < 2)
  <2>1. DOMAIN refunds # {} /\ DOMAIN refunds \in SUBSET Int /\ IsFiniteSet(DOMAIN refunds)
    BY <1>1, <1>3 DEF TransactionRows, Listed
  <2>2. Max(DOMAIN refunds) \in DOMAIN refunds
    BY <2>1, MaxOfFinite
  <2>3. latest \in Int
    BY <2>2 DEF TransactionRows
  <2>4. others \in Int /\ sum \in Int /\ Count(refunds) >= 2
    BY <1>1, <1>3, <2>3
  <2>5. A = IF high THEN {[name |-> "refund_spike", points |-> points]} ELSE {}
    BY <1>3 DEF RefundSpike, Signal
  <2>6. SixfoldClaim(refunds) <=> sum > 0 /\ latest * others >= 6 * sum
    BY <2>4 DEF SixfoldClaim
  <2> HIDE DEF latest, others, sum, A
  <2>7. PICK x \in Int : x = latest * others
    BY <2>3, <2>4
  <2>8. 500 * latest * others = 500 * x
    BY <2>3, <2>4, <2>7
  <2>9. sum > 0 /\ x > 3 * sum => (500 * x) \div sum \in Nat
    BY <2>4, <2>7
  <2>10. sum > 0 => ((500 * x) \div sum >= 3000 <=> x >= 6 * sum)
    <3> SUFFICES ASSUME sum > 0 PROVE (500 * x) \div sum >= 3000 <=> x >= 6 * sum
      OBVIOUS
    <3> DEFINE q == (500 * x) \div sum
    <3>1. q \in Int /\ q * sum <= 500 * x /\ 500 * x < (q + 1) * sum
      BY <2>4, <2>7
    <3> HIDE DEF q
    <3>2. ASSUME q >= 3000  PROVE x >= 6 * sum
      <4>1. q * sum >= 3000 * sum
        BY <2>4, <3>1, <3>2
      <4> QED  BY <2>4, <2>7, <3>1, <4>1
    <3>3. ASSUME ~(q >= 3000)  PROVE ~(x >= 6 * sum)
      <4>1. (q + 1) * sum <= 3000 * sum
        BY <2>4, <3>1, <3>3
      <4> QED  BY <2>4, <2>7, <3>1, <4>1
    <3> QED  BY <3>2, <3>3 DEF q
  <2>11. high \in BOOLEAN /\ (high => points \in Nat)
         /\ (high /\ points >= 3000 <=> sum > 0 /\ latest * others >= 6 * sum)
    <3> DEFINE q == (500 * x) \div sum
    <3>1. points = Capped(3000, q) /\ (high <=> sum > 0 /\ x > 3 * sum)
      BY <2>7, <2>8
    <3>2. sum > 0 /\ x >= 6 * sum => x > 3 * sum
      BY <2>4, <2>7
    <3> HIDE DEF q, points
    <3>3. high => q \in Nat
      BY <2>9, <3>1 DEF q
    <3>4. high => points \in Nat /\ (points >= 3000 <=> q >= 3000)
      BY <3>1, <3>3 DEF Capped
    <3>5. high \in BOOLEAN
      OBVIOUS
    <3>6. sum > 0 => (q >= 3000 <=> x >= 6 * sum)
      BY <2>10 DEF q
    <3> HIDE DEF high
    <3> QED  BY <2>7, <3>1, <3>2, <3>4, <3>5, <3>6
  <2> HIDE DEF high, points
  <2>12. Signals(A) /\ (Worth(A) <=> high /\ points >= 3000)
    <3>1. high => points \in Nat
      BY <2>11
    <3>2. OneSignal(A, points)
      BY <2>5, <3>1 DEF OneSignal
    <3>3. A # {} <=> high
      BY <2>5
    <3> QED  BY <3>2, <3>3, WorthIs
  <2>13. Signals(A) /\ (Worth(A) <=> SixfoldClaim(refunds))
    BY <2>6, <2>11, <2>12
  <2> QED  BY <2>13 DEF A
<1> QED  BY <1>2, <1>3

LEMMA PhantomExportsIs ==
    ASSUME NEW issued, InvoiceRows(issued)
    PROVE  /\ Signals(PhantomExports(issued))
           /\ Worth(PhantomExports(issued)) <=>
                 /\ DOMAIN Crossing(issued) # {}
                 /\ 4 * Count(RestrictValues(Crossing(issued), LAMBDA i : ~i.customs))
                        >= 3 * Count(Crossing(issued))
<1> DEFINE p == RestrictValues(Crossing(issued), LAMBDA i : ~i.customs)
           exports == Count(Crossing(issued))
           bare == Count(p)
           raised == 2 * bare > exports
           points == Capped(3500, (4000 * bare) \div exports)
           A == PhantomExports(issued)
<1>1. InvoiceRows(Crossing(issued))
  BY Selections, PartIsListed
<1>2. Part(p, Crossing(issued))
  BY DEF Part, RestrictValues, Restrict
<1>3. InvoiceRows(p)
  BY <1>1, <1>2, PartIsListed
<1>4. A = IF raised THEN {[name |-> "phantom_exporter", points |-> points]} ELSE {}
  BY DEF PhantomExports, Signal
<1> HIDE DEF p
<1>5. exports \in Nat /\ bare \in Nat /\ (exports = 0 => bare = 0)
      /\ (exports = 0 <=> DOMAIN Crossing(issued) = {})
  <2>1. exports = 0 <=> DOMAIN Crossing(issued) = {}
    BY <1>1, CountIs DEF InvoiceRows
  <2>2. DOMAIN p = {} => bare = 0
    BY <1>3, CountIs DEF InvoiceRows
  <2>3. exports \in Nat /\ bare \in Nat
    BY <1>1, <1>3, CountIs DEF InvoiceRows
  <2>4. DOMAIN p \subseteq DOMAIN Crossing(issued)
    BY <1>2 DEF Part
  <2> QED  BY <2>1, <2>2, <2>3, <2>4
<1> HIDE DEF exports, bare, A
<1>6. /\ raised \in BOOLEAN /\ (raised => points \in Nat)
      /\ (raised /\ points >= 3000 <=> exports # 0 /\ 4 * bare >= 3 * exports)
  <2>1. CASE exports = 0
    BY <1>5, <2>1
  <2>2. CASE exports # 0
    <3> DEFINE q == (4000 * bare) \div exports
    <3>1. /\ q \in Nat /\ q * exports <= 4000 * bare /\ 4000 * bare < (q + 1) * exports
          /\ exports > 0
      BY <1>5, <2>2
    <3>2. points = Capped(3500, q)
      OBVIOUS
    <3> HIDE DEF q, points
    <3>3. ASSUME q >= 3000  PROVE 4 * bare >= 3 * exports
      <4>1. q * exports >= 3000 * exports
        BY <1>5, <3>1, <3>3
      <4> QED  BY <1>5, <3>1, <4>1
    <3>4. ASSUME ~(q >= 3000)  PROVE ~(4 * bare >= 3 * exports)
      <4>1. (q + 1) * exports <= 3000 * exports
        BY <1>5, <3>1, <3>4
      <4> QED  BY <1>5, <3>1, <4>1
    <3>5. 4 * bare >= 3 * exports => raised
      BY <1>5, <3>1
    <3>6. points \in Nat /\ (points >= 3000 <=> q >= 3000)
      BY <3>1, <3>2 DEF Capped
    <3>7. raised \in BOOLEAN
      OBVIOUS
    <3> HIDE DEF raised
    <3> QED  BY <2>2, <3>3, <3>4, <3>5, <3>6, <3>7
  <2> QED  BY <2>1, <2>2
<1> HIDE DEF points, raised
<1>7. Signals(A) /\ (Worth(A) <=> raised /\ points >= 3000)
  <2>1. raised => points \in Nat
    BY <1>6
  <2>2. OneSignal(A, points)
    BY <1>4, <2>1 DEF OneSignal
  <2>3. A # {} <=> raised
    BY <1>4
  <2> QED  BY <2>2, <2>3, WorthIs
<1>8. Signals(A) /\ (Worth(A) <=> DOMAIN Crossing(issued) # {} /\ 4 * bare >= 3 * exports)
  <2> DEFINE most == 4 * bare >= 3 * exports
  <2>1. raised /\ points >= 3000 <=> exports # 0 /\ most
    BY <1>6
  <2>2. exports # 0 <=> DOMAIN Crossing(issued) # {}
    BY <1>5
  <2> HIDE DEF most
  <2>3. Worth(A) <=> DOMAIN Crossing(issued) # {} /\ most
    BY <1>7, <2>1, <2>2
  <2> QED  BY <1>7, <2>3 DEF most
<1> QED  BY <1>8 DEF A, bare, exports, p

\* refund_fraud: its signals, and when one of them is worth its threshold.
LEMMA RefundFraudSignalsAre ==
    ASSUME NEW tp \in Profiles, NEW rows, InvoiceRows(rows), NEW filed, TransactionRows(filed)
    PROVE  /\ Signals(RefundFraudSignals(tp, rows, filed))
           /\ Worth(RefundFraudSignals(tp, rows, filed)) <=> RefundAlone(tp, rows, filed)
<1> DEFINE refund == Total(Refunds(filed), "refund")
           output == Total(VatReturns(filed), "output")
           dubious == RestrictValues(Received(tp, rows), LAMBDA i : i.suspicious)
           flagged == Count(dubious)
           raised == RestrictValues(filed, LAMBDA t : t.kind = "amended_return" /\ t.refund > 0)
           amended == Count(raised)
           exports == Crossing(Issued(tp, rows))
           bare == /\ DOMAIN exports # {}
                   /\ 4 * Count(RestrictValues(exports, LAMBDA i : ~i.customs)) >= 3 * Count(exports)
           A1 == RefundRatio(refund, output)
           A2 == RefundSpike(Refunds(filed))
           A3 == PhantomExports(Issued(tp, rows))
           A4 == Signal("refund_from_flagged_suppliers", flagged > 0, Capped(3000, 500 * flagged))
           A5 == Signal("frequent_amendments", amended >= 3, Capped(3500, 1000 * amended))
           A6 == Signal("high_refund_to_turnover", tp.turnover > 0 /\ 4 * refund > tp.turnover,
                        Capped(2000, (4000 * refund) \div tp.turnover))
           S == RefundFraudSignals(tp, rows, filed)
<1>1. S = A1 \cup A2 \cup A3 \cup A4 \cup A5 \cup A6
  BY DEF RefundFraudSignals
<1>2. /\ TransactionRows(Refunds(filed)) /\ TransactionRows(VatReturns(filed))
      /\ InvoiceRows(Issued(tp, rows)) /\ InvoiceRows(Received(tp, rows))
  BY Selections, PartIsListed
<1>3. refund \in Int /\ output \in Int
  BY <1>2, TotalIs DEF TransactionRows
<1>4. flagged \in Nat
  <2>1. Part(dubious, Received(tp, rows))
    BY DEF Part, RestrictValues, Restrict
  <2> HIDE DEF dubious
  <2> QED  BY <1>2, <2>1, PartIsListed, CountIs DEF InvoiceRows
<1>5. amended \in Nat
  <2>1. Part(raised, filed)
    BY DEF Part, RestrictValues, Restrict
  <2> HIDE DEF raised
  <2> QED  BY <2>1, PartIsListed, CountIs DEF TransactionRows
<1>6. Signals(A1) /\ (Worth(A1) <=> output > 0 /\ 10 * refund > 8 * output)
  <2> HIDE DEF refund, output
  <2> QED  BY <1>3, RefundRatioIs
<1>7. Signals(A2) /\ (Worth(A2) <=> SixfoldClaim(Refunds(filed)))
  BY <1>2, RefundSpikeIs
<1>8. Signals(A3) /\ (Worth(A3) <=> bare)
  BY <1>2, PhantomExportsIs
<1>9. Signals(A4) /\ (Worth(A4) <=> flagged >= 6)
  <2> HIDE DEF flagged
  <2> DEFINE points == Capped(3000, 500 * flagged)
             some == flagged > 0
  <2>1. some \in BOOLEAN /\ points \in Nat /\ (some /\ points >= 3000 <=> flagged >= 6)
    BY <1>4 DEF Capped
  <2>2. A4 = IF some THEN {[name |-> "refund_from_flagged_suppliers", points |-> points]} ELSE {}
    BY DEF Signal
  <2> HIDE DEF A4, points, some
  <2>3. Signals(A4) /\ (Worth(A4) <=> some /\ points >= 3000)
    <3>1. some => points \in Nat
      BY <2>1
    <3>2. OneSignal(A4, points)
      BY <2>2, <3>1 DEF OneSignal
    <3>3. A4 # {} <=> some
      BY <2>2
    <3> QED  BY <3>2, <3>3, WorthIs
  <2> QED  BY <2>1, <2>3
<1>10. Signals(A5) /\ (Worth(A5) <=> amended >= 3)
  <2> HIDE DEF amended
  <2> DEFINE points == Capped(3500, 1000 * amended)
             many == amended >= 3
  <2>1. many \in BOOLEAN /\ points \in Nat /\ (many => points >= 3000)
    BY <1>5 DEF Capped
  <2>2. A5 = IF many THEN {[name |-> "frequent_amendments", points |-> points]} ELSE {}
    BY DEF Signal
  <2> HIDE DEF A5, points
  <2>3. Signals(A5) /\ (Worth(A5) <=> many /\ points >= 3000)
    <3>1. many => points \in Nat
      BY <2>1
    <3>2. OneSignal(A5, points)
      BY <2>2, <3>1 DEF OneSignal
    <3>3. A5 # {} <=> many
      BY <2>2
    <3> QED  BY <3>2, <3>3, WorthIs
  <2> QED  BY <2>1, <2>3
<1>11. Signals(A6) /\ ~Worth(A6)
  <2> DEFINE high == tp.turnover > 0 /\ 4 * refund > tp.turnover
             points == Capped(2000, (4000 * refund) \div tp.turnover)
  <2>1. tp.turnover \in Int
    BY ProfileIs
  <2> HIDE DEF refund
  <2>2. high \in BOOLEAN /\ (high => points \in Nat /\ ~(points >= 3000))
    <3> SUFFICES ASSUME high PROVE points \in Nat /\ ~(points >= 3000)
      OBVIOUS
    <3> DEFINE q == (4000 * refund) \div tp.turnover
    <3>1. q \in Nat
      BY <1>3, <2>1
    <3> HIDE DEF q
    <3>2. points = Capped(2000, q)
      BY DEF q
    <3> QED  BY <3>1, <3>2 DEF Capped
  <2>3. A6 = IF high THEN {[name |-> "high_refund_to_turnover", points |-> points]} ELSE {}
    BY DEF Signal
  <2> HIDE DEF high, points, A6
  <2>4. Signals(A6) /\ (Worth(A6) <=> high /\ points >= 3000)
    <3>1. high => points \in Nat
      BY <2>2
    <3>2. OneSignal(A6, points)
      BY <2>3, <3>1 DEF OneSignal
    <3>3. A6 # {} <=> high
      BY <2>3
    <3> QED  BY <3>2, <3>3, WorthIs
  <2> QED  BY <2>2, <2>4
<1>12. RefundAlone(tp, rows, filed) <=>
           \/ (output > 0 /\ 10 * refund > 8 * output) \/ SixfoldClaim(Refunds(filed))
           \/ bare \/ flagged >= 6 \/ amended >= 3
  BY DEF RefundAlone
<1> HIDE DEF A1, A2, A3, A4, A5, A6, S, refund, output, amended, flagged, bare
<1>13. Signals(S)
  BY <1>1, <1>6, <1>7, <1>8, <1>9, <1>10, <1>11, SignalsUnion
<1>14. Worth(S) <=> Worth(A1) \/ Worth(A2) \/ Worth(A3) \/ Worth(A4) \/ Worth(A5) \/ Worth(A6)
  BY <1>1 DEF Worth
<1>15. Worth(S) <=> RefundAlone(tp, rows, filed)
  BY <1>6, <1>7, <1>8, <1>9, <1>10, <1>11, <1>12, <1>14
<1> QED  BY <1>13, <1>15 DEF S

LEMMA RefundFraudIs ==
    ASSUME NEW tp \in Profiles, NEW rows, InvoiceRows(rows), NEW filed, TransactionRows(filed)
    PROVE  /\ OneDetection(RefundFraud(tp, rows, filed), "refund_fraud")
           /\ RefundAlone(tp, rows, filed) =>
                 \E d \in RefundFraud(tp, rows, filed) : d.rule = "refund_fraud"
           /\ \A d \in RefundFraud(tp, rows, filed) :
                 d.confidence = 20 => RefundAlone(tp, rows, filed)
<1> DEFINE S == RefundFraudSignals(tp, rows, filed)
           D == RefundFraud(tp, rows, filed)
<1>1. Signals(S) /\ (Worth(S) <=> RefundAlone(tp, rows, filed))
  BY RefundFraudSignalsAre
<1>2. Tariff(3000, 20, 90) /\ 90 \in 90..95
  BY DEF Tariff, FullScore
<1>3. D = Detection("refund_fraud", S, 3000, 20, 90)
  BY DEF RefundFraud
<1> HIDE DEF S, D
<1>4. OneDetection(D, "refund_fraud") /\ Alerting(D, "refund_fraud", S, 3000)
  BY <1>1, <1>2, <1>3, DetectionIs
<1>5. \A d \in D : d.confidence = 20 => Worth(S)
  BY <1>1, <1>2, <1>3, LoneSignal
<1> QED  BY <1>1, <1>4, <1>5 DEF D, Alerting, Worth

\* contra_trading.
LEMMA ContraSignalsAre ==
    ASSUME NEW tp, NEW rows, InvoiceRows(rows), NEW filed, TransactionRows(filed)
    PROVE  Signals(ContraSignals(tp, rows, filed))
<1> DEFINE returns == VatReturns(filed)
           near == RestrictValues(returns, NearZero)
           nearZero == Count(near)
           chapters == {i.chapter : i \in Range(rows)} \ {NONE}
           output == Total(returns, "output")
           paid == Total(returns, "paid")
           A1 == Signal("persistent_near_zero_net_vat", nearZero >= 3, Capped(4000, 1000 * nearZero))
           A2 == Signal("diverse_unrelated_sectors", Cardinality(chapters) >= 3,
                        Capped(2000, 500 * Cardinality(chapters)))
           A3 == Signal("mirrored_chain_timing", Mirrored(tp, rows) > 0,
                        Capped(2500, 800 * Mirrored(tp, rows)))
           A4 == Signal("minimal_actual_payments", output > 50000 /\ 20 * paid < output, 2000)
           S == ContraSignals(tp, rows, filed)
<1>1. S = A1 \cup A2 \cup A3 \cup A4
  BY DEF ContraSignals
<1>2. nearZero \in Nat
  <2>1. TransactionRows(returns)
    BY Selections, PartIsListed
  <2>2. Part(near, returns)
    BY DEF Part, RestrictValues, Restrict
  <2> HIDE DEF near, returns
  <2> QED  BY <2>1, <2>2, PartIsListed, CountIs DEF TransactionRows
<1>3. Cardinality(chapters) \in Nat
  <2> DEFINE all == {rows[k].chapter : k \in DOMAIN rows}
  <2>1. chapters = all \ {NONE}
    BY DEF Range
  <2>2. [k \in DOMAIN rows |-> rows[k].chapter] \in Surjection(DOMAIN rows, all)
    BY DEF Surjection
  <2>3. IsFiniteSet(all)
    BY <2>2, FS_Surjection DEF InvoiceRows, Listed
  <2> HIDE DEF all, chapters
  <2>4. IsFiniteSet(chapters)
    BY <2>1, <2>3, FS_Subset
  <2> QED  BY <2>4, FS_CardinalityType
<1>4. Mirrored(tp, rows) \in Nat
  <2> DEFINE P == {p \in (DOMAIN rows) \X (DOMAIN rows) :
                   /\ rows[p[1]].buyer = tp.tin /\ rows[p[2]].seller = tp.tin
                   /\ Apart(rows[p[2]].hour, rows[p[1]].hour) <= 48
                   /\ NONE \notin {rows[p[1]].chapter, rows[p[2]].chapter}
                   /\ rows[p[1]].chapter # rows[p[2]].chapter}
             pairs == SumFunction([p \in P |-> rows[p[1]].n * rows[p[2]].n])
  <2>1. Mirrored(tp, rows) = Capped(10, pairs)
    BY DEF Mirrored, Pairs
  <2>2. P \in SUBSET ((DOMAIN rows) \X (DOMAIN rows))
    OBVIOUS
  <2> HIDE DEF P
  <2>3. pairs \in Nat
    BY <2>2, PairsAre DEF InvoiceRows
  <2> HIDE DEF pairs
  <2> QED  BY <2>1, <2>3 DEF Capped
<1>5. Signals(A1)
  <2> HIDE DEF nearZero
  <2> DEFINE points == Capped(4000, 1000 * nearZero)
  <2>1. points \in Nat
    BY <1>2 DEF Capped
  <2>2. A1 = {} \/ A1 = {[name |-> "persistent_near_zero_net_vat", points |-> points]}
    BY DEF Signal
  <2> HIDE DEF A1, points
  <2> QED  BY <2>1, <2>2, RaisedIs
<1>6. Signals(A2)
  <2> DEFINE c == Cardinality(chapters)
             points == Capped(2000, 500 * c)
  <2>1. c \in Nat
    BY <1>3
  <2> HIDE DEF c
  <2>2. points \in Nat
    BY <2>1 DEF Capped
  <2>3. A2 = {} \/ A2 = {[name |-> "diverse_unrelated_sectors", points |-> points]}
    BY DEF Signal, c
  <2> HIDE DEF A2, points
  <2> QED  BY <2>2, <2>3, RaisedIs
<1>7. Signals(A3)
  <2> DEFINE points == Capped(2500, 800 * Mirrored(tp, rows))
  <2>1. points \in Nat
    BY <1>4 DEF Capped
  <2>2. A3 = {} \/ A3 = {[name |-> "mirrored_chain_timing", points |-> points]}
    BY DEF Signal
  <2> HIDE DEF A3, points
  <2> QED  BY <2>1, <2>2, RaisedIs
<1>8. Signals(A4)
  <2> HIDE DEF output, paid
  <2>1. PICK points \in Nat : points = 2000
    BY SMT
  <2>2. A4 = {} \/ A4 = {[name |-> "minimal_actual_payments", points |-> points]}
    BY <2>1, SMT DEF Signal
  <2> HIDE DEF A4
  <2> QED  BY <2>2, RaisedIs
<1> HIDE DEF A1, A2, A3, A4, S
<1>9. Signals(S)
  BY <1>1, <1>5, <1>6, <1>7, <1>8, SignalsUnion
<1> QED  BY <1>9 DEF S

LEMMA ContraTradingIs ==
    ASSUME NEW tp, NEW rows, InvoiceRows(rows), NEW filed, TransactionRows(filed)
    PROVE  OneDetection(ContraTrading(tp, rows, filed), "contra_trading")
<1> DEFINE S == ContraSignals(tp, rows, filed)
           D == Detection("contra_trading", S, 3500, 25, 85)
<1>1. Signals(S)
  BY ContraSignalsAre
<1>2. Tariff(3500, 25, 85)
  BY DEF Tariff, FullScore
<1>3. ContraTrading(tp, rows, filed) = {} \/ ContraTrading(tp, rows, filed) = D
  BY DEF ContraTrading
<1> HIDE DEF S
<1>4. OneDetection(D, "contra_trading")
  BY <1>1, <1>2, DetectionIs
<1> HIDE DEF D
<1> QED  BY <1>3, <1>4, NoDetection

-----------------------------------------------------------------------------
(* The detections of an analysis.                                          *)

\* Finitely many, one of each rule.
OneEach(found) ==
    /\ IsFiniteSet(found)
    /\ \A d \in found : Detected(d, d.rule)
    /\ \A d, e \in found : d.rule = e.rule => d = e

LEMMA OneEachOfRules ==
    ASSUME NEW R, IsFiniteSet(R), NEW F, \A r \in R : OneDetection(F[r], r)
    PROVE  OneEach(UNION {F[r] : r \in R})
<1> DEFINE Fs == {F[r] : r \in R}
<1>1. IsFiniteSet(Fs)
  <2>1. [r \in R |-> F[r]] \in Surjection(R, Fs)
    BY DEF Surjection
  <2> QED  BY <2>1, FS_Surjection
<1>2. IsFiniteSet(UNION Fs)
  <2>1. \A X \in Fs : IsFiniteSet(X)
    BY DEF OneDetection
  <2> HIDE DEF Fs
  <2> QED  BY <1>1, <2>1, FS_UNION
<1>3. ASSUME NEW d \in UNION Fs  PROVE d.rule \in R /\ d \in F[d.rule] /\ Detected(d, d.rule)
  <2>1. PICK r \in R : d \in F[r]
    OBVIOUS
  <2>2. Detected(d, r)
    BY <2>1 DEF OneDetection
  <2>3. d.rule = r
    BY <2>2 DEF Detected
  <2> QED  BY <2>1, <2>2, <2>3
<1>4. ASSUME NEW d \in UNION Fs, NEW e \in UNION Fs, d.rule = e.rule  PROVE d = e
  <2>1. d.rule \in R /\ d \in F[d.rule] /\ e \in F[d.rule]
    BY <1>3, <1>4
  <2> QED  BY <2>1 DEF OneDetection
<1> QED  BY <1>2, <1>3, <1>4 DEF OneEach

RuleNames == {"missing_trader", "carousel_fraud", "invoice_mill", "refund_fraud",
              "contra_trading", "benford_analysis"}

\* A context that the engine may be given: rows that form no ring.
Context(tp, rows, filed, time) ==
    /\ tp \in Profiles /\ InvoiceRows(rows) /\ TransactionRows(filed) /\ time \in Int
    /\ Chains(Edges(rows)) = {}

LEMMA DetectionsAre ==
    ASSUME NEW tp, NEW rows, NEW filed, NEW time, Context(tp, rows, filed, time)
    PROVE  /\ OneEach(Detections(tp, rows, filed, time))
           /\ MissingAlone(tp, rows, filed, time) =>
                 \E d \in Detections(tp, rows, filed, time) : d.rule = "missing_trader"
           /\ RefundAlone(tp, rows, filed) =>
                 \E d \in Detections(tp, rows, filed, time) : d.rule = "refund_fraud"
           /\ \A d \in Detections(tp, rows, filed, time) : d.confidence = 20 =>
                 /\ d.rule = "missing_trader" => MissingAlone(tp, rows, filed, time)
                 /\ d.rule = "refund_fraud" => RefundAlone(tp, rows, filed)
<1> DEFINE D1 == MissingTrader(tp, rows, filed, time)
           D2 == Carousel(rows)
           D3 == InvoiceMill(tp, rows)
           D4 == RefundFraud(tp, rows, filed)
           D5 == ContraTrading(tp, rows, filed)
           D6 == BenfordTest(Issued(tp, rows))
           F == [r \in RuleNames |-> CASE r = "missing_trader" -> D1
                                       [] r = "carousel_fraud" -> D2
                                       [] r = "invoice_mill" -> D3
                                       [] r = "refund_fraud" -> D4
                                       [] r = "contra_trading" -> D5
                                       [] r = "benford_analysis" -> D6]
           found == Detections(tp, rows, filed, time)
<1>1. /\ tp \in Profiles /\ InvoiceRows(rows) /\ TransactionRows(filed) /\ time \in Int
      /\ Chains(Edges(rows)) = {}
  BY DEF Context
<1>2. found = D1 \cup D2 \cup D3 \cup D4 \cup D5 \cup D6
  <2>1. found = UNION {D1, D2, D3, D4, D5, D6, NetworkAnomaly(rows)}
    BY DEF Detections
  <2>2. NetworkAnomaly(rows) = {}
    BY <1>1, NoNetworkAnomaly
  <2> HIDE DEF D1, D2, D3, D4, D5, D6, found
  <2> QED  BY <2>1, <2>2
<1>3. OneDetection(D1, "missing_trader")
      /\ (MissingAlone(tp, rows, filed, time) => \E d \in D1 : d.rule = "missing_trader")
      /\ (\A d \in D1 : d.confidence = 20 => MissingAlone(tp, rows, filed, time))
  BY <1>1, MissingTraderIs
<1>4. OneDetection(D2, "carousel_fraud")
  BY <1>1, CarouselIs
<1>5. OneDetection(D3, "invoice_mill")
  BY <1>1, InvoiceMillIs
<1>6. OneDetection(D4, "refund_fraud")
      /\ (RefundAlone(tp, rows, filed) => \E d \in D4 : d.rule = "refund_fraud")
      /\ (\A d \in D4 : d.confidence = 20 => RefundAlone(tp, rows, filed))
  BY <1>1, RefundFraudIs
<1>7. OneDetection(D5, "contra_trading")
  BY <1>1, ContraTradingIs
<1>8. OneDetection(D6, "benford_analysis")
  BY BenfordTestIs
<1> HIDE DEF D1, D2, D3, D4, D5, D6, found
<1>9. /\ F["missing_trader"] = D1 /\ F["carousel_fraud"] = D2 /\ F["invoice_mill"] = D3
      /\ F["refund_fraud"] = D4 /\ F["contra_trading"] = D5 /\ F["benford_analysis"] = D6
  BY DEF RuleNames
<1> HIDE DEF F
<1>10. \A r \in RuleNames : OneDetection(F[r], r)
  BY <1>3, <1>4, <1>5, <1>6, <1>7, <1>8, <1>9 DEF RuleNames
<1>11. IsFiniteSet(RuleNames)
  <2>1. RuleNames = {"missing_trader"} \cup {"carousel_fraud"} \cup {"invoice_mill"}
                    \cup {"refund_fraud"} \cup {"contra_trading"} \cup {"benford_analysis"}
    BY DEF RuleNames
  <2> QED  BY <2>1, FS_Singleton, FS_Union
<1>12. UNION {F[r] : r \in RuleNames} = found
  BY <1>2, <1>9 DEF RuleNames
<1>13. OneEach(found)
  BY <1>10, <1>11, <1>12, OneEachOfRules
<1>14. \A d \in found : /\ d.rule = "missing_trader" => d \in D1
                        /\ d.rule = "refund_fraud" => d \in D4
  <2>1. \A r \in RuleNames : \A d \in F[r] : d.rule = r
    BY <1>10 DEF OneDetection, Detected
  <2>2. \A d \in found : d.rule \in RuleNames /\ d \in F[d.rule]
    BY <1>12, <2>1
  <2> QED  BY <1>9, <2>2
<1> QED  BY <1>2, <1>3, <1>6, <1>13, <1>14 DEF found

-----------------------------------------------------------------------------
(* The score of an analysis.                                               *)

\* The rules' component is a score; it is 80 at least if all detections are
\* critical.
LEMMA RuleScoreIs ==
    ASSUME NEW found, OneEach(found)
    PROVE  /\ RuleScore(found) \in Component
           /\ AllCritical(found) => RuleScore(found) >= 8000
<1> DEFINE f == [d \in found |-> d.score * d.confidence]
           k == [d \in found |-> d.confidence]
           sf == SumFunction(f)
           sk == SumFunction(k)
           mean == sf \div sk
<1>1. CASE found = {}
  <2>1. RuleScore(found) = 0
    BY <1>1 DEF RuleScore
  <2> QED  BY <1>1, <2>1, ComponentBounds DEF AllCritical
<1>2. CASE found # {}
  <2>1. ASSUME NEW d \in found
        PROVE  /\ d.score \in Int /\ d.score >= 0 /\ d.confidence \in Int /\ d.confidence >= 1
               /\ d.severity = "critical" => d.score >= 8000
    <3>1. Detected(d, d.rule)
      BY DEF OneEach
    <3> DEFINE W == 3000..10000
    <3>2. d.score \in W /\ d.confidence \in 1..95
      BY <3>1 DEF Detected, FullScore
    <3>3. d.severity = "critical" => d.score >= 8000
      BY <3>1 DEF Detected
    <3>4. /\ \A x \in W : x \in Int /\ x >= 0
          /\ \A x \in 1..95 : x \in Int /\ x >= 1
      OBVIOUS
    <3> HIDE DEF W
    <3>5. d.score \in Int /\ d.score >= 0
      BY <3>2, <3>4
    <3>6. d.confidence \in Int /\ d.confidence >= 1
      BY <3>2, <3>4
    <3> QED  BY <3>3, <3>5, <3>6
  <2>2. /\ DOMAIN f = found /\ DOMAIN k = found
        /\ \A d \in found : f[d] = d.score * d.confidence /\ k[d] = d.confidence
    OBVIOUS
  <2>3. sf = SumOver(f, found) /\ sk = SumOver(k, found)
    BY <2>2, SumFunctionIs
  <2>4. RuleScore(found) = Capped(FullScore, mean)
    BY <1>2 DEF RuleScore
  <2> HIDE DEF f, k, sf, sk
  <2>5. IsFiniteSet(found)
    BY DEF OneEach
  <2>6. \A d \in found : f[d] \in Nat /\ k[d] \in Nat /\ k[d] >= 1
    <3>1. ASSUME NEW d \in found  PROVE f[d] \in Nat /\ k[d] \in Nat /\ k[d] >= 1
      BY <2>1, <2>2
    <3> QED  BY <3>1
  <2>7. sf \in Nat /\ sk \in Nat
    BY <2>3, <2>5, <2>6, SumOverNat
  <2>8. sk > 0
    <3>1. PICK d \in found : TRUE
      BY <1>2
    <3>2. k[d] <= sk
      BY <2>3, <2>5, <2>6, SumOverElement
    <3> QED  BY <2>6, <2>7, <3>2
  <2>9. mean \in Nat
    BY <2>7, <2>8
  <2>10. AllCritical(found) => mean >= 8000
    <3> SUFFICES ASSUME AllCritical(found) PROVE mean >= 8000
      OBVIOUS
    <3>1. PICK c \in Int : c = 8000
      BY SMT
    <3>2. ASSUME NEW d \in found  PROVE f[d] \in Int /\ k[d] \in Int /\ f[d] >= c * k[d]
      <4>1. d.score >= c
        BY <2>1, <3>1 DEF AllCritical
      <4> QED  BY <2>1, <2>2, <3>1, <4>1
    <3>3. sf >= c * sk
      BY <2>3, <2>5, <3>2, SumOverAtLeast
    <3> QED  BY <2>7, <2>8, <3>1, <3>3
  <2> HIDE DEF mean
  <2>11. /\ Capped(FullScore, mean) \in Int /\ 0 <= Capped(FullScore, mean)
         /\ Capped(FullScore, mean) <= 10000
         /\ mean >= 8000 => Capped(FullScore, mean) >= 8000
    BY <2>9 DEF Capped, FullScore
  <2> QED  BY <2>4, <2>10, <2>11, ComponentBounds
<1> QED  BY <1>1, <1>2

\* A cap of 100 makes a score of a natural number.
LEMMA CappedScore ==
    ASSUME NEW x \in Nat
    PROVE  Capped(FullScore, x) \in Component
<1>1. /\ Capped(FullScore, x) \in Int /\ 0 <= Capped(FullScore, x)
      /\ Capped(FullScore, x) <= 10000
  BY DEF Capped, FullScore
<1> QED  BY <1>1, ComponentBounds

LEMMA ComplianceScoreIs ==
    ASSUME NEW streak \in Nat, NEW status, NEW returns \in Nat, NEW late \in Nat
    PROVE  ComplianceScore(streak, status, returns, late) \in Component
<1> DEFINE a == Capped(4000, 800 * streak)
           b == CASE status \in {"suspended", "missing", "under_investigation"} -> 4000
                  [] status = "deregistered" -> 2000
                  [] OTHER -> 0
           c == IF returns = 0 THEN 0 ELSE (3000 * late) \div returns
<1>1. a \in Nat
  BY DEF Capped
<1>2. b \in Nat
  OBVIOUS
<1>3. c \in Nat
  <2>1. returns # 0 => (3000 * late) \div returns \in Nat
    OBVIOUS
  <2> QED  BY <2>1
<1>4. ComplianceScore(streak, status, returns, late) = Capped(FullScore, a + b + c)
  BY DEF ComplianceScore
<1> HIDE DEF a, b, c
<1>5. a + b + c \in Nat
  BY <1>1, <1>2, <1>3
<1> QED  BY <1>4, <1>5, CappedScore

\* Finitely many paths join two nodes of a finite graph.
LEMMA PathsAreFinite ==
    ASSUME NEW E, IsFiniteSet(NodesOf(E)), NEW s, NEW t
    PROVE  IsFiniteSet(Paths(E, s, t))
<1> DEFINE N == NodesOf(E)
           c == Cardinality(N)
           graph(p) == {<<i, p[i]>> : i \in DOMAIN p}
           P == Paths(E, s, t)
           T == SUBSET ((1..c) \X N)
           f == [p \in P |-> graph(p)]
<1>1. c \in Nat
  BY FS_CardinalityType
<1>2. \A p \in P : \E n \in 2..c : p \in [1..n -> N]
  BY DEF Paths
<1>3. IsFiniteSet(T)
  <2>1. IsFiniteSet(1..c)
    <3>1. 1 \in Int /\ c \in Int
      BY <1>1
    <3> QED  BY <3>1, FS_Interval
  <2> QED  BY <2>1, FS_Product, FS_SUBSET
<1> HIDE DEF P, N, c
<1>4. \A p \in P : DOMAIN p \subseteq 1..c /\ p = [i \in DOMAIN p |-> p[i]]
                   /\ \A i \in DOMAIN p : p[i] \in N
  <2>1. ASSUME NEW p \in P
        PROVE  DOMAIN p \subseteq 1..c /\ p = [i \in DOMAIN p |-> p[i]]
               /\ \A i \in DOMAIN p : p[i] \in N
    <3>1. PICK n \in 2..c : p \in [1..n -> N]
      BY <1>2
    <3> QED  BY <1>1, <3>1
  <2> QED  BY <2>1
<1>5. \A p \in P : graph(p) \in T
  BY <1>4
<1>6. ASSUME NEW p \in P, NEW q \in P, graph(p) = graph(q)  PROVE p = q
  <2>1. ASSUME NEW i \in DOMAIN p  PROVE i \in DOMAIN q /\ p[i] = q[i]
    <3>1. <<i, p[i]>> \in graph(q)
      BY <1>6
    <3> QED  BY <3>1
  <2>2. ASSUME NEW i \in DOMAIN q  PROVE i \in DOMAIN p
    <3>1. <<i, q[i]>> \in graph(p)
      BY <1>6
    <3> QED  BY <3>1
  <2>3. DOMAIN p = DOMAIN q
    BY <2>1, <2>2
  <2> QED  BY <1>4, <2>1, <2>3
<1>7. f \in Injection(P, T)
  <2>1. f \in [P -> T] /\ \A p \in P : f[p] = graph(p)
    BY <1>5
  <2> HIDE DEF f, graph, T
  <2>2. ASSUME NEW p \in P, NEW q \in P, f[p] = f[q]  PROVE p = q
    BY <1>6, <2>1, <2>2
  <2> QED  BY <2>1, <2>2 DEF Injection, IsInjective
<1> HIDE DEF f, T
<1> QED  BY <1>3, <1>7, FS_Injection DEF P

\* The share of paths is a natural number.
LEMMA BetweennessIs ==
    ASSUME NEW rows, IsFiniteSet(NodesOf(Edges(rows))), NEW v
    PROVE  Betweenness(rows, v) \in Nat
<1> DEFINE N == NodesOf(Edges(rows))
           others == {st \in (N \ {v}) \X (N \ {v}) : st[1] # st[2]}
           light(st) == Lightest(rows, st[1], st[2])
           through(st) == {p \in light(st) : v \in ToSet(p)}
           share(st) == IF light(st) = {} THEN 0
                        ELSE (10000 * Cardinality(through(st))) \div Cardinality(light(st))
           f == [st \in others |-> share(st)]
<1>1. Betweenness(rows, v) = IF Cardinality(N) < 3 THEN 0
                             ELSE SumFunction(f) \div Cardinality(others)
  BY DEF Betweenness
<1>2. CASE Cardinality(N) < 3
  BY <1>1, <1>2
<1>3. CASE ~(Cardinality(N) < 3)
  <2>1. IsFiniteSet(others)
    <3>1. IsFiniteSet(N \ {v})
      BY FS_Subset
    <3>2. IsFiniteSet((N \ {v}) \X (N \ {v}))
      BY <3>1, FS_Product
    <3> QED  BY <3>2, FS_Subset
  <2>2. ASSUME NEW st  PROVE share(st) \in Nat
    <3>1. IsFiniteSet(light(st))
      <4>1. IsFiniteSet(Paths(Edges(rows), st[1], st[2]))
        BY PathsAreFinite
      <4>2. light(st) \subseteq Paths(Edges(rows), st[1], st[2])
        BY DEF Lightest
      <4> HIDE DEF light
      <4> QED  BY <4>1, <4>2, FS_Subset
    <3>2. IsFiniteSet(through(st))
      BY <3>1, FS_Subset
    <3> HIDE DEF light, through
    <3>3. Cardinality(light(st)) \in Nat /\ Cardinality(through(st)) \in Nat
      BY <3>1, <3>2, FS_CardinalityType
    <3>4. light(st) # {} => Cardinality(light(st)) # 0
      BY <3>1, FS_EmptySet
    <3>5. light(st) # {} =>
             (10000 * Cardinality(through(st))) \div Cardinality(light(st)) \in Nat
      BY <3>3, <3>4
    <3> QED  BY <3>5
  <2> HIDE DEF share
  <2>3. DOMAIN f = others /\ \A st \in others : f[st] \in Nat
    BY <2>2
  <2> HIDE DEF f
  <2>4. SumFunction(f) \in Nat
    BY <2>1, <2>3, SumFunctionIs, SumOverNat
  <2>5. Cardinality(others) \in Nat /\ Cardinality(others) # 0
    <3>1. \E s, t \in N \ {v} : s # t
      <4>1. IsFiniteSet(N \ {v})
        BY FS_Subset
      <4>2. Cardinality(N) \in Nat /\ Cardinality(N) >= 3
        <5>1. Cardinality(N) \in Nat
          BY FS_CardinalityType
        <5> QED  BY <1>3, <5>1
      <4> HIDE DEF N
      <4>3. Cardinality(N \ {v}) \in Nat /\ Cardinality(N \ {v}) >= 2
        <5>1. v \in N => Cardinality(N \ {v}) = Cardinality(N) - 1
          BY FS_RemoveElement DEF N
        <5>2. v \notin N => N \ {v} = N
          OBVIOUS
        <5>3. Cardinality(N \ {v}) \in Nat
          BY <4>1, FS_CardinalityType
        <5> DEFINE m == Cardinality(N \ {v})
                   n == Cardinality(N)
        <5>4. n \in Nat /\ n >= 3 /\ m \in Nat /\ (v \in N => m = n - 1) /\ (v \notin N => m = n)
          BY <4>2, <5>1, <5>2, <5>3
        <5> HIDE DEF m, n
        <5>5. m \in Nat /\ m >= 2
          BY <5>4
        <5> QED  BY <5>5 DEF m
      <4>4. PICK s : s \in N \ {v}
        BY <4>1, <4>3, FS_EmptySet
      <4>5. N \ {v} # {s}
        BY <4>3, FS_Singleton
      <4> QED  BY <4>4, <4>5
    <3>2. others # {}
      <4>1. PICK s \in N \ {v}, t \in N \ {v} : s # t
        BY <3>1
      <4>2. <<s, t>> \in others
        BY <4>1
      <4> QED  BY <4>2
    <3> HIDE DEF others
    <3> QED  BY <2>1, <3>2, FS_CardinalityType, FS_EmptySet
  <2> HIDE DEF N, others
  <2>6. SumFunction(f) \div Cardinality(others) \in Nat
    BY <2>4, <2>5
  <2> QED  BY <1>1, <1>3, <2>6
<1> QED  BY <1>2, <1>3

LEMMA NetworkScoreIs ==
    ASSUME NEW rows, Listed(rows), NEW v
    PROVE  NetworkScore(NodeMetrics(rows, v).betweenness, NodeMetrics(rows, v).inDegree)
              \in Component
<1> DEFINE E == Edges(rows)
           b == NodeMetrics(rows, v).betweenness
           i == NodeMetrics(rows, v).inDegree
<1>1. IsFiniteSet(E) /\ IsFiniteSet(NodesOf(E))
  <2>1. IsFiniteSet(Range(rows))
    BY RangeIsFinite DEF Listed
  <2> QED  BY <2>1, GraphIsFinite DEF Edges
<1>2. Betweenness(rows, v) \in Nat
  BY <1>1, BetweennessIs
<1>3. InDegreeOf(E, v) \in Nat
  <2>1. IsFiniteSet({e \in E : e[2] = v})
    BY <1>1, FS_Subset
  <2> QED  BY <2>1, FS_CardinalityType DEF InDegreeOf
<1>4. b \in Nat /\ i \in Nat
  BY <1>2, <1>3 DEF NodeMetrics
<1> HIDE DEF b, i
<1>5. 2 * b + 200 * i \in Nat
  BY <1>4
<1>6. NetworkScore(b, i) \in Component
  BY <1>5, CappedScore DEF NetworkScore
<1> QED  BY <1>6 DEF b, i

\* The five components of an analysis are scores, and the anomaly's is that
\* of a detector that was never fitted.
LEMMA ComponentScoresAre ==
    ASSUME NEW tp \in Profiles, NEW rows, InvoiceRows(rows), NEW filed, TransactionRows(filed),
           NEW found, OneEach(found)
    PROVE  /\ ComponentScores(tp, rows, filed, found) \in [Categories -> Component]
           /\ ComponentScores(tp, rows, filed, found)["rules"] = RuleScore(found)
           /\ ComponentScores(tp, rows, filed, found)["anomaly"] = AnomalyScore
<1> DEFINE returns == VatReturns(filed)
           late == RestrictValues(returns, LAMBDA t : t.late)
           node == NodeMetrics(rows, tp.tin)
           compliance == ComplianceScore(tp.streak, tp.status, Count(returns), Count(late))
           network == NetworkScore(node.betweenness, node.inDegree)
           third == ThirdPartyScore({})
           c == ComponentScores(tp, rows, filed, found)
<1>1. compliance \in Component
  <2>1. TransactionRows(returns)
    BY Selections, PartIsListed
  <2>2. Part(late, returns)
    BY DEF Part, RestrictValues, Restrict
  <2> HIDE DEF late, returns
  <2>3. Count(returns) \in Nat /\ Count(late) \in Nat
    BY <2>1, <2>2, PartIsListed, CountIs DEF TransactionRows
  <2>4. tp.streak \in Nat
    BY ProfileIs
  <2> QED  BY <2>3, <2>4, ComplianceScoreIs
<1>2. network \in Component
  BY NetworkScoreIs DEF InvoiceRows
<1>3. third \in Component
  <2> DEFINE f == [x \in {} |-> CASE x = "fiu_sar_filed" -> 5000
                                   [] x = "customs_mismatch" -> 3000
                                   [] x = "interpol_watchlist" -> 4000
                                   [] x = "previous_fraud_conviction" -> 6000
                                   [] x = "linked_to_known_fraudster" -> 3500]
  <2>1. third = Capped(FullScore, SumFunction(f))
    BY DEF ThirdPartyScore
  <2>2. DOMAIN f = {}
    OBVIOUS
  <2> HIDE DEF f
  <2>3. SumFunction(f) = 0
    BY <2>2, SumFunctionIs, SumOverNone
  <2> QED  BY <2>1, <2>3, CappedScore
<1>4. AnomalyScore \in Component
  BY ComponentBounds DEF AnomalyScore
<1>5. RuleScore(found) \in Component
  BY RuleScoreIs
<1>6. c = [rules |-> RuleScore(found), anomaly |-> AnomalyScore, compliance |-> compliance,
           network |-> network, thirdparty |-> third]
  BY DEF ComponentScores
<1> HIDE DEF compliance, network, third, c
<1>7. c \in [Categories -> Component] /\ c["rules"] = RuleScore(found)
      /\ c["anomaly"] = AnomalyScore
  BY <1>1, <1>2, <1>3, <1>4, <1>5, <1>6 DEF Categories
<1> QED  BY <1>7 DEF c

\* What is reported of any context.
LEMMA ReportIs ==
    ASSUME NEW tp, NEW rows, NEW filed, NEW time, Context(tp, rows, filed, time)
    PROVE  /\ Report(tp, rows, filed, time).alerts = Detections(tp, rows, filed, time)
           /\ ReportOK(Report(tp, rows, filed, time))
           /\ RankedHigh(Report(tp, rows, filed, time))
<1> DEFINE found == Detections(tp, rows, filed, time)
           report == Report(tp, rows, filed, time)
           c == ComponentScores(tp, rows, filed, found)
           score == TotalScore(c)
<1>1. OneEach(found)
  BY DetectionsAre
<1>2. report = [alerts |-> AlertWorthy(found), score |-> score]
  BY DEF Report, Outcome
<1> HIDE DEF found
<1>3. \A d \in found : Detected(d, d.rule)
  BY <1>1 DEF OneEach
<1>4. \A d \in found : d.score \in 3000..FullScore /\ d.confidence \in 1..95
  BY <1>3 DEF Detected
<1>5. AlertWorthy(found) = found
  <2>1. \A x \in 3000..FullScore : x >= 3000
    BY SMT DEF FullScore
  <2>2. \A d \in found : d.score >= 3000
    BY <1>4, <2>1
  <2> QED  BY <2>2 DEF AlertWorthy
<1>6. report.alerts = found /\ report.score = score
  BY <1>2, <1>5
<1>7. Cardinality(Rules(found)) = Cardinality(found)
  <2> DEFINE f == [d \in found |-> d.rule]
  <2>1. f \in Bijection(found, Rules(found))
    BY <1>1 DEF OneEach, Rules, Bijection, Injection, Surjection, IsInjective
  <2> HIDE DEF f
  <2>2. ExistsBijection(found, Rules(found)) /\ IsFiniteSet(found)
    BY <1>1, <2>1 DEF ExistsBijection, OneEach
  <2> QED  BY <2>2, FS_Bijection
<1>8. /\ c \in [Categories -> Component] /\ c["rules"] = RuleScore(found)
      /\ c["anomaly"] = AnomalyScore
  BY <1>1, ComponentScoresAre DEF Context
<1> HIDE DEF c, report
<1>9. /\ score \in Component /\ 97 * Strongest(c) < 100 * (score + 1)
      /\ Strongest(c) \in Component
      /\ RuleScore(found) \in Component /\ RuleScore(found) <= Strongest(c)
      /\ AnomalyScore <= Strongest(c)
  BY <1>8, CompositeInScale, StrongestIsMax DEF Categories
<1> HIDE DEF score
<1>10. score \in 2910..FullScore
  <2>1. /\ score \in Int /\ score <= 10000 /\ Strongest(c) \in Int /\ 3000 <= Strongest(c)
    BY <1>9, ComponentBounds DEF AnomalyScore
  <2>2. score >= 2910
    BY <1>9, <2>1
  <2> QED  BY <2>1, <2>2 DEF FullScore
<1>11. ReportOK(report)
  BY <1>4, <1>6, <1>7, <1>10 DEF ReportOK
<1>12. RankedHigh(report)
  <2> SUFFICES ASSUME AllCritical(found) PROVE RiskLevel(score) \in {"high", "critical"}
    BY <1>6 DEF RankedHigh
  <2>1. RuleScore(found) >= 8000
    BY <1>1, RuleScoreIs
  <2>2. score \in Int /\ Strongest(c) \in Int /\ RuleScore(found) \in Int
    BY <1>9, ComponentBounds
  <2>3. score >= 7500
    BY <1>9, <2>1, <2>2
  <2>4. \A x \in Int : x >= 7500 => RiskLevel(x) \in {"high", "critical"}
    BY SMT DEF RiskLevel
  <2> QED  BY <2>2, <2>3, <2>4
<1> QED  BY <1>6, <1>11, <1>12 DEF found, report

-----------------------------------------------------------------------------
(* The state, and the analysis of it.                                      *)

Types ==
    /\ taxpayer \in Profiles
    /\ invoices \in Seq(InvoiceLots) /\ transactions \in Seq(TransactionLots)
    /\ now \in {Start + k * Step : k \in 0..MaxEvents}

LEMMA TypesInductive ==
    /\ Init => Types
    /\ Types /\ [Next]_vars => Types'
<1>1. Init => Types
  <2> SUFFICES ASSUME Init PROVE Types
    OBVIOUS
  <2>1. 0 \in 0..MaxEvents /\ Start = Start + 0 * Step
    BY BoundAssumption
  <2> QED  BY <2>1 DEF Init, Types
<1>2. ASSUME Types, [Next]_vars  PROVE Types'
  <2>1. CASE UNCHANGED vars
    BY <1>2, <2>1 DEF Types, vars
  <2>2. ASSUME NEW lot \in InvoiceLots, Submit(lot)  PROVE Types'
    BY <1>2, <2>2 DEF Types, Submit
  <2>3. ASSUME NEW lot \in TransactionLots, File(lot)  PROVE Types'
    BY <1>2, <2>3 DEF Types, File
  <2>4. CASE PassTime
    <3>1. PICK k \in 0..MaxEvents : now = Start + k * Step
      BY <1>2 DEF Types
    <3>2. (now - Start) \div Step = k
      <4>1. now - Start = k * Step
        BY <3>1, BoundAssumption
      <4>2. \A a \in Nat, b \in Nat \ {0} : (a * b) \div b = a
        OBVIOUS
      <4> QED  BY <4>1, <4>2, BoundAssumption
    <3>3. k < MaxEvents
      <4>1. Len(invoices) \in Nat /\ Len(transactions) \in Nat
        BY <1>2 DEF Types
      <4>2. Len(invoices) + Len(transactions) + k < MaxEvents
        BY <2>4, <3>2 DEF PassTime, Events
      <4> QED  BY <4>1, <4>2, BoundAssumption
    <3>4. k + 1 \in 0..MaxEvents /\ now' = Start + (k + 1) * Step
      BY <2>4, <3>1, <3>3, BoundAssumption DEF PassTime
    <3> QED  BY <1>2, <2>4, <3>4 DEF Types, PassTime
  <2> QED  BY <1>2, <2>1, <2>2, <2>3, <2>4 DEF Next
<1> QED  BY <1>1, <1>2

LEMMA TypesAlways == Spec => []Types
BY TypesInductive, PTL DEF Spec

\* What the analysis needs of the columns of a row, but for how many rows a
\* lot is.
Own(row) == row.seller = taxpayer.tin \/ row.buyer = taxpayer.tin

Invoiced(row) ==
    /\ {"seller", "buyer", "net", "vat", "hour", "n"} \subseteq DOMAIN row
    /\ row.net \in Nat /\ row.vat \in Nat /\ row.hour \in Int
Filed(row) ==
    /\ {"output", "input", "refund", "paid", "n"} \subseteq DOMAIN row
    /\ row.output \in Int /\ row.input \in Int /\ row.refund \in Int /\ row.paid \in Int

\* What a query returns of a list: positions of it, and at each a row that
\* differs from the listed one in its number at most.
Alters(row, new) == \E n \in Nat \ {0} : new = [row EXCEPT !.n = n]
Returned(p, rows) ==
    /\ Listed(p) /\ DOMAIN p \subseteq DOMAIN rows
    /\ \A k \in DOMAIN p : p[k] = rows[k] \/ Alters(rows[k], p[k])

LEMMA FetchReturns ==
    ASSUME NEW rows, Listed(rows), \A k \in DOMAIN rows : "n" \in DOMAIN rows[k],
           NEW limit \in Nat, NEW p \in Fetch(rows, limit)
    PROVE  Returned(p, rows)
<1>1. CASE p = rows
  BY <1>1 DEF Returned
<1>2. ASSUME NEW m \in [DOMAIN rows -> 0..limit], p = Taken(rows, m)
      PROVE  Returned(p, rows)
  <2>1. /\ DOMAIN p = {j \in DOMAIN rows : m[j] > 0}
        /\ \A k \in DOMAIN p : p[k] = [rows[k] EXCEPT !.n = m[k]]
    BY <1>2 DEF Taken
  <2>2. \A k \in DOMAIN p : m[k] \in Nat \ {0} /\ k \in DOMAIN rows
    BY <2>1
  <2>3. \A k \in DOMAIN p : p[k].n = m[k]
    BY <2>1, <2>2
  <2>4. IsFiniteSet(DOMAIN p) /\ DOMAIN p \subseteq Nat
    BY <2>2, FS_Subset DEF Listed
  <2>5. Listed(p)
    BY <2>2, <2>3, <2>4 DEF Listed
  <2>6. \A k \in DOMAIN p : Alters(rows[k], p[k])
    BY <2>1, <2>2 DEF Alters
  <2> QED  BY <2>2, <2>5, <2>6 DEF Returned
<1>3. p = rows \/ \E m \in [DOMAIN rows -> 0..limit] : p = Taken(rows, m)
  BY DEF Fetch
<1> QED  BY <1>1, <1>2, <1>3

\* Rows of the tables' columns.
LEMMA ReturnedColumns ==
    ASSUME NEW rows, NEW p, Returned(p, rows)
    PROVE  /\ (\A k \in DOMAIN rows : Invoiced(rows[k])) => InvoiceRows(p)
           /\ (\A k \in DOMAIN rows : Filed(rows[k])) => TransactionRows(p)
           /\ (\A k \in DOMAIN rows : Invoiced(rows[k]) /\ Own(rows[k])) =>
                 \A k \in DOMAIN p : Own(p[k])
<1>1. ASSUME NEW row, NEW new, Alters(row, new)
      PROVE  /\ Invoiced(row) => /\ new.net = row.net /\ new.vat = row.vat /\ new.hour = row.hour
                                 /\ new.seller = row.seller /\ new.buyer = row.buyer
             /\ Filed(row) => /\ new.output = row.output /\ new.input = row.input
                              /\ new.refund = row.refund /\ new.paid = row.paid
  <2>1. PICK n \in Nat \ {0} : new = [row EXCEPT !.n = n]
    BY <1>1 DEF Alters
  <2>2. \A c \in DOMAIN row : c # "n" => new[c] = row[c]
    BY <2>1
  <2> QED  BY <2>2 DEF Invoiced, Filed
<1>2. ASSUME \A k \in DOMAIN rows : Invoiced(rows[k])  PROVE InvoiceRows(p)
  <2>1. \A k \in DOMAIN p : p[k].net \in Nat /\ p[k].vat \in Nat /\ p[k].hour \in Int
    <3> TAKE k \in DOMAIN p
    <3>1. Invoiced(rows[k]) /\ (p[k] = rows[k] \/ Alters(rows[k], p[k]))
      BY <1>2 DEF Returned
    <3> QED  BY <1>1, <3>1 DEF Invoiced
  <2> QED  BY <2>1 DEF InvoiceRows, Returned
<1>3. ASSUME \A k \in DOMAIN rows : Filed(rows[k])  PROVE TransactionRows(p)
  <2>1. \A k \in DOMAIN p : /\ p[k].output \in Int /\ p[k].input \in Int
                           /\ p[k].refund \in Int /\ p[k].paid \in Int
    <3> TAKE k \in DOMAIN p
    <3>1. Filed(rows[k]) /\ (p[k] = rows[k] \/ Alters(rows[k], p[k]))
      BY <1>3 DEF Returned
    <3> QED  BY <1>1, <3>1 DEF Filed
  <2> QED  BY <2>1 DEF TransactionRows, Returned
<1>4. ASSUME \A k \in DOMAIN rows : Invoiced(rows[k]) /\ Own(rows[k]), NEW k \in DOMAIN p
      PROVE  Own(p[k])
  <2>1. Invoiced(rows[k]) /\ Own(rows[k]) /\ (p[k] = rows[k] \/ Alters(rows[k], p[k]))
    BY <1>4 DEF Returned
  <2> QED  BY <1>1, <2>1 DEF Own
<1> QED  BY <1>2, <1>3, <1>4

\* The tables are lists of such rows.
LEMMA StoredRows ==
    ASSUME Types
    PROVE  /\ Listed(invoices) /\ \A k \in DOMAIN invoices : Invoiced(invoices[k])
           /\ Listed(transactions) /\ \A k \in DOMAIN transactions : Filed(transactions[k])
<1>1. /\ DOMAIN invoices = 1..Len(invoices) /\ Len(invoices) \in Nat
      /\ \A k \in DOMAIN invoices : invoices[k] \in InvoiceLots
      /\ DOMAIN transactions = 1..Len(transactions) /\ Len(transactions) \in Nat
      /\ \A k \in DOMAIN transactions : transactions[k] \in TransactionLots
  BY DEF Types
<1>2. IsFiniteSet(DOMAIN invoices) /\ IsFiniteSet(DOMAIN transactions)
  BY <1>1, FS_Interval
<1>3. DOMAIN invoices \subseteq Nat /\ DOMAIN transactions \subseteq Nat
  BY <1>1
<1>4. ASSUME NEW k \in DOMAIN invoices
      PROVE  invoices[k].n \in Nat /\ invoices[k].n > 0 /\ Invoiced(invoices[k])
  BY <1>1, InvoiceAssumption DEF Invoiced
<1>5. ASSUME NEW k \in DOMAIN transactions
      PROVE  transactions[k].n \in Nat /\ transactions[k].n > 0 /\ Filed(transactions[k])
  BY <1>1, TransactionAssumption DEF Filed
<1> QED  BY <1>2, <1>3, <1>4, <1>5 DEF Listed

\* The taxpayer's own of them, and those of these that it issued.
LEMMA OwnStored ==
    ASSUME Types, NEW p,
           p = OwnInvoices(taxpayer.tin, invoices) \/ p = Issued(taxpayer, invoices)
    PROVE  Listed(p) /\ \A k \in DOMAIN p : Invoiced(p[k]) /\ Own(p[k])
<1>1. Part(p, invoices) /\ \A k \in DOMAIN p : Own(p[k])
  <2>1. CASE p = OwnInvoices(taxpayer.tin, invoices)
    BY <2>1 DEF Part, OwnInvoices, OwnRows, RestrictValues, Restrict, Own
  <2>2. CASE p = Issued(taxpayer, invoices)
    BY <2>2 DEF Part, Issued, RestrictValues, Restrict, Own
  <2> QED  BY <2>1, <2>2
<1>2. Listed(p)
  BY <1>1, StoredRows, PartIsListed
<1>3. \A k \in DOMAIN p : Invoiced(p[k])
  BY <1>1, StoredRows DEF Part
<1> QED  BY <1>1, <1>2, <1>3

\* What an analysis reads is a context without a ring.
LEMMA ReadContext ==
    ASSUME Types, NEW read \in Reads
    PROVE  Context(taxpayer, read.invoices, read.transactions, now)
<1>1. \E p, limit : /\ p = OwnInvoices(taxpayer.tin, invoices) \/ p = Issued(taxpayer, invoices)
                    /\ limit \in Nat /\ read.invoices \in Fetch(p, limit)
  <2>1. InvoiceLimit \in Nat /\ 1 \in Nat
    BY LimitAssumption
  <2> QED  BY <2>1 DEF Reads, FullReads
<1>2. read.transactions \in Fetch(transactions, TransactionLimit)
  BY DEF Reads, FullReads
<1>3. PICK p, limit : /\ p = OwnInvoices(taxpayer.tin, invoices) \/ p = Issued(taxpayer, invoices)
                      /\ limit \in Nat /\ read.invoices \in Fetch(p, limit)
  BY <1>1
<1>4. Listed(p) /\ \A k \in DOMAIN p : Invoiced(p[k]) /\ Own(p[k])
  BY <1>3, OwnStored
<1>5. Returned(read.invoices, p)
  <2>1. \A k \in DOMAIN p : "n" \in DOMAIN p[k]
    BY <1>4 DEF Invoiced
  <2> QED  BY <1>3, <1>4, <2>1, FetchReturns
<1>6. InvoiceRows(read.invoices) /\ \A k \in DOMAIN read.invoices : Own(read.invoices[k])
  BY <1>4, <1>5, ReturnedColumns
<1>7. TransactionRows(read.transactions)
  <2>1. \A k \in DOMAIN transactions : "n" \in DOMAIN transactions[k]
    BY StoredRows DEF Filed
  <2>2. Returned(read.transactions, transactions)
    BY <1>2, <2>1, StoredRows, LimitAssumption, FetchReturns
  <2> QED  BY <2>2, StoredRows, ReturnedColumns
<1>8. Chains(Edges(read.invoices)) = {}
  BY <1>6, OwnRowsAreAStar DEF InvoiceRows, Listed, Own
<1>9. now \in Int
  BY BoundAssumption DEF Types
<1> QED  BY <1>6, <1>7, <1>8, <1>9 DEF Context, Types

\* What is reported of each read.
LEMMA AnalysisIs ==
    ASSUME Types, NEW read \in Reads
    PROVE  /\ Analysis(read).alerts
                 = Detections(taxpayer, read.invoices, read.transactions, now)
           /\ ReportOK(Analysis(read)) /\ RankedHigh(Analysis(read))
<1>1. Context(taxpayer, read.invoices, read.transactions, now)
  BY ReadContext
<1> QED  BY <1>1, ReportIs DEF Analysis

\* tasks.py:52-54, taxpayers.py:121-124, integrations.py:188-190,
\* invoices.py:179-181: no analysis ever sees a circular chain, whoever trades
\* with whom and however much, so that the detections that need one are
\* never raised.
THEOREM NoRingIsSeen == Spec => []NoRingSeen
<1>1. Types => NoRingSeen
  BY ReadContext DEF NoRingSeen, Context
<1> QED  BY <1>1, TypesAlways, PTL

\* engine.py:114-206: whatever is traded and filed, an analysis raises one
\* alert at most per rule, each of a score that is worth one, and gives a
\* composite score from 29.10, which the anomaly detector gives to
\* everybody, to 100.
THEOREM AnalysisTypeCorrect == Spec => []TypeOK
<1>1. Types => TypeOK
  BY AnalysisIs DEF TypeOK, Types
<1> QED  BY <1>1, TypesAlways, PTL

\* risk_scorer.py:125-135: a taxpayer all of whose alerts are critical is
\* high risk at least, whatever the other components say of it.
THEOREM CriticalIsAlwaysHighRisk == Spec => []CriticalIsHighRisk
<1>1. Types => CriticalIsHighRisk
  BY AnalysisIs DEF CriticalIsHighRisk
<1> QED  BY <1>1, TypesAlways, PTL

\* missing_trader.py:43-110, refund_fraud.py:46-140: whatever else there is,
\* each of the listed values of a signal raises the alert of its rule, and an
\* alert that rests on one signal comes from one of them.
THEOREM TriggersAlwaysSuffice == Spec => []TriggersSuffice
<1>1. ASSUME Types, NEW read \in Reads
      PROVE  LET alerts == Analysis(read).alerts
                 missing == MissingAlone(taxpayer, read.invoices, read.transactions, now)
                 refund == RefundAlone(taxpayer, read.invoices, read.transactions)
             IN /\ missing => "missing_trader" \in Rules(alerts)
                /\ refund => "refund_fraud" \in Rules(alerts)
                /\ \A a \in alerts :
                      a.confidence = 20 => /\ a.rule = "missing_trader" => missing
                                           /\ a.rule = "refund_fraud" => refund
  <2>1. Context(taxpayer, read.invoices, read.transactions, now)
    BY <1>1, ReadContext
  <2>2. Analysis(read).alerts = Detections(taxpayer, read.invoices, read.transactions, now)
    BY <1>1, AnalysisIs
  <2> QED  BY <2>1, <2>2, DetectionsAre DEF Rules
<1>2. Types => TriggersSuffice
  BY <1>1 DEF TriggersSuffice
<1> QED  BY <1>2, TypesAlways, PTL

-----------------------------------------------------------------------------
(* Time.                                                                   *)

\* Every signal of S has one of its name in T, worth no less.
Grows(S, T) ==
    /\ \A s, u \in S : s.name = u.name => s = u
    /\ \A s \in S : \E t \in T : t.name = s.name /\ s.points <= t.points

\* Then the points do not fall, and nor does the score of a rule.
LEMMA PointsGrow ==
    ASSUME NEW S, Signals(S), NEW T, Signals(T), Grows(S, T)
    PROVE  Points(S) <= Points(T)
<1> DEFINE m == [s \in S |-> CHOOSE t \in T : t.name = s.name /\ s.points <= t.points]
           f == [s \in S |-> s.points]
           k == [t \in T |-> t.points]
<1>1. \A s \in S : m[s] \in T /\ m[s].name = s.name /\ s.points <= m[s].points
  BY DEF Grows
<1>2. m \in Injection(S, T)
  <2>1. m \in [S -> T]
    BY <1>1
  <2> HIDE DEF m
  <2>2. ASSUME NEW s \in S, NEW u \in S, m[s] = m[u]  PROVE s = u
    <3>1. s.name = u.name
      BY <1>1, <2>2
    <3> QED  BY <3>1 DEF Grows
  <2> QED  BY <2>1, <2>2 DEF Injection, IsInjective
<1> HIDE DEF m
<1>3. IsFiniteSet(S) /\ IsFiniteSet(T)
  BY DEF Signals
<1>4. \A s \in S : f[s] \in Nat /\ f[s] = s.points
  BY DEF Signals
<1>5. \A t \in T : k[t] \in Nat /\ k[t] = t.points
  BY DEF Signals
<1>6. Points(S) = SumOver(f, S) /\ Points(T) = SumOver(k, T)
  BY SumFunctionIs DEF Points
<1> HIDE DEF f, k
<1>7. \A s \in S : f[s] <= k[m[s]]
  BY <1>1, <1>4, <1>5
<1>8. SumOver(f, S) <= SumOver(k, T)
  BY <1>2, <1>3, <1>4, <1>5, <1>7, SumOverInjection
<1> QED  BY <1>6, <1>8

LEMMA DetectionGrows ==
    ASSUME NEW rule, NEW S, Signals(S), NEW T, Signals(T), Grows(S, T),
           NEW threshold \in Int, NEW share, NEW most,
           NEW d \in Detection(rule, S, threshold, share, most)
    PROVE  \E e \in Detection(rule, T, threshold, share, most) : e.score >= d.score
<1> DEFINE score(A) == Capped(FullScore, Points(A))
           det(A) == [rule |-> rule, score |-> score(A), severity |-> Severity(score(A)),
                      confidence |-> Capped(most, share * Cardinality(A))]
<1>1. \A A : Detection(rule, A, threshold, share, most) =
                IF score(A) >= threshold THEN {det(A)} ELSE {}
  BY DEF Detection
<1>2. \A A : det(A).score = score(A)
  OBVIOUS
<1>3. score(S) \in Int /\ score(T) \in Int /\ score(S) <= score(T)
  <2>1. Points(S) \in Nat /\ Points(T) \in Nat /\ Points(S) <= Points(T)
    BY PointsAre, PointsGrow
  <2> QED  BY <2>1 DEF Capped, FullScore
<1> HIDE DEF score, det
<1>4. score(S) >= threshold /\ d = det(S)
  BY <1>1
<1>5. score(T) >= threshold
  BY <1>3, <1>4
<1>6. det(T) \in Detection(rule, T, threshold, share, most)
  BY <1>1, <1>5
<1> QED  BY <1>2, <1>3, <1>4, <1>6

\* A signal that keeps its name and loses no points.
Signalled(A, name, points) == A = {[name |-> name, points |-> points]}

LEMMA SignalGrows ==
    ASSUME NEW A, NEW B, NEW name, NEW p \in Nat, NEW q \in Nat, p <= q,
           A = {} \/ Signalled(A, name, p), A # {} => Signalled(B, name, q)
    PROVE  Grows(A, B) /\ \A s \in A : s.name = name
<1>1. CASE A = {}
  BY <1>1 DEF Grows
<1>2. CASE A # {}
  <2>1. A = {[name |-> name, points |-> p]} /\ B = {[name |-> name, points |-> q]}
    BY <1>2 DEF Signalled
  <2>2. \A s \in A : s.name = name /\ s.points = p
    BY <2>1
  <2>3. \A s, u \in A : s = u
    BY <2>1
  <2>4. \E t \in B : t.name = name /\ t.points = q
    BY <2>1
  <2> QED  BY <2>2, <2>3, <2>4 DEF Grows
<1> QED  BY <1>1, <1>2

\* Signals of different names grow together.
LEMMA GrowsUnion ==
    ASSUME NEW A, NEW B, NEW C, NEW D, Grows(A, B), Grows(C, D),
           \A s \in A, u \in C : s.name # u.name
    PROVE  Grows(A \cup C, B \cup D)
BY DEF Grows

LEMMA DaysGrow ==
    \A from, time, later \in Int : time <= later => Days(from, time) <= Days(from, later)
BY DEF Days

\* missing_trader: time alone takes none of its signals away but that of
\* recent imports, and none of their points.
LEMMA MissingTraderGrows ==
    ASSUME NEW tp \in Profiles, NEW rows, InvoiceRows(rows), NEW filed, TransactionRows(filed),
           NEW time \in Int, NEW later \in Int, time <= later, PostImport(tp, rows, time) = {}
    PROVE  Grows(MissingTraderSignals(tp, rows, filed, time),
                 MissingTraderSignals(tp, rows, filed, later))
<1> DEFINE never == tp.registered # NONE /\ DOMAIN VatReturns(filed) = {}
           age(t) == Days(tp.registered, t)
           silent(t) == Days(tp.lastFiling, t)
           A1(t) == IF never THEN Signal("never_filed", age(t) > 30, Capped(4000, 50 * age(t)))
                    ELSE {}
           A2(t) == IF tp.lastFiling # NONE THEN Inactive(silent(t)) ELSE {}
           A3 == Signal("consecutive_late_filings", tp.streak >= 3, Capped(3500, 1000 * tp.streak))
           A4 == Signal("undeclared_output_vat", ClaimedUndeclared(tp, rows) > 10000,
                        Capped(4000, ClaimedUndeclared(tp, rows) \div 5))
           A5(t) == PostImport(tp, rows, t)
           A6 == Signal("new_high_volume", tp.newly /\ tp.turnover > 1000000, 1500)
           S(t) == MissingTraderSignals(tp, rows, filed, t)
<1>1. \A t : S(t) = A1(t) \cup A2(t) \cup A3 \cup A4 \cup A5(t) \cup A6
  BY DEF MissingTraderSignals
<1>2. Grows(A1(time), A1(later)) /\ \A s \in A1(time) : s.name = "never_filed"
  <2>1. CASE never
    <3>1. age(time) \in Int /\ age(later) \in Int /\ age(time) <= age(later)
      BY <2>1, ProfileIs, DaysAre, DaysGrow
    <3> DEFINE points(t) == Capped(4000, 50 * age(t))
    <3>2. \A t : A1(t) = IF age(t) > 30 THEN {[name |-> "never_filed", points |-> points(t)]} ELSE {}
      BY <2>1 DEF Signal
    <3> HIDE DEF age
    <3>3. age(time) > 30 => /\ age(later) > 30 /\ points(time) \in Nat /\ points(later) \in Nat
                            /\ points(time) <= points(later)
      BY <3>1 DEF Capped
    <3> HIDE DEF A1, points
    <3>4. CASE age(time) > 30
      <4>1. /\ Signalled(A1(time), "never_filed", points(time))
            /\ Signalled(A1(later), "never_filed", points(later))
        BY <3>2, <3>3, <3>4 DEF Signalled
      <4> QED  BY <3>3, <3>4, <4>1, SignalGrows
    <3>5. CASE ~(age(time) > 30)
      <4>1. A1(time) = {}
        BY <3>2, <3>5
      <4> QED  BY <4>1 DEF Grows
    <3> QED  BY <3>4, <3>5
  <2>2. CASE ~never
    <3>1. A1(time) = {}
      BY <2>2
    <3> QED  BY <3>1 DEF Grows
  <2> QED  BY <2>1, <2>2
<1>3. Grows(A2(time), A2(later)) /\ \A s \in A2(time) : s.name = "inactive_trader"
  <2>1. CASE tp.lastFiling # NONE
    <3>1. silent(time) \in Int /\ silent(later) \in Int /\ silent(time) <= silent(later)
      BY <2>1, ProfileIs, DaysAre, DaysGrow
    <3> DEFINE points(t) == Capped(3500, (100 * silent(t)) \div 3)
    <3>2. \A t : A2(t) = IF silent(t) > 90 THEN {[name |-> "inactive_trader", points |-> points(t)]}
                         ELSE {}
      BY <2>1 DEF Inactive, Signal
    <3> HIDE DEF silent
    <3>3. silent(time) > 90 => /\ silent(later) > 90 /\ points(time) \in Nat /\ points(later) \in Nat
                               /\ points(time) <= points(later)
      BY <3>1 DEF Capped
    <3> HIDE DEF A2, points
    <3>4. CASE silent(time) > 90
      <4>1. /\ Signalled(A2(time), "inactive_trader", points(time))
            /\ Signalled(A2(later), "inactive_trader", points(later))
        BY <3>2, <3>3, <3>4 DEF Signalled
      <4> QED  BY <3>3, <3>4, <4>1, SignalGrows
    <3>5. CASE ~(silent(time) > 90)
      <4>1. A2(time) = {}
        BY <3>2, <3>5
      <4> QED  BY <4>1 DEF Grows
    <3> QED  BY <3>4, <3>5
  <2>2. CASE tp.lastFiling = NONE
    <3>1. A2(time) = {}
      BY <2>2
    <3> QED  BY <3>1 DEF Grows
  <2> QED  BY <2>1, <2>2
<1>4. /\ \A s \in A3 : s.name = "consecutive_late_filings"
      /\ \A s \in A4 : s.name = "undeclared_output_vat"
      /\ \A s \in A6 : s.name = "new_high_volume"
      /\ \A s, u \in A3 : s = u
      /\ \A s, u \in A4 : s = u
      /\ \A s, u \in A6 : s = u
  <2> DEFINE p6 == 1500
  <2> HIDE DEF p6
  <2>1. A6 = Signal("new_high_volume", tp.newly /\ tp.turnover > 1000000, p6)
    BY SMT DEF p6
  <2> QED  BY <2>1 DEF Signal
<1> HIDE DEF A3, A4, A6
<1>5. \A s \in A3 \cup A4 \cup A6 : s.points \in Nat
  <2>1. Signals(S(time))
    BY MissingTraderSignalsAre
  <2> HIDE DEF S, A1, A2, A5
  <2>2. A3 \cup A4 \cup A6 \subseteq S(time)
    BY <1>1
  <2> QED  BY <2>1, <2>2 DEF Signals
<1>6. Grows(A3, A3) /\ Grows(A4, A4) /\ Grows(A6, A6)
  <2>1. \A p \in Nat : p <= p
    OBVIOUS
  <2> QED  BY <1>4, <1>5, <2>1 DEF Grows
<1> HIDE DEF A1, A2, A5, S
<1>7. Grows(A1(time) \cup A2(time), A1(later) \cup A2(later))
  BY <1>2, <1>3, GrowsUnion
<1>8. Grows((A1(time) \cup A2(time)) \cup A3, (A1(later) \cup A2(later)) \cup A3)
  BY <1>2, <1>3, <1>4, <1>6, <1>7, GrowsUnion
<1>9. Grows(((A1(time) \cup A2(time)) \cup A3) \cup A4, ((A1(later) \cup A2(later)) \cup A3) \cup A4)
  BY <1>2, <1>3, <1>4, <1>6, <1>8, GrowsUnion
<1>10. Grows((((A1(time) \cup A2(time)) \cup A3) \cup A4) \cup A6,
             (((A1(later) \cup A2(later)) \cup A3) \cup A4) \cup A6)
  BY <1>2, <1>3, <1>4, <1>6, <1>9, GrowsUnion
<1>11. A5(time) = {}
  BY DEF A5
<1>12. S(time) = (((A1(time) \cup A2(time)) \cup A3) \cup A4) \cup A6
  BY <1>1, <1>11
<1>13. (((A1(later) \cup A2(later)) \cup A3) \cup A4) \cup A6 \subseteq S(later)
  BY <1>1
<1>14. Grows(S(time), S(later))
  BY <1>10, <1>12, <1>13 DEF Grows
<1> QED  BY <1>14 DEF S

\* missing_trader.py:43-59: days of silence only add to an alert that does
\* not rest on recent imports.
THEOREM SilenceNeverClears == Spec => SilenceKeepsMissing
<1> DEFINE found(read, time) == MissingTrader(taxpayer, read.invoices, read.transactions, time)
           Keeps == \A read \in Reads :
                       now' # now /\ PostImport(taxpayer, read.invoices, now) = {} =>
                          \A d \in found(read, now) :
                             \E e \in found(read, now') : e.score >= d.score
<1>1. ASSUME Types, Types', Next, NEW read \in Reads, now' # now,
             PostImport(taxpayer, read.invoices, now) = {}, NEW d \in found(read, now)
      PROVE  \E e \in found(read, now') : e.score >= d.score
  <2>1. PassTime
    BY <1>1 DEF Next, Submit, File
  <2>2. now \in Int /\ now' \in Int /\ now <= now'
    BY <1>1, <2>1, BoundAssumption DEF PassTime, Types
  <2>3. PICK own, filed : own = read.invoices /\ filed = read.transactions
    OBVIOUS
  <2>4. taxpayer \in Profiles /\ InvoiceRows(own) /\ TransactionRows(filed)
    BY <1>1, <2>3, ReadContext DEF Context
  <2> DEFINE S(time) == MissingTraderSignals(taxpayer, own, filed, time)
  <2>5. Signals(S(now)) /\ Signals(S(now')) /\ Grows(S(now), S(now'))
    BY <1>1, <2>2, <2>3, <2>4, MissingTraderSignalsAre, MissingTraderGrows
  <2>6. \A time : found(read, time) = Detection("missing_trader", S(time), 3000, 20, 95)
    BY <2>3 DEF MissingTrader
  <2> HIDE DEF S, found
  <2>7. 3000 \in Int
    OBVIOUS
  <2> QED  BY <1>1, <2>5, <2>6, <2>7, DetectionGrows
<1>2. Types /\ Types' /\ [Next]_vars => [Keeps]_vars
  <2> SUFFICES ASSUME Types, Types', [Next]_vars PROVE [Keeps]_vars
    OBVIOUS
  <2>1. CASE UNCHANGED vars
    BY <2>1
  <2>2. CASE Next
    <3>1. Keeps
      BY <1>1, <2>2
    <3> QED  BY <3>1
  <2> QED  BY <2>1, <2>2
<1>3. [][Keeps]_vars => SilenceKeepsMissing
  BY PTL DEF SilenceKeepsMissing
<1> QED  BY <1>2, <1>3, TypesAlways, PTL DEF Spec

-----------------------------------------------------------------------------
(* The order of the rows.                                                  *)

\* The rows of q are those of p, at the positions that m gives.
Renames(m, p, q) ==
    /\ \A j, k \in DOMAIN p : m[j] = m[k] => j = k
    /\ DOMAIN q = {m[k] : k \in DOMAIN p}
    /\ \A k \in DOMAIN p : q[m[k]] = p[k]

\* The same rows are there, as often, and add up to the same.
LEMMA RenamedRange ==
    ASSUME NEW m, NEW p, NEW q, Renames(m, p, q)
    PROVE  Range(p) = Range(q) /\ (DOMAIN p = {} <=> DOMAIN q = {})
<1>1. \A k \in DOMAIN p : m[k] \in DOMAIN q /\ q[m[k]] = p[k]
  BY DEF Renames
<1>2. \A j \in DOMAIN q : \E k \in DOMAIN p : j = m[k]
  BY DEF Renames
<1>3. \A k \in DOMAIN p : p[k] \in Range(q)
  BY <1>1 DEF Range
<1>4. \A j \in DOMAIN q : q[j] \in Range(p)
  BY <1>1, <1>2 DEF Range
<1> QED  BY <1>1, <1>2, <1>3, <1>4 DEF Range

LEMMA RenamedSum ==
    ASSUME NEW m, NEW p, NEW q, Renames(m, p, q), IsFiniteSet(DOMAIN p),
           NEW f, DOMAIN f = DOMAIN p, NEW g, DOMAIN g = DOMAIN q,
           \A k \in DOMAIN p : f[k] \in Int /\ f[k] = g[m[k]]
    PROVE  SumFunction(f) = SumFunction(g)
<1> DEFINE Image == {m[k] : k \in DOMAIN p}
<1>1. \A j, k \in DOMAIN p : m[j] = m[k] => j = k
  BY DEF Renames
<1>2. SumOver(f, DOMAIN p) = SumOver(g, Image)
  BY <1>1, SumOverRenamed
<1>3. Image = DOMAIN g
  BY DEF Renames
<1> QED  BY <1>2, <1>3, SumFunctionIs

LEMMA RenamedCount ==
    ASSUME NEW m, NEW p, NEW q, Renames(m, p, q), Listed(p)
    PROVE  Count(p) = Count(q)
<1> DEFINE f == [k \in DOMAIN p |-> p[k].n]
           g == [k \in DOMAIN q |-> q[k].n]
<1>1. IsFiniteSet(DOMAIN p) /\ DOMAIN f = DOMAIN p /\ DOMAIN g = DOMAIN q
  BY DEF Listed
<1>2. \A k \in DOMAIN p : f[k] \in Int /\ f[k] = g[m[k]]
  BY DEF Renames, Listed
<1>3. Count(p) = SumFunction(f) /\ Count(q) = SumFunction(g)
  BY DEF Count
<1> HIDE DEF f, g
<1> QED  BY <1>1, <1>2, <1>3, RenamedSum

LEMMA RenamedTotal ==
    ASSUME NEW m, NEW p, NEW q, Renames(m, p, q), Listed(p),
           NEW c, \A k \in DOMAIN p : p[k][c] \in Int
    PROVE  Total(p, c) = Total(q, c)
<1> DEFINE f == [k \in DOMAIN p |-> p[k].n * p[k][c]]
           g == [k \in DOMAIN q |-> q[k].n * q[k][c]]
<1>1. IsFiniteSet(DOMAIN p) /\ DOMAIN f = DOMAIN p /\ DOMAIN g = DOMAIN q
  BY DEF Listed
<1>2. \A k \in DOMAIN p : f[k] \in Int /\ f[k] = g[m[k]]
  <2> TAKE k \in DOMAIN p
  <2>1. q[m[k]] = p[k] /\ m[k] \in DOMAIN q
    BY DEF Renames
  <2>2. p[k].n \in Int /\ p[k][c] \in Int
    BY DEF Listed
  <2>3. p[k].n * p[k][c] \in Int
    BY <2>2
  <2> QED  BY <2>1, <2>3
<1>3. Total(p, c) = SumFunction(f) /\ Total(q, c) = SumFunction(g)
  BY DEF Total
<1> HIDE DEF f, g
<1> QED  BY <1>1, <1>2, <1>3, RenamedSum

\* A selection of rows by what they hold.
Picked(s, p, V) == s = Restrict(p, {k \in DOMAIN p : p[k] \in V})

LEMMA RenamedPick ==
    ASSUME NEW m, NEW p, NEW q, Renames(m, p, q), NEW V,
           NEW s, Picked(s, p, V), NEW t, Picked(t, q, V)
    PROVE  Renames(m, s, t)
<1>1. DOMAIN s = {k \in DOMAIN p : p[k] \in V} /\ \A k \in DOMAIN s : s[k] = p[k]
  BY DEF Picked, Restrict
<1>2. DOMAIN t = {k \in DOMAIN q : q[k] \in V} /\ \A k \in DOMAIN t : t[k] = q[k]
  BY DEF Picked, Restrict
<1>3. DOMAIN t = {m[k] : k \in DOMAIN s}
  BY <1>1, <1>2 DEF Renames
<1> QED  BY <1>1, <1>2, <1>3 DEF Renames

LEMMA RenamedSelections ==
    ASSUME NEW m, NEW p, NEW q, Renames(m, p, q), NEW tp
    PROVE  /\ Renames(m, Issued(tp, p), Issued(tp, q))
           /\ Renames(m, Received(tp, p), Received(tp, q))
           /\ Renames(m, Crossing(p), Crossing(q))
           /\ Renames(m, VatReturns(p), VatReturns(q))
           /\ Renames(m, Refunds(p), Refunds(q))
<1> DEFINE R == Range(p)
<1>1. \A k \in DOMAIN p : p[k] \in R
  BY DEF Range
<1>2. \A k \in DOMAIN q : q[k] \in R
  BY RenamedRange DEF Range
<1> HIDE DEF R
<1>3. Renames(m, Issued(tp, p), Issued(tp, q))
  <2> DEFINE V == {i \in R : i.seller = tp.tin}
  <2>1. Picked(Issued(tp, p), p, V) /\ Picked(Issued(tp, q), q, V)
    BY <1>1, <1>2 DEF Picked, Issued, RestrictValues, Restrict
  <2> HIDE DEF V
  <2> QED  BY <2>1, RenamedPick
<1>4. Renames(m, Received(tp, p), Received(tp, q))
  <2> DEFINE V == {i \in R : i.buyer = tp.tin}
  <2>1. Picked(Received(tp, p), p, V) /\ Picked(Received(tp, q), q, V)
    BY <1>1, <1>2 DEF Picked, Received, RestrictValues, Restrict
  <2> HIDE DEF V
  <2> QED  BY <2>1, RenamedPick
<1>5. Renames(m, Crossing(p), Crossing(q))
  <2> DEFINE V == {i \in R : i.type \in {"export", "intra_community"}}
  <2>1. Picked(Crossing(p), p, V) /\ Picked(Crossing(q), q, V)
    BY <1>1, <1>2 DEF Picked, Crossing, RestrictValues, Restrict
  <2> HIDE DEF V
  <2> QED  BY <2>1, RenamedPick
<1>6. Renames(m, VatReturns(p), VatReturns(q))
  <2> DEFINE V == {t \in R : t.kind = "vat_return"}
  <2>1. Picked(VatReturns(p), p, V) /\ Picked(VatReturns(q), q, V)
    BY <1>1, <1>2 DEF Picked, VatReturns, RestrictValues, Restrict
  <2> HIDE DEF V
  <2> QED  BY <2>1, RenamedPick
<1>7. Renames(m, Refunds(p), Refunds(q))
  <2> DEFINE V == {t \in R : t.kind \in {"refund_claim", "amended_return"}}
  <2>1. Picked(Refunds(p), p, V) /\ Picked(Refunds(q), q, V)
    BY <1>1, <1>2 DEF Picked, Refunds, RestrictValues, Restrict
  <2> HIDE DEF V
  <2> QED  BY <2>1, RenamedPick
<1> QED  BY <1>3, <1>4, <1>5, <1>6, <1>7

LEMMA RenamedBack ==
    ASSUME NEW m, NEW p, NEW q, Renames(m, p, q)
    PROVE  \E back : Renames(back, q, p)
<1> DEFINE back == [i \in DOMAIN q |-> CHOOSE k \in DOMAIN p : m[k] = i]
<1>1. \A k \in DOMAIN p : m[k] \in DOMAIN q /\ q[m[k]] = p[k]
  BY DEF Renames
<1>2. \A i \in DOMAIN q : back[i] \in DOMAIN p /\ m[back[i]] = i
  BY DEF Renames
<1>3. \A k \in DOMAIN p : back[m[k]] = k
  BY <1>1, <1>2 DEF Renames
<1> HIDE DEF back
<1>4. DOMAIN p = {back[i] : i \in DOMAIN q}
  BY <1>1, <1>2, <1>3
<1>5. \A i, j \in DOMAIN q : back[i] = back[j] => i = j
  BY <1>2
<1>6. \A i \in DOMAIN q : p[back[i]] = q[i]
  BY <1>1, <1>2
<1>7. Renames(back, q, p)
  BY <1>4, <1>5, <1>6 DEF Renames
<1> QED  BY <1>7

\* Pairs of rows that match are as many.
Matched(P, p, W) == P = {x \in (DOMAIN p) \X (DOMAIN p) : <<p[x[1]], p[x[2]]>> \in W}

LEMMA RenamedPairs ==
    ASSUME NEW m, NEW p, NEW q, Renames(m, p, q), Listed(p),
           NEW W, NEW P, Matched(P, p, W), NEW Q, Matched(Q, q, W)
    PROVE  SumFunction([x \in P |-> p[x[1]].n * p[x[2]].n])
               = SumFunction([x \in Q |-> q[x[1]].n * q[x[2]].n])
<1> DEFINE f == [x \in P |-> p[x[1]].n * p[x[2]].n]
           g == [x \in Q |-> q[x[1]].n * q[x[2]].n]
           two == [x \in P |-> <<m[x[1]], m[x[2]]>>]
<1>1. \A k \in DOMAIN p : m[k] \in DOMAIN q /\ q[m[k]] = p[k]
  BY DEF Renames
<1>2. P \subseteq (DOMAIN p) \X (DOMAIN p)
  BY DEF Matched
<1>3. IsFiniteSet(P)
  <2>1. IsFiniteSet((DOMAIN p) \X (DOMAIN p))
    BY FS_Product DEF Listed
  <2> QED  BY <1>2, <2>1, FS_Subset
<1>4. \A x, y \in P : two[x] = two[y] => x = y
  <2> TAKE x, y \in P
  <2>1. \A j, k \in DOMAIN p : m[j] = m[k] => j = k
    BY DEF Renames
  <2>2. /\ x[1] \in DOMAIN p /\ x[2] \in DOMAIN p /\ x = <<x[1], x[2]>>
        /\ y[1] \in DOMAIN p /\ y[2] \in DOMAIN p /\ y = <<y[1], y[2]>>
    BY <1>2
  <2>3. two[x] = two[y] => m[x[1]] = m[y[1]] /\ m[x[2]] = m[y[2]]
    OBVIOUS
  <2> QED  BY <2>1, <2>2, <2>3
<1>5. Q = {two[x] : x \in P}
  <2>1. ASSUME NEW x \in P  PROVE two[x] \in Q
    <3>1. x[1] \in DOMAIN p /\ x[2] \in DOMAIN p /\ <<p[x[1]], p[x[2]]>> \in W
      BY DEF Matched
    <3>2. /\ m[x[1]] \in DOMAIN q /\ m[x[2]] \in DOMAIN q
          /\ <<q[m[x[1]]], q[m[x[2]]]>> \in W
      BY <1>1, <3>1
    <3> QED  BY <3>2 DEF Matched
  <2>2. ASSUME NEW y \in Q  PROVE \E x \in P : y = two[x]
    <3>1. /\ y[1] \in DOMAIN q /\ y[2] \in DOMAIN q /\ y = <<y[1], y[2]>>
          /\ <<q[y[1]], q[y[2]]>> \in W
      BY DEF Matched
    <3>2. PICK j \in DOMAIN p : m[j] = y[1]
      BY <3>1 DEF Renames
    <3>3. PICK k \in DOMAIN p : m[k] = y[2]
      BY <3>1 DEF Renames
    <3>4. <<p[j], p[k]>> \in W
      BY <1>1, <3>1, <3>2, <3>3
    <3>5. <<j, k>> \in P
      BY <3>4 DEF Matched
    <3>6. two[<<j, k>>] = y
      BY <3>1, <3>2, <3>3, <3>5
    <3> QED  BY <3>5, <3>6
  <2> HIDE DEF two
  <2> QED  BY <2>1, <2>2
<1>6. \A x \in P : f[x] \in Int /\ f[x] = g[two[x]]
  <2> TAKE x \in P
  <2>1. x[1] \in DOMAIN p /\ x[2] \in DOMAIN p
    BY <1>2
  <2>2. p[x[1]].n \in Int /\ p[x[2]].n \in Int
    BY <2>1 DEF Listed
  <2>3. p[x[1]].n * p[x[2]].n \in Int
    BY <2>2
  <2>4. two[x] \in Q
    BY <1>5
  <2>5. f[x] = p[x[1]].n * p[x[2]].n
    OBVIOUS
  <2>6. g[two[x]] = q[m[x[1]]].n * q[m[x[2]]].n
    BY <2>4
  <2>7. q[m[x[1]]] = p[x[1]] /\ q[m[x[2]]] = p[x[2]]
    BY <1>1, <2>1
  <2> QED  BY <2>3, <2>5, <2>6, <2>7
<1>7. DOMAIN f = P /\ DOMAIN g = Q
  OBVIOUS
<1> HIDE DEF f, g, two
<1>8. SumOver(f, P) = SumOver(g, {two[x] : x \in P})
  BY <1>3, <1>4, <1>6, SumOverRenamed
<1>9. SumFunction(f) = SumFunction(g)
  BY <1>5, <1>7, <1>8, SumFunctionIs
<1> QED  BY <1>9 DEF f, g

\* Rows of one instant are alike.
Alike(rows) == \A i, j \in DOMAIN rows : rows[i].hour = rows[j].hour => rows[i] = rows[j]

\* What a price drop is, by what the rows hold: the latest of the earlier
\* purchases of the seller was dearer.
Priced(v) == v.buyer # NONE /\ v.net # 0
Dearer(w, v) == w.net > 0 /\ 100 * (w.net - v.net) > 5 * w.net
Bought(R, v) == {w \in R : Priced(w) /\ w.hour < v.hour /\ w.buyer = v.seller}
Cheaper(R, v) == \E w \in Bought(R, v) : /\ \A u \in Bought(R, v) : u.hour <= w.hour
                                         /\ Dearer(w, v)

\* ... unless the seller traded with itself and did so at that instant
\* before: then that was the latest purchase.
Twin(rows, k) == /\ rows[k].buyer = rows[k].seller
                 /\ \E j \in DOMAIN rows : j < k /\ rows[j] = rows[k]
Drops(rows) == {k \in DOMAIN rows : /\ Priced(rows[k]) /\ Cheaper(Range(rows), rows[k])
                                    /\ ~Twin(rows, k)}

\* The positions that PriceDrops counts, in its words.
Before(rows, j, k) == \/ rows[j].hour < rows[k].hour
                      \/ rows[j].hour = rows[k].hour /\ j < k
Sold(rows, k) == {j \in {i \in DOMAIN rows : rows[i].buyer # NONE /\ rows[i].net # 0} :
                     Before(rows, j, k) /\ rows[j].buyer = rows[k].seller}
LastSold(rows, k) == {j \in Sold(rows, k) : \A l \in Sold(rows, k) : l = j \/ Before(rows, l, j)}
Dropped(rows, k) == \E j \in LastSold(rows, k) : Dearer(rows[j], rows[k])

LEMMA PriceDropsIs ==
    ASSUME NEW rows
    PROVE  PriceDrops(rows) = Count(Restrict(rows,
               {k \in {i \in DOMAIN rows : rows[i].buyer # NONE /\ rows[i].net # 0} :
                    Dropped(rows, k)}))
BY DEF PriceDrops, PriceDropsIn, Dropped, LastSold, Sold, Before, Dearer

LEMMA DroppedIs ==
    ASSUME NEW rows, InvoiceRows(rows), Alike(rows), NEW k \in DOMAIN rows, Priced(rows[k])
    PROVE  Dropped(rows, k) <=> Cheaper(Range(rows), rows[k]) /\ ~Twin(rows, k)
<1> DEFINE v == rows[k]
           R == Range(rows)
<1>0. /\ DOMAIN rows \subseteq Nat /\ IsFiniteSet(DOMAIN rows)
      /\ \A j \in DOMAIN rows : rows[j].hour \in Int /\ rows[j].net \in Nat /\ rows[j] \in R
      /\ \A u \in R : \E j \in DOMAIN rows : u = rows[j]
  BY DEF InvoiceRows, Listed, Range
<1>1. \A j : j \in Sold(rows, k) <=> /\ j \in DOMAIN rows /\ Priced(rows[j])
                                     /\ Before(rows, j, k) /\ rows[j].buyer = v.seller
  BY DEF Sold, Priced
<1>2. ASSUME NEW j \in Sold(rows, k), rows[j].hour = v.hour
      PROVE  Twin(rows, k) /\ rows[j] = v
  <2>1. j \in DOMAIN rows /\ j < k /\ rows[j].buyer = v.seller
    BY <1>0, <1>1, <1>2 DEF Before
  <2>2. rows[j] = v
    BY <1>2, <2>1 DEF Alike
  <2> QED  BY <2>1, <2>2 DEF Twin
<1>3. ASSUME NEW j \in Sold(rows, k), rows[j].hour # v.hour
      PROVE  rows[j] \in Bought(R, v)
  BY <1>0, <1>1, <1>3 DEF Before, Bought
<1>4. ASSUME NEW u \in Bought(R, v)
      PROVE  \E j \in Sold(rows, k) : rows[j] = u
  <2>1. PICK j \in DOMAIN rows : u = rows[j]
    BY <1>0 DEF Bought
  <2>2. Priced(rows[j]) /\ rows[j].hour < v.hour /\ rows[j].buyer = v.seller
    BY <2>1 DEF Bought
  <2>3. j \in Sold(rows, k)
    BY <1>1, <2>2 DEF Before
  <2> QED  BY <2>1, <2>3
<1>5. ASSUME Dropped(rows, k)  PROVE Cheaper(R, v) /\ ~Twin(rows, k)
  <2>1. PICK j \in LastSold(rows, k) : Dearer(rows[j], v)
    BY <1>5 DEF Dropped
  <2>2. j \in Sold(rows, k) /\ \A l \in Sold(rows, k) : l = j \/ Before(rows, l, j)
    BY DEF LastSold
  <2>3. j \in DOMAIN rows /\ Before(rows, j, k)
    BY <1>1, <2>2
  <2>4. rows[j] # v
    BY <1>0, <2>1 DEF Dearer
  <2>5. ~Twin(rows, k)
    <3>1. SUFFICES ASSUME Twin(rows, k)  PROVE FALSE
      OBVIOUS
    <3>2. PICK l \in DOMAIN rows : l < k /\ rows[l] = v
      BY <3>1 DEF Twin
    <3>3. l \in Sold(rows, k)
      BY <1>0, <1>1, <3>1, <3>2 DEF Before, Twin
    <3>4. l = j \/ Before(rows, l, j)
      BY <2>2, <3>3
    <3>5. Before(rows, l, j)
      BY <2>4, <3>2, <3>4
    <3>6. rows[j].hour = v.hour
      BY <1>0, <2>3, <3>2, <3>5 DEF Before
    <3> QED  BY <1>2, <2>2, <2>4, <3>6
  <2>6. rows[j].hour # v.hour
    BY <1>2, <2>2, <2>4
  <2>7. rows[j] \in Bought(R, v)
    BY <1>3, <2>2, <2>6
  <2>8. ASSUME NEW u \in Bought(R, v)  PROVE u.hour <= rows[j].hour
    <3>1. PICK l \in Sold(rows, k) : rows[l] = u
      BY <1>4
    <3>2. l = j \/ Before(rows, l, j)
      BY <2>2
    <3> QED  BY <1>0, <1>1, <2>3, <3>1, <3>2 DEF Before
  <2> QED  BY <2>1, <2>5, <2>7, <2>8 DEF Cheaper
<1>6. ASSUME Cheaper(R, v), ~Twin(rows, k)  PROVE Dropped(rows, k)
  <2>1. PICK w \in Bought(R, v) : (\A u \in Bought(R, v) : u.hour <= w.hour) /\ Dearer(w, v)
    BY <1>6 DEF Cheaper
  <2> DEFINE J == {j \in DOMAIN rows : rows[j] = w}
             last == Max(J)
  <2>2. J \in SUBSET Int /\ IsFiniteSet(J) /\ J # {}
    <3>1. \E j \in Sold(rows, k) : rows[j] = w
      BY <1>4
    <3> QED  BY <1>0, <1>1, <3>1, FS_Subset
  <2>3. last \in J /\ \A j \in J : last >= j
    <3> HIDE DEF J
    <3> QED  BY <2>2, MaxOfFinite
  <2> HIDE DEF last
  <2>4. last \in Sold(rows, k)
    BY <1>0, <1>1, <2>3 DEF Before, Bought
  <2>5. ASSUME NEW l \in Sold(rows, k), l # last  PROVE Before(rows, l, last)
    <3>1. rows[l] \in Bought(R, v) /\ l \in DOMAIN rows
      BY <1>1, <1>2, <1>3, <1>6
    <3>2. rows[l].hour <= w.hour /\ rows[last] = w /\ last \in DOMAIN rows
      BY <2>1, <2>3, <3>1
    <3>3. CASE rows[l].hour < w.hour
      BY <3>2, <3>3 DEF Before
    <3>4. CASE rows[l].hour = w.hour
      <4>1. rows[l] = rows[last]
        BY <3>1, <3>2, <3>4 DEF Alike
      <4>2. l < last
        BY <1>0, <2>3, <2>5, <3>1, <3>2, <4>1
      <4> QED  BY <3>2, <3>4, <4>2 DEF Before
    <3> QED  BY <1>0, <3>1, <3>2, <3>3, <3>4
  <2>6. last \in LastSold(rows, k)
    BY <2>4, <2>5 DEF LastSold
  <2> QED  BY <2>1, <2>3, <2>6 DEF Dropped
<1> QED  BY <1>5, <1>6

LEMMA PriceDropsAre ==
    ASSUME NEW rows, InvoiceRows(rows), Alike(rows)
    PROVE  PriceDrops(rows) = Count(Restrict(rows, Drops(rows)))
<1>1. {k \in {i \in DOMAIN rows : rows[i].buyer # NONE /\ rows[i].net # 0} : Dropped(rows, k)}
          = Drops(rows)
  BY DroppedIs DEF Drops, Priced
<1> QED  BY <1>1, PriceDropsIs

\* A trade of a seller with itself is moved to its first twin.
LEMMA DropsAtMost ==
    ASSUME NEW m, NEW p, NEW q, Renames(m, p, q), Listed(p), Listed(q)
    PROVE  Count(Restrict(p, Drops(p))) <= Count(Restrict(q, Drops(q)))
<1> DEFINE S == Drops(p)
           T == Drops(q)
           Same(k) == {i \in DOMAIN q : q[i] = p[k]}
           first(k) == CHOOSE i \in Same(k) : \A j \in Same(k) : i <= j
           to == [k \in S |-> IF p[k].buyer = p[k].seller THEN first(k) ELSE m[k]]
           f == [k \in S |-> p[k].n]
           g == [k \in T |-> q[k].n]
<1>0. /\ S \subseteq DOMAIN p /\ T \subseteq DOMAIN q
      /\ IsFiniteSet(S) /\ IsFiniteSet(T)
  BY FS_Subset DEF Drops, Listed
<1>1. \A k \in DOMAIN p : m[k] \in DOMAIN q /\ q[m[k]] = p[k]
  BY DEF Renames
<1>2. ASSUME NEW k \in S
      PROVE  /\ first(k) \in DOMAIN q /\ q[first(k)] = p[k]
             /\ \A j \in DOMAIN q : q[j] = p[k] => first(k) <= j
  <2>1. Same(k) \in SUBSET Nat /\ Same(k) # {}
    BY <1>0, <1>1 DEF Listed
  <2>2. \E i \in Same(k) : \A j \in Same(k) : i <= j
    <3> HIDE DEF Same
    <3> QED  BY <2>1, LeastElement
  <2>3. first(k) \in Same(k) /\ \A j \in Same(k) : first(k) <= j
    <3> HIDE DEF Same
    <3> QED  BY <2>2
  <2> HIDE DEF first
  <2> QED  BY <2>3
<1> HIDE DEF first
<1>3. \A k \in S : to[k] \in DOMAIN q /\ q[to[k]] = p[k]
  BY <1>0, <1>1, <1>2
<1>4. \A k \in S : to[k] \in T
  <2> TAKE k \in S
  <2>1. Priced(p[k]) /\ Cheaper(Range(p), p[k])
    BY DEF Drops
  <2>2. Range(p) = Range(q)
    BY RenamedRange
  <2>3. ~Twin(q, to[k])
    <3>1. SUFFICES ASSUME Twin(q, to[k])  PROVE FALSE
      OBVIOUS
    <3>2. PICK j \in DOMAIN q : j < to[k] /\ q[j] = p[k]
      BY <1>3, <3>1 DEF Twin
    <3>3. p[k].buyer = p[k].seller
      BY <1>3, <3>1 DEF Twin
    <3>4. to[k] = first(k)
      BY <3>3
    <3>5. first(k) <= j /\ first(k) \in DOMAIN q
      BY <1>2, <3>2
    <3> HIDE DEF to
    <3> QED  BY <3>2, <3>4, <3>5 DEF Listed
  <2> HIDE DEF to
  <2> QED  BY <1>3, <2>1, <2>2, <2>3 DEF Drops
<1>5. \A k, l \in S : to[k] = to[l] => k = l
  <2> SUFFICES ASSUME NEW k \in S, NEW l \in S, to[k] = to[l]  PROVE k = l
    OBVIOUS
  <2>1. p[k] = p[l]
    BY <1>3
  <2>2. k \in DOMAIN p /\ l \in DOMAIN p /\ k \in Nat /\ l \in Nat
    BY <1>0 DEF Listed
  <2>3. CASE p[k].buyer = p[k].seller
    <3>1. ~(l < k) /\ ~(k < l)
      BY <2>1, <2>2, <2>3 DEF Drops, Twin
    <3> QED  BY <2>2, <3>1
  <2>4. CASE p[k].buyer # p[k].seller
    <3>1. to[k] = m[k] /\ to[l] = m[l]
      BY <2>1, <2>4
    <3> HIDE DEF to
    <3> QED  BY <2>2, <3>1 DEF Renames
  <2> QED  BY <2>3, <2>4
<1>6. to \in Injection(S, T)
  <2>1. to \in [S -> T]
    BY <1>4
  <2> HIDE DEF to, S, T
  <2> QED  BY <1>5, <2>1 DEF Injection, IsInjective
<1>7. /\ \A k \in S : f[k] \in Nat
      /\ \A i \in T : g[i] \in Nat
      /\ \A k \in S : f[k] <= g[to[k]]
  <2>1. \A k \in S : f[k] = p[k].n /\ p[k].n \in Nat
    BY <1>0 DEF Listed
  <2>2. \A i \in T : g[i] = q[i].n /\ q[i].n \in Nat
    BY <1>0 DEF Listed
  <2>3. \A k \in S : g[to[k]] = p[k].n
    BY <1>3, <1>4, <2>2
  <2> HIDE DEF f, g, to, S, T
  <2>4. ASSUME NEW k \in S  PROVE f[k] <= g[to[k]]
    <3>1. f[k] = g[to[k]] /\ f[k] \in Nat
      BY <2>1, <2>3
    <3> QED  BY <3>1
  <2> QED  BY <2>1, <2>2, <2>4
<1>8. Count(Restrict(p, S)) = SumOver(f, S)
  <2>1. Count(Restrict(p, S)) = SumFunction(f)
    BY DEF Count, Restrict
  <2>2. DOMAIN f = S
    OBVIOUS
  <2> HIDE DEF f, S
  <2> QED  BY <2>1, <2>2, SumFunctionIs
<1>9. Count(Restrict(q, T)) = SumOver(g, T)
  <2>1. Count(Restrict(q, T)) = SumFunction(g)
    BY DEF Count, Restrict
  <2>2. DOMAIN g = T
    OBVIOUS
  <2> HIDE DEF g, T
  <2> QED  BY <2>1, <2>2, SumFunctionIs
<1> HIDE DEF f, g, to, S, T
<1>10. SumOver(f, S) <= SumOver(g, T)
  BY <1>0, <1>6, <1>7, SumOverInjection
<1> QED  BY <1>8, <1>9, <1>10 DEF S, T

LEMMA RenamedAlike ==
    ASSUME NEW m, NEW p, NEW q, Renames(m, p, q)
    PROVE  /\ Listed(p) /\ DOMAIN q \subseteq Nat /\ IsFiniteSet(DOMAIN q) => Listed(q)
           /\ InvoiceRows(p) /\ Listed(q) => InvoiceRows(q)
           /\ TransactionRows(p) /\ Listed(q) => TransactionRows(q)
           /\ Alike(p) => Alike(q)
<1>1. \A i \in DOMAIN q : \E k \in DOMAIN p : q[i] = p[k]
  BY DEF Renames
<1>2. Listed(p) /\ DOMAIN q \subseteq Nat /\ IsFiniteSet(DOMAIN q) => Listed(q)
  BY <1>1 DEF Listed
<1>3. InvoiceRows(p) /\ Listed(q) => InvoiceRows(q)
  BY <1>1 DEF InvoiceRows
<1>4. TransactionRows(p) /\ Listed(q) => TransactionRows(q)
  BY <1>1 DEF TransactionRows
<1>5. Alike(p) => Alike(q)
  BY <1>1 DEF Alike
<1> QED  BY <1>2, <1>3, <1>4, <1>5

LEMMA RenamedDrops ==
    ASSUME NEW m, NEW p, NEW q, Renames(m, p, q), InvoiceRows(p), Alike(p), Listed(q)
    PROVE  PriceDrops(p) = PriceDrops(q)
<1>1. Listed(p) /\ InvoiceRows(q) /\ Alike(q)
  BY RenamedAlike DEF InvoiceRows
<1>2. PICK back : Renames(back, q, p)
  BY RenamedBack
<1> DEFINE x == Count(Restrict(p, Drops(p)))
           y == Count(Restrict(q, Drops(q)))
<1>3. x <= y
  BY <1>1, DropsAtMost
<1>4. y <= x
  BY <1>1, <1>2, DropsAtMost
<1>5. x \in Nat /\ y \in Nat
  <2>1. Part(Restrict(p, Drops(p)), p) /\ Part(Restrict(q, Drops(q)), q)
    BY DEF Part, Restrict, Drops
  <2> QED  BY <1>1, <2>1, PartIsListed, CountIs
<1>6. PriceDrops(p) = x /\ PriceDrops(q) = y
  BY <1>1, PriceDropsAre
<1> HIDE DEF x, y
<1> QED  BY <1>3, <1>4, <1>5, <1>6

\* What a rule counts and adds up of a selection.
LEMMA PickedSame ==
    ASSUME NEW m, NEW p, NEW q, Renames(m, p, q), Listed(p),
           NEW V, NEW s, Picked(s, p, V), NEW t, Picked(t, q, V)
    PROVE  /\ Count(s) = Count(t)
           /\ DOMAIN s = {} <=> DOMAIN t = {}
           /\ Range(s) = Range(t)
           /\ \A c : (\A k \in DOMAIN p : p[k][c] \in Int) => Total(s, c) = Total(t, c)
<1>1. Renames(m, s, t)
  BY RenamedPick
<1>2. Part(s, p)
  BY DEF Picked, Part, Restrict
<1>3. Listed(s)
  BY <1>2, PartIsListed
<1>4. ASSUME NEW c, \A k \in DOMAIN p : p[k][c] \in Int  PROVE Total(s, c) = Total(t, c)
  <2>1. \A k \in DOMAIN s : s[k][c] \in Int
    BY <1>2, <1>4 DEF Part
  <2> QED  BY <1>1, <1>3, <2>1, RenamedTotal
<1> QED  BY <1>1, <1>3, <1>4, RenamedCount, RenamedRange

\* The rows of both are the same values.
LEMMA RenamedValues ==
    ASSUME NEW m, NEW p, NEW q, Renames(m, p, q)
    PROVE  /\ \A k \in DOMAIN p : p[k] \in Range(p)
           /\ \A k \in DOMAIN q : q[k] \in Range(p)
<1>1. \A k \in DOMAIN q : q[k] \in Range(q)
  BY DEF Range
<1>2. \A k \in DOMAIN p : p[k] \in Range(p)
  BY DEF Range
<1> QED  BY <1>1, <1>2, RenamedRange

\* Two lists of invoices, and two of transactions, that differ in the order.
Reordered(m, p, q) == Renames(m, p, q) /\ InvoiceRows(p) /\ InvoiceRows(q)
Refiled(m, f, g) == Renames(m, f, g) /\ TransactionRows(f) /\ TransactionRows(g)

LEMMA ReorderedSelections ==
    ASSUME NEW m, NEW p, NEW q, Reordered(m, p, q), NEW tp
    PROVE  /\ Reordered(m, Issued(tp, p), Issued(tp, q))
           /\ Reordered(m, Received(tp, p), Received(tp, q))
           /\ Reordered(m, Crossing(p), Crossing(q))
BY RenamedSelections, Selections, PartIsListed DEF Reordered

LEMMA RefiledSelections ==
    ASSUME NEW m, NEW f, NEW g, Refiled(m, f, g)
    PROVE  /\ Refiled(m, VatReturns(f), VatReturns(g))
           /\ Refiled(m, Refunds(f), Refunds(g))
BY RenamedSelections, Selections, PartIsListed DEF Refiled

\* missing_trader.
LEMMA ClaimedSame ==
    ASSUME NEW m, NEW p, NEW q, Reordered(m, p, q), NEW tp
    PROVE  ClaimedUndeclared(tp, p) = ClaimedUndeclared(tp, q)
<1> DEFINE s == Issued(tp, p)
           t == Issued(tp, q)
           V == {i \in Range(s) : i.buyerDecl /\ ~i.sellerDecl}
           u == RestrictValues(s, LAMBDA i : i.buyerDecl /\ ~i.sellerDecl)
           w == RestrictValues(t, LAMBDA i : i.buyerDecl /\ ~i.sellerDecl)
<1>1. Reordered(m, s, t)
  BY ReorderedSelections
<1>2. ClaimedUndeclared(tp, p) = Total(u, "vat") /\ ClaimedUndeclared(tp, q) = Total(w, "vat")
  BY DEF ClaimedUndeclared
<1> HIDE DEF s, t
<1>3. Picked(u, s, V) /\ Picked(w, t, V)
  BY <1>1, RenamedValues DEF Picked, RestrictValues, Restrict, Reordered
<1>4. Listed(s) /\ Renames(m, s, t) /\ \A k \in DOMAIN s : s[k]["vat"] \in Int
  BY <1>1 DEF Reordered, InvoiceRows
<1> HIDE DEF u, w, V
<1> QED  BY <1>2, <1>3, <1>4, PickedSame

LEMMA PostImportSame ==
    ASSUME NEW m, NEW p, NEW q, Reordered(m, p, q), NEW tp, NEW time
    PROVE  PostImport(tp, p, time) = PostImport(tp, q, time)
<1> DEFINE s == Received(tp, p)
           t == Received(tp, q)
           V == {i \in Range(s) : i.type \in {"import", "intra_community"}
                                  /\ Days(i.hour, time) <= 30}
           u == RecentImports(tp, p, time)
           w == RecentImports(tp, q, time)
<1>1. Reordered(m, s, t)
  BY ReorderedSelections
<1>2. Picked(u, s, V) /\ Picked(w, t, V)
  <2>1. /\ u = RestrictValues(s, LAMBDA i : i.type \in {"import", "intra_community"}
                                           /\ Days(i.hour, time) <= 30)
        /\ w = RestrictValues(t, LAMBDA i : i.type \in {"import", "intra_community"}
                                           /\ Days(i.hour, time) <= 30)
    BY DEF RecentImports
  <2> HIDE DEF s, t, u, w
  <2> QED  BY <1>1, <2>1, RenamedValues DEF Picked, RestrictValues, Restrict, Reordered
<1> HIDE DEF s, t, u, w, V
<1>3. Listed(s) /\ Renames(m, s, t) /\ \A k \in DOMAIN s : s[k]["vat"] \in Int
  BY <1>1 DEF Reordered, InvoiceRows
<1>4. Total(u, "vat") = Total(w, "vat") /\ (DOMAIN u = {} <=> DOMAIN w = {})
  BY <1>2, <1>3, PickedSame
<1> DEFINE open(x) == DOMAIN x # {} /\ tp.lastFiling # NONE /\ Days(tp.lastFiling, time) > 14
           points(x) == Capped(3500, Total(x, "vat") \div 10)
           signal(x) == IF open(x)
                        THEN {[name |-> "post_import_disappearance", points |-> points(x)]}
                        ELSE {}
<1>5. PostImport(tp, p, time) = signal(u) /\ PostImport(tp, q, time) = signal(w)
  BY DEF PostImport, Signal, u, w
<1>6. (open(u) <=> open(w)) /\ points(u) = points(w)
  <2>1. DOMAIN u = {} <=> DOMAIN w = {}
    BY <1>4
  <2>2. open(u) <=> open(w)
    BY <2>1
  <2>3. points(u) = points(w)
    BY <1>4
  <2> QED  BY <2>2, <2>3
<1> HIDE DEF open, points
<1> QED  BY <1>5, <1>6

LEMMA MissingTraderSame ==
    ASSUME NEW m, NEW p, NEW q, Reordered(m, p, q), NEW l, NEW f, NEW g, Refiled(l, f, g),
           NEW tp, NEW time
    PROVE  MissingTrader(tp, p, f, time) = MissingTrader(tp, q, g, time)
<1>1. DOMAIN VatReturns(f) = {} <=> DOMAIN VatReturns(g) = {}
  <2>1. Renames(l, VatReturns(f), VatReturns(g))
    BY RenamedSelections DEF Refiled
  <2> QED  BY <2>1, RenamedRange
<1>2. /\ ClaimedUndeclared(tp, p) = ClaimedUndeclared(tp, q)
      /\ PostImport(tp, p, time) = PostImport(tp, q, time)
  BY ClaimedSame, PostImportSame
<1>3. MissingTraderSignals(tp, p, f, time) = MissingTraderSignals(tp, q, g, time)
  BY <1>1, <1>2 DEF MissingTraderSignals
<1> QED  BY <1>3 DEF MissingTrader

\* carousel_fraud.
LEMMA EdgesSame ==
    ASSUME NEW m, NEW p, NEW q, Renames(m, p, q)
    PROVE  Edges(p) = Edges(q)
BY RenamedRange DEF Edges

LEMMA CarouselSame ==
    ASSUME NEW m, NEW p, NEW q, Reordered(m, p, q), Alike(p)
    PROVE  Carousel(p) = Carousel(q)
<1>0. Renames(m, p, q) /\ Listed(p) /\ Listed(q)
  BY DEF Reordered, InvoiceRows
<1> DEFINE s == RestrictValues(p, LAMBDA i : i.heading \in HighRiskHeadings)
           t == RestrictValues(q, LAMBDA i : i.heading \in HighRiskHeadings)
<1>1. Count(s) = Count(t)
  <2> DEFINE V == {i \in Range(p) : i.heading \in HighRiskHeadings}
  <2>1. Picked(s, p, V) /\ Picked(t, q, V)
    BY <1>0, RenamedValues DEF Picked, RestrictValues, Restrict
  <2> HIDE DEF s, t, V
  <2> QED  BY <1>0, <2>1, PickedSame
<1>2. PriceDrops(p) = PriceDrops(q)
  BY <1>0, RenamedDrops DEF Reordered
<1>3. RapidResales(p) = RapidResales(q)
  <2> DEFINE W == {w \in Range(p) \X Range(p) :
                      /\ w[1].buyer # NONE /\ w[2].seller = w[1].buyer
                      /\ Apart(w[2].hour, w[1].hour) <= 24}
             P == {x \in (DOMAIN p) \X (DOMAIN p) :
                      /\ p[x[1]].buyer # NONE /\ p[x[2]].seller = p[x[1]].buyer
                      /\ Apart(p[x[2]].hour, p[x[1]].hour) <= 24}
             Q == {x \in (DOMAIN q) \X (DOMAIN q) :
                      /\ q[x[1]].buyer # NONE /\ q[x[2]].seller = q[x[1]].buyer
                      /\ Apart(q[x[2]].hour, q[x[1]].hour) <= 24}
  <2>1. /\ RapidResales(p) = SumFunction([x \in P |-> p[x[1]].n * p[x[2]].n])
        /\ RapidResales(q) = SumFunction([x \in Q |-> q[x[1]].n * q[x[2]].n])
    BY DEF RapidResales, Pairs
  <2>2. Matched(P, p, W) /\ Matched(Q, q, W)
    BY <1>0, RenamedValues DEF Matched
  <2> HIDE DEF P, Q, W
  <2>3. SumFunction([x \in P |-> p[x[1]].n * p[x[2]].n])
            = SumFunction([x \in Q |-> q[x[1]].n * q[x[2]].n])
    BY <1>0, <2>2, RenamedPairs
  <2> QED  BY <2>1, <2>3
<1>4. /\ DOMAIN Crossing(p) = {} <=> DOMAIN Crossing(q) = {}
      /\ CrossedCountries(p) = CrossedCountries(q)
  <2>1. Renames(m, Crossing(p), Crossing(q))
    BY <1>0, RenamedSelections
  <2> QED  BY <2>1, RenamedRange DEF CrossedCountries
<1>5. Edges(p) = Edges(q)
  BY <1>0, EdgesSame
<1>6. CarouselSignals(p) = CarouselSignals(q)
  <2> DEFINE A1(x) == CircularSignal(Chains(Edges(x)))
             A2(risky) == Signal("high_risk_commodities", risky > 0, Capped(2500, 300 * risky))
             A3(x) == Signal("price_drops_in_chain", PriceDrops(x) > 0,
                             Capped(2000, 800 * PriceDrops(x)))
             A4(x) == Signal("rapid_resales", RapidResales(x) > 0,
                             Capped(2000, 500 * RapidResales(x)))
             A5(x) == Signal("cross_border_carousel",
                             Chains(Edges(x)) # {} /\ DOMAIN Crossing(x) # {},
                             Capped(2000, 500 * Cardinality(CrossedCountries(x))))
  <2>1. /\ CarouselSignals(p) = A1(p) \cup A2(Count(s)) \cup A3(p) \cup A4(p) \cup A5(p)
        /\ CarouselSignals(q) = A1(q) \cup A2(Count(t)) \cup A3(q) \cup A4(q) \cup A5(q)
    BY DEF CarouselSignals
  <2>2. A1(p) = A1(q) /\ A2(Count(s)) = A2(Count(t))
    BY <1>1, <1>5
  <2>3. A3(p) = A3(q) /\ A4(p) = A4(q)
    BY <1>2, <1>3
  <2>4. A5(p) = A5(q)
    <3> DEFINE open(x) == Chains(Edges(x)) # {} /\ DOMAIN Crossing(x) # {}
               points(x) == Capped(2000, 500 * Cardinality(CrossedCountries(x)))
               signal(x) == IF open(x) THEN {[name |-> "cross_border_carousel",
                                              points |-> points(x)]}
                            ELSE {}
    <3>1. A5(p) = signal(p) /\ A5(q) = signal(q)
      BY DEF Signal
    <3>2. open(p) <=> open(q)
      <4>1. DOMAIN Crossing(p) = {} <=> DOMAIN Crossing(q) = {}
        BY <1>4
      <4> QED  BY <1>5, <4>1
    <3>3. points(p) = points(q)
      BY <1>4
    <3> HIDE DEF A5, open, points
    <3> QED  BY <3>1, <3>2, <3>3
  <2> HIDE DEF A1, A2, A3, A4, A5, s, t
  <2> QED  BY <2>1, <2>2, <2>3, <2>4
<1> QED  BY <1>6 DEF Carousel

\* invoice_mill and the Benford analysis.
LEMMA WithDigitSame ==
    ASSUME NEW m, NEW p, NEW q, Renames(m, p, q), Listed(p), NEW d
    PROVE  WithDigit(p, d) = WithDigit(q, d)
<1> DEFINE s == RestrictValues(p, LAMBDA i : i.net > 0 /\ LeadingDigit(i.net) = d)
           t == RestrictValues(q, LAMBDA i : i.net > 0 /\ LeadingDigit(i.net) = d)
           V == {i \in Range(p) : i.net > 0 /\ LeadingDigit(i.net) = d}
<1>1. Picked(s, p, V) /\ Picked(t, q, V)
  BY RenamedValues DEF Picked, RestrictValues, Restrict
<1>2. WithDigit(p, d) = Count(s) /\ WithDigit(q, d) = Count(t)
  BY DEF WithDigit
<1> HIDE DEF s, t, V
<1> QED  BY <1>1, <1>2, PickedSame

LEMMA BenfordDeviationSame ==
    ASSUME NEW m, NEW p, NEW q, Renames(m, p, q), Listed(p)
    PROVE  BenfordDeviation(p) = BenfordDeviation(q)
<1> DEFINE w(x) == [d \in 1..9 |-> WithDigit(x, d)]
           dev(digits) ==
               LET n == SumFunction(digits)
               IN IF n = 0 THEN 0
                  ELSE SumFunction([d \in 1..9 |-> Apart((10000 * digits[d]) \div n,
                                                         BenfordExpected[d])]) \div 9
<1>1. w(p) = w(q)
  BY WithDigitSame
<1>2. ASSUME NEW x  PROVE BenfordDeviation(x) = dev(w(x))
  <2> DEFINE n == SumFunction(w(x))
             f == [d \in 1..9 |-> Apart((10000 * WithDigit(x, d)) \div n, BenfordExpected[d])]
             g == [d \in 1..9 |-> Apart((10000 * w(x)[d]) \div n, BenfordExpected[d])]
  <2>1. BenfordDeviation(x) = IF n = 0 THEN 0 ELSE SumFunction(f) \div 9
    BY DEF BenfordDeviation
  <2>2. dev(w(x)) = IF n = 0 THEN 0 ELSE SumFunction(g) \div 9
    OBVIOUS
  <2>3. \A d \in 1..9 : w(x)[d] = WithDigit(x, d)
    OBVIOUS
  <2> HIDE DEF n, w, dev
  <2>4. f = g
    BY <2>3
  <2> HIDE DEF f, g
  <2> QED  BY <2>1, <2>2, <2>4
<1> HIDE DEF w, dev
<1> QED  BY <1>1, <1>2

LEMMA BenfordTestSame ==
    ASSUME NEW m, NEW p, NEW q, Renames(m, p, q), Listed(p)
    PROVE  BenfordTest(p) = BenfordTest(q)
<1> DEFINE s == RestrictValues(p, LAMBDA i : i.net > 0)
           t == RestrictValues(q, LAMBDA i : i.net > 0)
           V == {i \in Range(p) : i.net > 0}
<1>1. Picked(s, p, V) /\ Picked(t, q, V)
  BY RenamedValues DEF Picked, RestrictValues, Restrict
<1> HIDE DEF s, t, V
<1>2. Renames(m, s, t) /\ Count(s) = Count(t)
  BY <1>1, RenamedPick, PickedSame
<1>3. Listed(s)
  <2>1. Part(s, p)
    BY <1>1 DEF Picked, Part, Restrict
  <2> QED  BY <2>1, PartIsListed
<1>4. ASSUME NEW n  PROVE ChiSquared(s, n) = ChiSquared(t, n)
  <2> DEFINE f == [d \in 1..9 |-> (100 * ((10000 * WithDigit(s, d) * WithDigit(s, d)) \div n))
                                  \div BenfordExpected[d]]
             g == [d \in 1..9 |-> (100 * ((10000 * WithDigit(t, d) * WithDigit(t, d)) \div n))
                                  \div BenfordExpected[d]]
  <2>1. ChiSquared(s, n) = SumFunction(f) - 100 * n /\ ChiSquared(t, n) = SumFunction(g) - 100 * n
    BY DEF ChiSquared
  <2>2. \A d : WithDigit(s, d) = WithDigit(t, d)
    BY <1>2, <1>3, WithDigitSame
  <2>3. f = g
    BY <2>2
  <2> HIDE DEF f, g
  <2> QED  BY <2>1, <2>3
<1> DEFINE test(count, chi) ==
        IF count < 30 \/ chi <= 1551 THEN {}
        ELSE {[rule |-> "benford_analysis", confidence |-> 90,
               score |-> IF chi > 2009 THEN 8000 ELSE 7600,
               severity |-> IF chi > 2009 THEN "high" ELSE "medium"]}
<1>5. /\ BenfordTest(p) = test(Count(s), ChiSquared(s, Count(s)))
      /\ BenfordTest(q) = test(Count(t), ChiSquared(t, Count(t)))
  BY DEF BenfordTest, s, t
<1> HIDE DEF test
<1> QED  BY <1>2, <1>4, <1>5

LEMMA BusiestDaySame ==
    ASSUME NEW m, NEW p, NEW q, Renames(m, p, q), Listed(p)
    PROVE  BusiestDay(p) = BusiestDay(q)
<1> DEFINE On(x, day) == RestrictValues(x, LAMBDA i : i.hour \div 24 = day)
           days(x) == {i.hour \div 24 : i \in Range(x)}
           S(x) == {Count(On(x, day)) : day \in days(x)}
<1>1. ASSUME NEW day  PROVE Count(On(p, day)) = Count(On(q, day))
  <2> DEFINE s == On(p, day)
             t == On(q, day)
             V == {i \in Range(p) : i.hour \div 24 = day}
  <2>1. Picked(s, p, V) /\ Picked(t, q, V)
    BY RenamedValues DEF Picked, RestrictValues, Restrict
  <2> HIDE DEF s, t, V
  <2>2. Count(s) = Count(t)
    BY <2>1, PickedSame
  <2> QED  BY <2>2 DEF s, t
<1>2. days(p) = days(q)
  BY RenamedRange
<1>3. BusiestDay(p) = Max(S(p)) /\ BusiestDay(q) = Max(S(q))
  BY DEF BusiestDay
<1> HIDE DEF On, days
<1>4. S(p) = S(q)
  BY <1>1, <1>2
<1> HIDE DEF S
<1> QED  BY <1>3, <1>4

LEMMA InvoiceMillSame ==
    ASSUME NEW m, NEW p, NEW q, Reordered(m, p, q), NEW tp
    PROVE  InvoiceMill(tp, p) = InvoiceMill(tp, q)
<1> DEFINE mill(n, round, busiest, received, buyers, dev) ==
        IF n = 0 THEN {}
        ELSE Signal("high_volume", busiest >= 30, Capped(3000, 50 * busiest))
             \cup Signal("round_amounts", 10 * round >= 7 * n, Capped(2500, (3000 * round) \div n))
             \cup Signal("no_purchase_invoices", 20 * received < n, 2500)
             \cup Signal("concentrated_buyers", Cardinality(buyers) <= 3 /\ n > 20, 1500)
             \cup Signal("benford_anomaly", n >= 20 /\ dev > 1500, Capped(2000, (8 * dev) \div 10))
             \cup Signal("new_entity_high_volume", tp.newly, 1000)
           s == Issued(tp, p)
           t == Issued(tp, q)
           u == RestrictValues(s, LAMBDA i : IsRoundAmount(i.net))
           w == RestrictValues(t, LAMBDA i : IsRoundAmount(i.net))
           buyers(x) == {i.buyer : i \in Range(x)}
<1>1. /\ InvoiceMillSignals(tp, p) = mill(Count(s), Count(u), BusiestDay(s),
                                          Count(Received(tp, p)), buyers(s), BenfordDeviation(s))
      /\ InvoiceMillSignals(tp, q) = mill(Count(t), Count(w), BusiestDay(t),
                                          Count(Received(tp, q)), buyers(t), BenfordDeviation(t))
  BY DEF InvoiceMillSignals
<1> HIDE DEF mill
<1>2. Renames(m, s, t) /\ Listed(s) /\ Renames(m, Received(tp, p), Received(tp, q))
      /\ Listed(Received(tp, p))
  BY ReorderedSelections DEF Reordered, InvoiceRows
<1> HIDE DEF s, t
<1>3. Count(u) = Count(w)
  <2> DEFINE V == {i \in Range(s) : IsRoundAmount(i.net)}
  <2>1. Picked(u, s, V) /\ Picked(w, t, V)
    BY <1>2, RenamedValues DEF Picked, RestrictValues, Restrict
  <2> HIDE DEF u, w, V
  <2> QED  BY <1>2, <2>1, PickedSame
<1> HIDE DEF u, w
<1>4. /\ Count(s) = Count(t) /\ Count(Received(tp, p)) = Count(Received(tp, q))
      /\ BusiestDay(s) = BusiestDay(t) /\ BenfordDeviation(s) = BenfordDeviation(t)
  BY <1>2, RenamedCount, BusiestDaySame, BenfordDeviationSame
<1>5. buyers(s) = buyers(t)
  BY <1>2, RenamedRange
<1> HIDE DEF buyers
<1>6. InvoiceMillSignals(tp, p) = InvoiceMillSignals(tp, q)
  BY <1>1, <1>3, <1>4, <1>5
<1> QED  BY <1>6 DEF InvoiceMill

\* refund_fraud: the last claim is as large as any.
OneAmount(claims) == Cardinality({t.refund : t \in Range(claims)}) <= 1

LEMMA LatestIs ==
    ASSUME NEW claims, TransactionRows(claims), OneAmount(claims), DOMAIN claims # {},
           NEW k \in DOMAIN claims
    PROVE  claims[Max(DOMAIN claims)].refund = claims[k].refund
<1> DEFINE S == {t.refund : t \in Range(claims)}
           latest == Max(DOMAIN claims)
<1>1. S = {claims[j].refund : j \in DOMAIN claims}
  BY DEF Range
<1>2. [j \in DOMAIN claims |-> claims[j].refund] \in Surjection(DOMAIN claims, S)
  BY <1>1 DEF Surjection
<1>3. IsFiniteSet(DOMAIN claims) /\ DOMAIN claims \in SUBSET Int
  BY DEF TransactionRows, Listed
<1> HIDE DEF S
<1>4. IsFiniteSet(S)
  BY <1>2, <1>3, FS_Surjection
<1>5. latest \in DOMAIN claims
  BY <1>3, MaxOfFinite
<1> HIDE DEF latest
<1>6. claims[latest].refund \in S /\ claims[k].refund \in S
  BY <1>1, <1>5
<1>7. ASSUME NEW x \in S, NEW y \in S  PROVE x = y
  <2>1. Cardinality(S) <= 1
    BY DEF S, OneAmount
  <2>2. Cardinality(S \ {x}) = Cardinality(S) - 1 /\ Cardinality(S) \in Nat
        /\ IsFiniteSet(S \ {x}) /\ Cardinality(S \ {x}) \in Nat
    <3>1. IsFiniteSet(S \ {x})
      BY <1>4, FS_Subset
    <3> QED  BY <1>4, <3>1, FS_RemoveElement, FS_CardinalityType
  <2> DEFINE n == Cardinality(S)
             rest == Cardinality(S \ {x})
  <2>3. n \in Nat /\ rest \in Nat /\ n <= 1 /\ rest = n - 1
    BY <2>1, <2>2
  <2> HIDE DEF n, rest
  <2>4. rest = 0
    BY <2>3
  <2>5. S \ {x} = {}
    BY <2>2, <2>4, FS_EmptySet DEF rest
  <2> QED  BY <2>5
<1>8. claims[latest].refund = claims[k].refund
  BY <1>6, <1>7
<1> QED  BY <1>8 DEF latest

LEMMA RefundSpikeSame ==
    ASSUME NEW m, NEW f, NEW g, Refiled(m, f, g), OneAmount(f)
    PROVE  RefundSpike(f) = RefundSpike(g)
<1> DEFINE spike(count, total, latest) ==
        IF count < 2 THEN {}
        ELSE Signal("refund_spike", total - latest > 0
                                    /\ latest * (count - 1) > 3 * (total - latest),
                    Capped(3000, (500 * latest * (count - 1)) \div (total - latest)))
           latest(x) == x[Max(DOMAIN x)].refund
<1>0. Renames(m, f, g) /\ Listed(f) /\ Listed(g) /\ TransactionRows(f) /\ TransactionRows(g)
  BY DEF Refiled, TransactionRows
<1>1. Count(f) = Count(g) /\ Total(f, "refund") = Total(g, "refund")
  <2>1. \A k \in DOMAIN f : f[k]["refund"] \in Int
    BY <1>0 DEF TransactionRows
  <2> QED  BY <1>0, <2>1, RenamedCount, RenamedTotal
<1>2. /\ RefundSpike(f) = spike(Count(f), Total(f, "refund"), latest(f))
      /\ RefundSpike(g) = spike(Count(g), Total(g, "refund"), latest(g))
  BY DEF RefundSpike
<1>3. DOMAIN f # {} => latest(f) = latest(g)
  <2> SUFFICES ASSUME DOMAIN f # {}  PROVE latest(f) = latest(g)
    OBVIOUS
  <2>1. PICK k \in DOMAIN f : TRUE
    OBVIOUS
  <2>2. m[k] \in DOMAIN g /\ g[m[k]] = f[k] /\ DOMAIN g # {}
    BY <1>0 DEF Renames
  <2>3. OneAmount(g)
    BY <1>0, RenamedRange DEF OneAmount
  <2>4. latest(f) = f[k].refund
    BY <1>0, LatestIs
  <2>5. latest(g) = g[m[k]].refund
    BY <1>0, <2>2, <2>3, LatestIs
  <2> HIDE DEF latest
  <2> QED  BY <2>2, <2>4, <2>5
<1> HIDE DEF latest
<1>4. DOMAIN f = {} => Count(f) < 2
  BY <1>0, CountIs
<1>5. CASE DOMAIN f = {}
  <2>1. spike(Count(f), Total(f, "refund"), latest(f)) = {}
        /\ spike(Count(g), Total(g, "refund"), latest(g)) = {}
    BY <1>1, <1>4, <1>5
  <2> HIDE DEF spike
  <2> QED  BY <1>2, <2>1
<1>6. CASE DOMAIN f # {}
  <2> HIDE DEF spike
  <2> QED  BY <1>1, <1>2, <1>3, <1>6
<1> QED  BY <1>5, <1>6

LEMMA PhantomExportsSame ==
    ASSUME NEW m, NEW p, NEW q, Reordered(m, p, q)
    PROVE  PhantomExports(p) = PhantomExports(q)
<1> DEFINE phantom(exports, bare) ==
        Signal("phantom_exporter", 2 * bare > exports, Capped(3500, (4000 * bare) \div exports))
           s == Crossing(p)
           t == Crossing(q)
           u == RestrictValues(s, LAMBDA i : ~i.customs)
           w == RestrictValues(t, LAMBDA i : ~i.customs)
           V == {i \in Range(s) : ~i.customs}
<1>1. /\ PhantomExports(p) = phantom(Count(s), Count(u))
      /\ PhantomExports(q) = phantom(Count(t), Count(w))
  BY DEF PhantomExports
<1>2. Renames(m, s, t) /\ Listed(s)
  BY ReorderedSelections DEF Reordered, InvoiceRows
<1> HIDE DEF s, t, phantom
<1>3. Picked(u, s, V) /\ Picked(w, t, V)
  BY <1>2, RenamedValues DEF Picked, RestrictValues, Restrict
<1> HIDE DEF u, w, V
<1>4. Count(s) = Count(t) /\ Count(u) = Count(w)
  BY <1>2, <1>3, PickedSame, RenamedCount
<1> QED  BY <1>1, <1>4

LEMMA RefundFraudSame ==
    ASSUME NEW m, NEW p, NEW q, Reordered(m, p, q), NEW l, NEW f, NEW g, Refiled(l, f, g),
           OneAmount(Refunds(f)), NEW tp
    PROVE  RefundFraud(tp, p, f) = RefundFraud(tp, q, g)
<1> DEFINE fraud(refund, output, spike, phantom, flagged, amended) ==
               RefundRatio(refund, output)
               \cup spike
               \cup phantom
               \cup Signal("refund_from_flagged_suppliers", flagged > 0, Capped(3000, 500 * flagged))
               \cup Signal("frequent_amendments", amended >= 3, Capped(3500, 1000 * amended))
               \cup Signal("high_refund_to_turnover", tp.turnover > 0 /\ 4 * refund > tp.turnover,
                           Capped(2000, (4000 * refund) \div tp.turnover))
           s == Received(tp, p)
           t == Received(tp, q)
           flagged(x) == RestrictValues(x, LAMBDA i : i.suspicious)
           amended(x) == RestrictValues(x, LAMBDA y : y.kind = "amended_return" /\ y.refund > 0)
<1>1. /\ RefundFraudSignals(tp, p, f) =
             fraud(Total(Refunds(f), "refund"), Total(VatReturns(f), "output"),
                   RefundSpike(Refunds(f)), PhantomExports(Issued(tp, p)),
                   Count(flagged(s)), Count(amended(f)))
      /\ RefundFraudSignals(tp, q, g) =
             fraud(Total(Refunds(g), "refund"), Total(VatReturns(g), "output"),
                   RefundSpike(Refunds(g)), PhantomExports(Issued(tp, q)),
                   Count(flagged(t)), Count(amended(g)))
  BY DEF RefundFraudSignals
<1> HIDE DEF fraud
<1>2. Renames(m, s, t) /\ Listed(s)
  BY ReorderedSelections DEF Reordered, InvoiceRows
<1>3. Count(flagged(s)) = Count(flagged(t))
  <2> HIDE DEF s, t
  <2> DEFINE u == flagged(s)
             w == flagged(t)
             V == {i \in Range(s) : i.suspicious}
  <2>1. Picked(u, s, V) /\ Picked(w, t, V)
    BY <1>2, RenamedValues DEF Picked, RestrictValues, Restrict
  <2> HIDE DEF u, w, V
  <2>2. Count(u) = Count(w)
    BY <1>2, <2>1, PickedSame
  <2> QED  BY <2>2 DEF u, w
<1>4. Count(amended(f)) = Count(amended(g))
  <2> DEFINE u == amended(f)
             w == amended(g)
             V == {y \in Range(f) : y.kind = "amended_return" /\ y.refund > 0}
  <2>1. Picked(u, f, V) /\ Picked(w, g, V)
    BY RenamedValues DEF Refiled, Picked, RestrictValues, Restrict
  <2> HIDE DEF u, w, V
  <2>2. Count(u) = Count(w)
    BY <2>1, PickedSame DEF Refiled, TransactionRows
  <2> QED  BY <2>2 DEF u, w
<1>5. /\ Total(Refunds(f), "refund") = Total(Refunds(g), "refund")
      /\ Total(VatReturns(f), "output") = Total(VatReturns(g), "output")
  <2>1. /\ Refiled(l, VatReturns(f), VatReturns(g))
        /\ Refiled(l, Refunds(f), Refunds(g))
    BY RefiledSelections
  <2>2. /\ Renames(l, VatReturns(f), VatReturns(g)) /\ Renames(l, Refunds(f), Refunds(g))
        /\ Listed(VatReturns(f)) /\ Listed(Refunds(f))
        /\ \A k \in DOMAIN VatReturns(f) : VatReturns(f)[k]["output"] \in Int
        /\ \A k \in DOMAIN Refunds(f) : Refunds(f)[k]["refund"] \in Int
    BY <2>1 DEF Refiled, TransactionRows
  <2> QED  BY <2>2, RenamedTotal
<1>6. RefundSpike(Refunds(f)) = RefundSpike(Refunds(g))
  BY RefiledSelections, RefundSpikeSame
<1>7. PhantomExports(Issued(tp, p)) = PhantomExports(Issued(tp, q))
  BY ReorderedSelections, PhantomExportsSame
<1> HIDE DEF flagged, amended
<1>8. RefundFraudSignals(tp, p, f) = RefundFraudSignals(tp, q, g)
  BY <1>1, <1>3, <1>4, <1>5, <1>6, <1>7
<1> QED  BY <1>8 DEF RefundFraud

\* contra_trading.
LEMMA ContraTradingSame ==
    ASSUME NEW m, NEW p, NEW q, Reordered(m, p, q), NEW l, NEW f, NEW g, Refiled(l, f, g),
           NEW tp
    PROVE  ContraTrading(tp, p, f) = ContraTrading(tp, q, g)
<1> DEFINE contra(nearZero, chapters, mirrored, output, paid) ==
               Signal("persistent_near_zero_net_vat", nearZero >= 3, Capped(4000, 1000 * nearZero))
               \cup Signal("diverse_unrelated_sectors", Cardinality(chapters) >= 3,
                           Capped(2000, 500 * Cardinality(chapters)))
               \cup Signal("mirrored_chain_timing", mirrored > 0, Capped(2500, 800 * mirrored))
               \cup Signal("minimal_actual_payments", output > 50000 /\ 20 * paid < output, 2000)
           s == VatReturns(f)
           t == VatReturns(g)
           u == RestrictValues(s, NearZero)
           w == RestrictValues(t, NearZero)
           chapters(x) == {i.chapter : i \in Range(x)} \ {NONE}
<1>1. /\ ContraSignals(tp, p, f) = contra(Count(u), chapters(p), Mirrored(tp, p),
                                          Total(s, "output"), Total(s, "paid"))
      /\ ContraSignals(tp, q, g) = contra(Count(w), chapters(q), Mirrored(tp, q),
                                          Total(t, "output"), Total(t, "paid"))
  BY DEF ContraSignals
<1>0. Renames(m, p, q) /\ Listed(p) /\ Renames(l, f, g) /\ Listed(f)
  BY DEF Reordered, Refiled, InvoiceRows, TransactionRows
<1> HIDE DEF contra
<1>2. Refiled(l, s, t)
  BY RefiledSelections
<1> HIDE DEF s, t
<1>3. Renames(l, s, t) /\ Listed(s)
      /\ \A k \in DOMAIN s : s[k]["output"] \in Int /\ s[k]["paid"] \in Int
  BY <1>2 DEF Refiled, TransactionRows
<1>4. Count(u) = Count(w)
  <2> DEFINE V == {y \in Range(s) : NearZero(y)}
  <2>1. Picked(u, s, V) /\ Picked(w, t, V)
    BY <1>3, RenamedValues DEF Picked, RestrictValues, Restrict
  <2> HIDE DEF u, w, V
  <2> QED  BY <1>3, <2>1, PickedSame
<1> HIDE DEF u, w
<1>5. Total(s, "output") = Total(t, "output") /\ Total(s, "paid") = Total(t, "paid")
  BY <1>3, RenamedTotal
<1>6. chapters(p) = chapters(q)
  BY <1>0, RenamedRange
<1>7. Mirrored(tp, p) = Mirrored(tp, q)
  <2> DEFINE W == {w2 \in Range(p) \X Range(p) :
                      /\ w2[1].buyer = tp.tin /\ w2[2].seller = tp.tin
                      /\ Apart(w2[2].hour, w2[1].hour) <= 48
                      /\ NONE \notin {w2[1].chapter, w2[2].chapter}
                      /\ w2[1].chapter # w2[2].chapter}
             P(r) == {x \in (DOMAIN r) \X (DOMAIN r) :
                      /\ r[x[1]].buyer = tp.tin /\ r[x[2]].seller = tp.tin
                      /\ Apart(r[x[2]].hour, r[x[1]].hour) <= 48
                      /\ NONE \notin {r[x[1]].chapter, r[x[2]].chapter}
                      /\ r[x[1]].chapter # r[x[2]].chapter}
             pairs(r) == SumFunction([x \in P(r) |-> r[x[1]].n * r[x[2]].n])
  <2>1. Mirrored(tp, p) = Capped(10, pairs(p)) /\ Mirrored(tp, q) = Capped(10, pairs(q))
    BY DEF Mirrored, Pairs
  <2>2. Matched(P(p), p, W) /\ Matched(P(q), q, W)
    BY <1>0, RenamedValues DEF Matched
  <2> HIDE DEF P, W
  <2>3. pairs(p) = pairs(q)
    BY <1>0, <2>2, RenamedPairs
  <2> HIDE DEF pairs
  <2> QED  BY <2>1, <2>3
<1> HIDE DEF chapters
<1>8. ContraSignals(tp, p, f) = ContraSignals(tp, q, g)
  BY <1>1, <1>4, <1>5, <1>6, <1>7
<1>9. Count(f) = Count(g)
  BY <1>0, RenamedCount
<1> QED  BY <1>8, <1>9 DEF ContraTrading

\* The taxpayer's place in the network.
LEMMA WeightSame ==
    ASSUME NEW m, NEW p, NEW q, Reordered(m, p, q), NEW e
    PROVE  Weight(p, e) = Weight(q, e)
<1> DEFINE s == Between(p, e)
           t == Between(q, e)
           V == {i \in Range(p) : i.seller = e[1] /\ i.buyer = e[2]}
<1>0. Renames(m, p, q) /\ Listed(p) /\ \A k \in DOMAIN p : p[k]["vat"] \in Int
  BY DEF Reordered, InvoiceRows
<1>1. Picked(s, p, V) /\ Picked(t, q, V)
  BY <1>0, RenamedValues DEF Picked, Between, RestrictValues, Restrict
<1> HIDE DEF s, t, V
<1>2. Total(s, "vat") = Total(t, "vat")
  BY <1>0, <1>1, PickedSame
<1> QED  BY <1>2 DEF Weight, s, t

LEMMA LightestSame ==
    ASSUME NEW m, NEW p, NEW q, Reordered(m, p, q), NEW from, NEW to
    PROVE  Lightest(p, from, to) = Lightest(q, from, to)
<1> DEFINE length(rows, x) == SumFunction([i \in 1..(Len(x) - 1) |->
                                              Weight(rows, <<x[i], x[i + 1]>>)])
           all == Paths(Edges(p), from, to)
<1>1. ASSUME NEW x  PROVE length(p, x) = length(q, x)
  <2> DEFINE f == [i \in 1..(Len(x) - 1) |-> Weight(p, <<x[i], x[i + 1]>>)]
             g == [i \in 1..(Len(x) - 1) |-> Weight(q, <<x[i], x[i + 1]>>)]
  <2>1. f = g
    BY WeightSame
  <2>2. length(p, x) = SumFunction(f) /\ length(q, x) = SumFunction(g)
    OBVIOUS
  <2> HIDE DEF f, g, length
  <2> QED  BY <2>1, <2>2
<1>2. Edges(p) = Edges(q)
  BY EdgesSame DEF Reordered
<1>3. /\ Lightest(p, from, to) = {x \in all : \A y \in all : length(p, x) <= length(p, y)}
      /\ Lightest(q, from, to) = {x \in all : \A y \in all : length(q, x) <= length(q, y)}
  BY <1>2 DEF Lightest
<1> HIDE DEF length, all
<1> QED  BY <1>1, <1>3

LEMMA BetweennessSame ==
    ASSUME NEW m, NEW p, NEW q, Reordered(m, p, q), NEW v
    PROVE  Betweenness(p, v) = Betweenness(q, v)
<1> DEFINE N == NodesOf(Edges(p))
           others == {st \in (N \ {v}) \X (N \ {v}) : st[1] # st[2]}
           share(light) == IF light = {} THEN 0
                           ELSE (10000 * Cardinality({x \in light : v \in ToSet(x)}))
                                \div Cardinality(light)
           f == [st \in others |-> share(Lightest(p, st[1], st[2]))]
           g == [st \in others |-> share(Lightest(q, st[1], st[2]))]
           mean(total) == IF Cardinality(N) < 3 THEN 0 ELSE total \div Cardinality(others)
<1>1. Edges(p) = Edges(q)
  BY EdgesSame DEF Reordered
<1>2. Betweenness(p, v) = mean(SumFunction(f)) /\ Betweenness(q, v) = mean(SumFunction(g))
  BY <1>1 DEF Betweenness
<1> HIDE DEF share, others, N
<1>3. f = g
  BY LightestSame
<1> HIDE DEF f, g, mean
<1> QED  BY <1>2, <1>3

LEMMA NodeMetricsSame ==
    ASSUME NEW m, NEW p, NEW q, Reordered(m, p, q), NEW t
    PROVE  NodeMetrics(p, t) = NodeMetrics(q, t)
<1>1. Edges(p) = Edges(q)
  BY EdgesSame DEF Reordered
<1>2. Betweenness(p, t) = Betweenness(q, t)
  BY BetweennessSame
<1> QED  BY <1>1, <1>2 DEF NodeMetrics

\* The whole report.
LEMMA ReportSame ==
    ASSUME NEW m, NEW p, NEW q, Reordered(m, p, q), NEW l, NEW f, NEW g, Refiled(l, f, g),
           Alike(p), OneAmount(Refunds(f)), Chains(Edges(p)) = {}, NEW tp, NEW time
    PROVE  Report(tp, p, f, time) = Report(tp, q, g, time)
<1>1. Detections(tp, p, f, time) = Detections(tp, q, g, time)
  <2>1. /\ MissingTrader(tp, p, f, time) = MissingTrader(tp, q, g, time)
        /\ Carousel(p) = Carousel(q)
        /\ InvoiceMill(tp, p) = InvoiceMill(tp, q)
    BY MissingTraderSame, CarouselSame, InvoiceMillSame
  <2>2. /\ RefundFraud(tp, p, f) = RefundFraud(tp, q, g)
        /\ ContraTrading(tp, p, f) = ContraTrading(tp, q, g)
    BY RefundFraudSame, ContraTradingSame
  <2>3. BenfordTest(Issued(tp, p)) = BenfordTest(Issued(tp, q))
    <3>1. Renames(m, Issued(tp, p), Issued(tp, q)) /\ Listed(Issued(tp, p))
      BY ReorderedSelections DEF Reordered, InvoiceRows
    <3> QED  BY <3>1, BenfordTestSame
  <2>4. NetworkAnomaly(p) = {} /\ NetworkAnomaly(q) = {}
    <3>1. Edges(p) = Edges(q)
      BY EdgesSame DEF Reordered
    <3> QED  BY <3>1, NoNetworkAnomaly
  <2> QED  BY <2>1, <2>2, <2>3, <2>4 DEF Detections
<1> DEFINE found == Detections(tp, p, f, time)
           late(x) == RestrictValues(VatReturns(x), LAMBDA t : t.late)
           scores(returns, lateReturns, node) ==
               [rules |-> RuleScore(found),
                anomaly |-> AnomalyScore,
                compliance |-> ComplianceScore(tp.streak, tp.status, returns, lateReturns),
                network |-> NetworkScore(node.betweenness, node.inDegree),
                thirdparty |-> ThirdPartyScore({})]
<1>2. /\ ComponentScores(tp, p, f, found) = scores(Count(VatReturns(f)), Count(late(f)),
                                                   NodeMetrics(p, tp.tin))
      /\ ComponentScores(tp, q, g, found) = scores(Count(VatReturns(g)), Count(late(g)),
                                                   NodeMetrics(q, tp.tin))
  BY DEF ComponentScores
<1>3. Renames(l, VatReturns(f), VatReturns(g)) /\ Listed(VatReturns(f))
  BY RefiledSelections DEF Refiled, TransactionRows
<1>4. Count(VatReturns(f)) = Count(VatReturns(g))
  BY <1>3, RenamedCount
<1>5. Count(late(f)) = Count(late(g))
  <2> DEFINE u == late(f)
             w == late(g)
             V == {t \in Range(VatReturns(f)) : t.late}
  <2>1. Picked(u, VatReturns(f), V) /\ Picked(w, VatReturns(g), V)
    BY <1>3, RenamedValues DEF Picked, RestrictValues, Restrict
  <2> HIDE DEF u, w, V
  <2>2. Count(u) = Count(w)
    BY <1>3, <2>1, PickedSame
  <2> QED  BY <2>2 DEF u, w
<1>6. NodeMetrics(p, tp.tin) = NodeMetrics(q, tp.tin)
  BY NodeMetricsSame
<1> HIDE DEF found, late, scores
<1>7. ComponentScores(tp, p, f, found) = ComponentScores(tp, q, g, found)
  BY <1>2, <1>4, <1>5, <1>6
<1>8. /\ Report(tp, p, f, time) = Outcome(tp, p, f, found)
      /\ Report(tp, q, g, time) = Outcome(tp, q, g, found)
  BY <1>1 DEF Report, found
<1> QED  BY <1>7, <1>8 DEF Outcome

\* A list from its end.
LEMMA ReverseRenames ==
    ASSUME NEW I, NEW list \in Seq(I)
    PROVE  \E m : Renames(m, list, Reverse(list))
<1> DEFINE m == [k \in 1..Len(list) |-> Len(list) - k + 1]
           back == Reverse(list)
<1>1. DOMAIN list = 1..Len(list) /\ Len(list) \in Nat
  OBVIOUS
<1>2. DOMAIN back = 1..Len(list) /\ \A i \in 1..Len(list) : back[i] = list[(Len(list) - i) + 1]
  BY <1>1 DEF Reverse
<1>3. \A k \in 1..Len(list) : m[k] = Len(list) - k + 1 /\ m[k] \in 1..Len(list) /\ m[m[k]] = k
  BY <1>1
<1> HIDE DEF m, back
<1>4. \A j, k \in DOMAIN list : m[j] = m[k] => j = k
  BY <1>1, <1>3
<1>5. DOMAIN back = {m[k] : k \in DOMAIN list}
  <2>1. \A i \in DOMAIN back : i = m[m[i]] /\ m[i] \in DOMAIN list
    BY <1>1, <1>2, <1>3
  <2>2. \A k \in DOMAIN list : m[k] \in DOMAIN back
    BY <1>1, <1>2, <1>3
  <2> QED  BY <2>1, <2>2
<1>6. \A k \in DOMAIN list : back[m[k]] = list[k]
  <2> TAKE k \in DOMAIN list
  <2>1. back[m[k]] = list[(Len(list) - m[k]) + 1]
    BY <1>1, <1>2, <1>3
  <2>2. (Len(list) - m[k]) + 1 = k
    BY <1>1, <1>3
  <2> QED  BY <2>1, <2>2
<1>7. Renames(m, list, back)
  BY <1>4, <1>5, <1>6 DEF Renames
<1> QED  BY <1>7 DEF back

\* taxpayers.py:121-130, tasks.py:53-58: the queries have no ORDER BY, and
\* what the engine makes of the rows does not depend on the order that they
\* come in, but for rows of one instant and claims of different amounts.
THEOREM OrderIsIrrelevant == Spec => []RowOrderIrrelevant
<1>1. ASSUME Types  PROVE RowOrderIrrelevant
  <2> DEFINE own == OwnInvoices(taxpayer.tin, invoices)
             turned == OwnInvoices(taxpayer.tin, Reverse(invoices))
             back == Reverse(transactions)
  <2>1. SUFFICES ASSUME Count(own) <= InvoiceLimit, Count(transactions) <= TransactionLimit,
                        \A i, j \in DOMAIN own : own[i].hour = own[j].hour => own[i] = own[j],
                        Cardinality({t.refund : t \in Range(Refunds(transactions))}) <= 1,
                        NEW read \in FullReads(invoices, transactions),
                        NEW other \in FullReads(Reverse(invoices), back)
                 PROVE  Analysis(other) = Analysis(read)
    BY DEF RowOrderIrrelevant
  <2>0. read.invoices = own /\ read.transactions = transactions /\ read \in Reads
    BY <2>1 DEF FullReads, Fetch, Reads
  <2>2. Context(taxpayer, own, transactions, now)
    BY <1>1, <2>0, ReadContext
  <2>3. PICK m : Renames(m, invoices, Reverse(invoices))
    BY <1>1, ReverseRenames DEF Types
  <2>4. PICK l : Renames(l, transactions, Reverse(transactions))
    BY <1>1, ReverseRenames DEF Types
  <2>5. Renames(m, own, turned)
    <3> DEFINE V == OwnRows(taxpayer.tin, invoices)
    <3>1. OwnRows(taxpayer.tin, Reverse(invoices)) = V
      BY <2>3, RenamedRange DEF OwnRows
    <3> HIDE DEF V
    <3>2. Picked(own, invoices, V) /\ Picked(turned, Reverse(invoices), V)
      BY <3>1 DEF Picked, OwnInvoices, RestrictValues, Restrict, V
    <3> HIDE DEF own, turned
    <3> QED  BY <2>3, <3>2, RenamedPick
  <2>6. \A list : /\ DOMAIN Reverse(list) = 1..Len(list)
                  /\ DOMAIN Reverse(list) \subseteq Int
    BY DEF Reverse
  <2>7. /\ IsFiniteSet(DOMAIN Reverse(invoices)) /\ DOMAIN Reverse(invoices) \subseteq Nat
        /\ IsFiniteSet(DOMAIN Reverse(transactions)) /\ DOMAIN Reverse(transactions) \subseteq Nat
    <3>1. Len(invoices) \in Int /\ Len(transactions) \in Int /\ 1 \in Int
      BY <1>1 DEF Types
    <3> QED  BY <2>6, <3>1, FS_Interval
  <2>8. DOMAIN turned \subseteq DOMAIN Reverse(invoices)
    BY DEF OwnInvoices, RestrictValues, Restrict
  <2> HIDE DEF own, turned
  <2>9. Reordered(m, own, turned)
    <3>1. IsFiniteSet(DOMAIN turned) /\ DOMAIN turned \subseteq Nat
      BY <2>7, <2>8, FS_Subset
    <3>2. InvoiceRows(own) /\ Listed(own)
      BY <2>2 DEF Context, InvoiceRows
    <3> QED  BY <2>5, <3>1, <3>2, RenamedAlike DEF Reordered
  <2>10. Refiled(l, transactions, Reverse(transactions))
    <3>1. TransactionRows(transactions) /\ Listed(transactions)
      BY <2>2 DEF Context, TransactionRows
    <3> QED  BY <2>4, <2>7, <3>1, RenamedAlike DEF Refiled
  <2>11. Alike(own) /\ OneAmount(Refunds(transactions))
    BY <2>1 DEF Alike, OneAmount
  <2>12. Report(taxpayer, own, transactions, now)
             = Report(taxpayer, turned, Reverse(transactions), now)
    BY <2>2, <2>9, <2>10, <2>11, ReportSame DEF Context
  <2>13. other.invoices = turned /\ other.transactions = back
    <3>1. Count(turned) = Count(own) /\ Count(back) = Count(transactions)
      BY <2>2, <2>4, <2>5, RenamedCount DEF Context, InvoiceRows, TransactionRows
    <3>2. other.invoices \in Fetch(turned, InvoiceLimit) /\ other.transactions \in Fetch(back, TransactionLimit)
      BY <2>1 DEF FullReads, turned
    <3> QED  BY <2>1, <3>1, <3>2 DEF Fetch
  <2> QED  BY <2>0, <2>12, <2>13 DEF Analysis
<1> QED  BY <1>1, TypesAlways, PTL

-----------------------------------------------------------------------------
(* Rings.                                                                  *)

\* A walk over k nodes of N from s to t, along edges of F.
Walk(w, k, N, F, s, t) ==
    /\ w \in [1..k -> N] /\ w[1] = s /\ w[k] = t
    /\ \A i \in 1..(k - 1) : <<w[i], w[i + 1]>> \in F

Walked(k, N, F, s, t) == \E w : Walk(w, k, N, F, s, t)

\* What no set that F does not leave keeps from s is walked to.
LEMMA ReachedIsWalked ==
    ASSUME NEW N, NEW F, \A f \in F : f = <<f[1], f[2]>> /\ f[2] \in N,
           NEW s \in N, NEW t,
           \A S \in SUBSET N : s \in S /\ (\A f \in F : f[1] \in S => f[2] \in S) => t \in S
    PROVE  \E k \in Nat : k >= 1 /\ Walked(k, N, F, s, t)
<1> DEFINE S == {n \in N : \E k \in Nat : k >= 1 /\ Walked(k, N, F, s, n)}
<1>1. s \in S
  <2> DEFINE w == [i \in 1..1 |-> s]
  <2>1. Walk(w, 1, N, F, s, s)
    BY DEF Walk
  <2> QED  BY <2>1 DEF Walked
<1>2. ASSUME NEW f \in F, f[1] \in S  PROVE f[2] \in S
  <2>1. PICK k \in Nat : k >= 1 /\ Walked(k, N, F, s, f[1])
    BY <1>2
  <2>2. PICK w : Walk(w, k, N, F, s, f[1])
    BY <2>1 DEF Walked
  <2> DEFINE v == [i \in 1..(k + 1) |-> IF i <= k THEN w[i] ELSE f[2]]
  <2>3. v \in [1..(k + 1) -> N]
    BY <2>2 DEF Walk
  <2>4. v[1] = s /\ v[k + 1] = f[2]
    BY <2>1, <2>2 DEF Walk
  <2>5. ASSUME NEW i \in 1..((k + 1) - 1)  PROVE <<v[i], v[i + 1]>> \in F
    <3>1. CASE i <= k - 1
      <4>1. v[i] = w[i] /\ v[i + 1] = w[i + 1]
        BY <2>1, <3>1
      <4> QED  BY <2>2, <3>1, <4>1 DEF Walk
    <3>2. CASE i = k
      <4>1. v[i] = f[1] /\ v[i + 1] = f[2]
        BY <2>1, <2>2, <3>2 DEF Walk
      <4> QED  BY <4>1
    <3> QED  BY <3>1, <3>2
  <2>6. Walk(v, k + 1, N, F, s, f[2])
    <3> HIDE DEF v
    <3> QED  BY <2>3, <2>4, <2>5 DEF Walk
  <2>7. Walked(k + 1, N, F, s, f[2]) /\ k + 1 \in Nat /\ k + 1 >= 1
    BY <2>1, <2>6 DEF Walked
  <2> QED  BY <2>7
<1>3. S \in SUBSET N
  OBVIOUS
<1>4. t \in S
  <2> HIDE DEF S
  <2> QED  BY <1>1, <1>2, <1>3
<1> QED  BY <1>4

\* The shortest walk meets no node twice.
LEMMA ShortestIsSimple ==
    ASSUME NEW N, NEW F, NEW s, NEW t, NEW k \in Nat, k >= 1, NEW w, Walk(w, k, N, F, s, t),
           \A l \in Nat : l >= 1 /\ Walked(l, N, F, s, t) => k <= l,
           NEW i \in 1..k, NEW j \in 1..k, i < j, w[i] = w[j]
    PROVE  FALSE
<1> DEFINE cut == j - i
           v == [n \in 1..(k - cut) |-> IF n <= i THEN w[n] ELSE w[n + cut]]
<1>1. cut \in Nat /\ cut >= 1 /\ k - cut \in Nat /\ k - cut >= 1 /\ i <= k - cut
  OBVIOUS
<1>2. w \in [1..k -> N] /\ w[1] = s /\ w[k] = t
      /\ \A n \in 1..(k - 1) : <<w[n], w[n + 1]>> \in F
  BY DEF Walk
<1>3. v \in [1..(k - cut) -> N]
  <2> SUFFICES ASSUME NEW n \in 1..(k - cut)
               PROVE  (IF n <= i THEN w[n] ELSE w[n + cut]) \in N
    OBVIOUS
  <2>1. n \in 1..k /\ n + cut \in 1..k
    BY <1>1
  <2> QED  BY <1>2, <2>1
<1>4. v[1] = s /\ v[k - cut] = t
  <2>1. v[1] = w[1]
    BY <1>1
  <2>2. CASE k - cut <= i
    <3>1. k - cut = i /\ k = j
      BY <1>1, <2>2
    <3>2. v[k - cut] = w[i]
      BY <1>1, <3>1
    <3> QED  BY <1>2, <2>1, <3>1, <3>2
  <2>3. CASE ~(k - cut <= i)
    <3>1. v[k - cut] = w[(k - cut) + cut]
      BY <1>1, <2>3
    <3>2. (k - cut) + cut = k
      BY <1>1
    <3> QED  BY <1>2, <2>1, <3>1, <3>2
  <2> QED  BY <2>2, <2>3
<1>5. ASSUME NEW n \in 1..((k - cut) - 1)  PROVE <<v[n], v[n + 1]>> \in F
  <2>1. CASE n < i
    <3>1. v[n] = w[n] /\ v[n + 1] = w[n + 1] /\ n \in 1..(k - 1)
      BY <1>1, <2>1
    <3> QED  BY <1>2, <3>1
  <2>2. CASE n = i
    <3>1. v[n] = w[j] /\ v[n + 1] = w[(n + 1) + cut]
      BY <1>1, <2>2
    <3>2. (n + 1) + cut = j + 1 /\ j \in 1..(k - 1)
      BY <1>1, <2>2
    <3> QED  BY <1>2, <3>1, <3>2
  <2>3. CASE n > i
    <3>1. v[n] = w[n + cut] /\ v[n + 1] = w[(n + 1) + cut]
      BY <1>1, <2>3
    <3>2. (n + 1) + cut = (n + cut) + 1 /\ n + cut \in 1..(k - 1)
      BY <1>1
    <3> QED  BY <1>2, <3>1, <3>2
  <2> QED  BY <2>1, <2>2, <2>3
<1>6. Walk(v, k - cut, N, F, s, t)
  <2> HIDE DEF v, cut
  <2> QED  BY <1>3, <1>4, <1>5 DEF Walk
<1>7. Walked(k - cut, N, F, s, t)
  BY <1>6 DEF Walked
<1>8. k <= k - cut
  <2> HIDE DEF cut
  <2> QED  BY <1>1, <1>7
<1> HIDE DEF cut
<1> QED  BY <1>1, <1>8


\* The chains are what the simple cycles of three nodes or more pass.
Passed(p, n) == {<<p[i], p[After(n, i)]>> : i \in 1..n}

LEMMA ChainsAreCycles ==
    ASSUME NEW E
    PROVE  /\ \A n \in MinChain..Cardinality(NodesOf(E)) :
                \A p \in SimpleCycles(E, n) : Passed(p, n) \in Chains(E)
           /\ \A c \in Chains(E) : \E n \in MinChain..Cardinality(NodesOf(E)) :
                \E p \in SimpleCycles(E, n) : c = Passed(p, n)
<1> DEFINE ofLength(n) == {Passed(p, n) : p \in SimpleCycles(E, n)}
<1>1. Chains(E) = UNION {ofLength(n) : n \in MinChain..Cardinality(NodesOf(E))}
  BY DEF Chains, ChainsFrom, Passed
<1>2. ASSUME NEW n \in MinChain..Cardinality(NodesOf(E)), NEW p \in SimpleCycles(E, n)
      PROVE  Passed(p, n) \in Chains(E)
  <2>1. Passed(p, n) \in ofLength(n)
    OBVIOUS
  <2> HIDE DEF ofLength
  <2> QED  BY <1>1, <2>1
<1>3. ASSUME NEW c \in Chains(E)
      PROVE  \E n \in MinChain..Cardinality(NodesOf(E)) :
                \E p \in SimpleCycles(E, n) : c = Passed(p, n)
  <2>1. \E n \in MinChain..Cardinality(NodesOf(E)) : c \in ofLength(n)
    <3> HIDE DEF ofLength
    <3> QED  BY <1>1
  <2> QED  BY <2>1
<1> QED  BY <1>2, <1>3

\* A ring of two traders or more that is walked without the trade it closes
\* with passes a third one: it is a chain.
LEMMA RingHasChain ==
    ASSUME NEW R, IsFiniteSet(R), Ring(EdgesOf(R))
    PROVE  Chains(EdgesOf(R)) # {}
<1> DEFINE E == EdgesOf(R)
           N == NodesOf(E)
<1>1. PICK e \in E :
        /\ e[1] # e[2]
        /\ \A S \in SUBSET N :
              /\ e[2] \in S
              /\ \A f \in E \ {<<e[2], e[1]>>} : f[1] \in S => f[2] \in S
              => e[1] \in S
  BY DEF Ring
<1>2. \A f \in E : f = <<f[1], f[2]>> /\ f[1] \in N /\ f[2] \in N
  BY DEF EdgesOf, NodesOf
<1>3. IsFiniteSet(N)
  BY GraphIsFinite
<1> HIDE DEF E, N
<1> DEFINE F == E \ {<<e[2], e[1]>>}
           B == {k \in Nat : k >= 1 /\ Walked(k, N, F, e[2], e[1])}
<1>4. B # {}
  <2>1. e[2] \in N /\ \A f \in F : f = <<f[1], f[2]>> /\ f[2] \in N
    BY <1>2
  <2>2. \A S \in SUBSET N : e[2] \in S /\ (\A f \in F : f[1] \in S => f[2] \in S) => e[1] \in S
    BY <1>1
  <2> HIDE DEF F
  <2> QED  BY <2>1, <2>2, ReachedIsWalked
<1>5. PICK k \in B : \A l \in B : k <= l
  <2>1. B \in SUBSET Nat
    OBVIOUS
  <2> HIDE DEF B
  <2> QED  BY <1>4, <2>1, LeastElement
<1>6. k \in Nat /\ k >= 1 /\ \A l \in Nat : l >= 1 /\ Walked(l, N, F, e[2], e[1]) => k <= l
  <2> HIDE DEF F
  <2> QED  BY <1>5
<1>7. PICK w : Walk(w, k, N, F, e[2], e[1])
  <2> HIDE DEF F
  <2> QED  BY <1>5 DEF Walked
<1>8. /\ w \in [1..k -> N] /\ w[1] = e[2] /\ w[k] = e[1]
      /\ \A i \in 1..(k - 1) : <<w[i], w[i + 1]>> \in F
  BY <1>7 DEF Walk
<1>9. \A i, j \in 1..k : w[i] = w[j] => i = j
  <2> HIDE DEF F
  <2>1. ASSUME NEW i \in 1..k, NEW j \in 1..k, i < j  PROVE w[i] # w[j]
    BY <1>6, <1>7, <2>1, ShortestIsSimple
  <2> SUFFICES ASSUME NEW i \in 1..k, NEW j \in 1..k, w[i] = w[j], i # j PROVE FALSE
    OBVIOUS
  <2>2. CASE i < j
    BY <2>1, <2>2
  <2>3. CASE j < i
    BY <2>1, <2>3
  <2> QED  BY <1>6, <2>2, <2>3
<1>10. k >= 3
  <2>1. k # 1
    BY <1>1, <1>8
  <2>2. k # 2
    <3>1. SUFFICES ASSUME k = 2  PROVE FALSE
      OBVIOUS
    <3>2. <<w[1], w[2]>> \in F
      BY <1>8, <3>1
    <3> QED  BY <1>8, <3>1, <3>2
  <2> QED  BY <1>6, <2>1, <2>2
<1>11. \A i \in 1..k : <<w[i], w[After(k, i)]>> \in E
  <2> SUFFICES ASSUME NEW i \in 1..k  PROVE <<w[i], w[After(k, i)]>> \in E
    OBVIOUS
  <2>1. CASE i = k
    <3>1. After(k, i) = 1
      BY <1>6, <2>1 DEF After
    <3> QED  BY <1>2, <1>8, <2>1, <3>1
  <2>2. CASE i < k
    <3>1. After(k, i) = i + 1
      BY <1>6, <2>2 DEF After
    <3>2. <<w[i], w[i + 1]>> \in F
      BY <1>6, <1>8, <2>2
    <3> QED  BY <3>1, <3>2
  <2> QED  BY <1>6, <2>1, <2>2
<1>12. w \in SimpleCycles(E, k)
  BY <1>8, <1>9, <1>11 DEF SimpleCycles, N
<1>13. k \in MinChain..Cardinality(NodesOf(E))
  <2>1. w \in Injection(1..k, N)
    BY <1>8, <1>9 DEF Injection, IsInjective
  <2>2. IsFiniteSet(1..k) /\ Cardinality(1..k) = k
    <3>1. 1 \in Int /\ k \in Int
      BY <1>6
    <3> QED  BY <1>6, <3>1, FS_Interval
  <2>3. Cardinality(1..k) <= Cardinality(N)
    BY <1>3, <2>1, FS_Injection
  <2>4. Cardinality(N) \in Nat
    BY <1>3, FS_CardinalityType
  <2> QED  BY <1>6, <1>10, <2>2, <2>3, <2>4 DEF MinChain, N
<1>14. Chains(E) # {}
  BY <1>12, <1>13, ChainsAreCycles DEF E
<1> QED  BY <1>14 DEF E

\* The first trade of a chain of three or more closes a ring: the others
\* lead back from its buyer to its seller.
LEMMA ChainMakesRing ==
    ASSUME NEW E, NEW n \in Nat, n >= 3, NEW p \in SimpleCycles(E, n)
    PROVE  Ring(E)
<1>1. /\ p \in [1..n -> NodesOf(E)]
      /\ \A i, j \in 1..n : p[i] = p[j] => i = j
      /\ \A i \in 1..n : <<p[i], p[After(n, i)]>> \in E
  BY DEF SimpleCycles
<1>2. \A i \in 1..n : i < n => After(n, i) = i + 1
  BY DEF After
<1>3. After(n, n) = 1
  BY DEF After
<1> DEFINE e == <<p[1], p[2]>>
<1>4. e \in E /\ e[1] = p[1] /\ e[2] = p[2] /\ p[1] # p[2]
  BY <1>1, <1>2
<1>5. ASSUME NEW S \in SUBSET NodesOf(E), p[2] \in S,
             \A f \in E \ {<<p[2], p[1]>>} : f[1] \in S => f[2] \in S
      PROVE  p[1] \in S
  <2> DEFINE B == {m \in Nat : m + 2 <= n => p[m + 2] \in S}
  <2>1. 0 \in B
    BY <1>5
  <2>2. ASSUME NEW m \in B  PROVE m + 1 \in B
    <3>1. SUFFICES ASSUME (m + 1) + 2 <= n  PROVE p[(m + 1) + 2] \in S
      OBVIOUS
    <3> DEFINE i == m + 2
    <3>2. i \in 1..n /\ i >= 2 /\ i < n /\ p[i] \in S /\ (m + 1) + 2 = i + 1
      BY <3>1
    <3> HIDE DEF i
    <3>3. <<p[i], p[i + 1]>> \in E
      BY <1>1, <1>2, <3>2
    <3>4. i + 1 \in 1..n /\ 1 \in 1..n /\ i + 1 # 1
      BY <3>2
    <3>5. p[i + 1] # p[1]
      BY <1>1, <3>4
    <3>6. <<p[i], p[i + 1]>> \in E \ {<<p[2], p[1]>>}
      BY <3>3, <3>5
    <3>7. p[i + 1] \in S
      BY <1>5, <3>2, <3>6
    <3> QED  BY <3>2, <3>7
  <2>3. B = Nat
    <3>1. B \in SUBSET Nat
      OBVIOUS
    <3> HIDE DEF B
    <3> QED  BY <2>1, <2>2, <3>1, Inductive
  <2>4. p[n] \in S
    <3>1. n - 2 \in B
      <4>1. n - 2 \in Nat
        OBVIOUS
      <4> HIDE DEF B
      <4> QED  BY <2>3, <4>1
    <3>2. (n - 2) + 2 <= n /\ (n - 2) + 2 = n
      OBVIOUS
    <3> QED  BY <3>1, <3>2
  <2>5. <<p[n], p[1]>> \in E
    BY <1>1, <1>3
  <2>6. p[n] # p[2]
    BY <1>1
  <2> QED  BY <1>5, <2>4, <2>5, <2>6
<1> HIDE DEF e
<1> QED  BY <1>4, <1>5 DEF Ring

\* Finitely many trades make finitely many chains, each of three or more.
LEMMA ChainsAreFinite ==
    ASSUME NEW E, IsFiniteSet(E), IsFiniteSet(NodesOf(E))
    PROVE  /\ IsFiniteSet(Chains(E))
           /\ \A c \in Chains(E) : Cardinality(c) \in Nat /\ Cardinality(c) >= MinChain
<1> SUFFICES /\ \A c \in Chains(E) : c \in SUBSET E
             /\ \A c \in Chains(E) : Cardinality(c) \in Nat /\ Cardinality(c) >= MinChain
  <2>1. IsFiniteSet(SUBSET E)
    BY FS_SUBSET
  <2> QED  BY <2>1, FS_Subset
<1>1. SUFFICES ASSUME NEW c \in Chains(E)
               PROVE  c \in SUBSET E /\ Cardinality(c) \in Nat /\ Cardinality(c) >= MinChain
  OBVIOUS
<1>2. PICK n \in MinChain..Cardinality(NodesOf(E)) :
        \E p \in SimpleCycles(E, n) : c = Passed(p, n)
  BY ChainsAreCycles
<1>3. PICK p \in SimpleCycles(E, n) : c = Passed(p, n)
  BY <1>2
<1>4. n \in Nat /\ n >= MinChain
  BY FS_CardinalityType DEF MinChain
<1>5. /\ \A i, j \in 1..n : p[i] = p[j] => i = j
      /\ \A i \in 1..n : <<p[i], p[After(n, i)]>> \in E
  BY DEF SimpleCycles
<1>6. c \in SUBSET E
  BY <1>3, <1>5 DEF Passed
<1> DEFINE pass == [i \in 1..n |-> <<p[i], p[After(n, i)]>>]
<1>7. pass \in Injection(1..n, c)
  <2>1. pass \in [1..n -> c]
    BY <1>3 DEF Passed
  <2>2. ASSUME NEW i \in 1..n, NEW j \in 1..n, pass[i] = pass[j]  PROVE i = j
    BY <1>5, <2>2
  <2> HIDE DEF pass
  <2>3. DOMAIN pass = 1..n
    BY <2>1
  <2> QED  BY <2>1, <2>2, <2>3 DEF Injection, IsInjective
<1>8. IsFiniteSet(1..n) /\ Cardinality(1..n) = n
  <2>1. 1 \in Int /\ n \in Int
    BY <1>4
  <2> QED  BY <1>4, <2>1, FS_Interval
<1>9. IsFiniteSet(c) /\ Cardinality(c) \in Nat
  BY <1>6, FS_Subset, FS_CardinalityType
<1>10. n <= Cardinality(c)
  <2> HIDE DEF pass
  <2> QED  BY <1>7, <1>8, <1>9, FS_Injection
<1> QED  BY <1>4, <1>6, <1>9, <1>10 DEF MinChain

\* A chain is worth the threshold of the carousel rule.
LEMMA CircularSignalIs ==
    ASSUME NEW C, IsFiniteSet(C), C # {},
           \A c \in C : Cardinality(c) \in Nat /\ Cardinality(c) >= MinChain
    PROVE  Signals(CircularSignal(C)) /\ \E s \in CircularSignal(C) : s.points >= 3500
<1> DEFINE L == {Cardinality(c) : c \in C}
           m == Max(L)
           points == Capped(5000, 3500 * Cardinality(C) + 500 * (m - MinChain))
<1>1. IsFiniteSet(L)
  <2>1. [c \in C |-> Cardinality(c)] \in Surjection(C, L)
    BY DEF Surjection
  <2> HIDE DEF L
  <2> QED  BY <2>1, FS_Surjection
<1>2. L \in SUBSET Int /\ L # {}
  OBVIOUS
<1>3. m \in L
  <2> HIDE DEF L
  <2> QED  BY <1>1, <1>2, MaxOfFinite
<1>4. m \in Nat /\ m >= 3
  <2>1. \A l \in L : l \in Nat /\ l >= 3
    BY DEF MinChain
  <2> HIDE DEF L
  <2> QED  BY <1>3, <2>1
<1>5. Cardinality(C) \in Nat /\ Cardinality(C) # 0
  BY FS_CardinalityType, FS_EmptySet
<1>6. CircularSignal(C) = {[name |-> "circular_chains", points |-> points]}
  BY DEF CircularSignal, Signal
<1> HIDE DEF m
<1>7. points \in Nat /\ points >= 3500
  BY <1>4, <1>5 DEF Capped, MinChain
<1>8. Signals(CircularSignal(C))
  <2> DEFINE A == CircularSignal(C)
  <2>1. points \in Nat /\ (A = {} \/ A = {[name |-> "circular_chains", points |-> points]})
    BY <1>6, <1>7
  <2> HIDE DEF points, A
  <2>2. Signals(A)
    BY <2>1, RaisedIs
  <2> QED  BY <2>2 DEF A
<1>9. [name |-> "circular_chains", points |-> points] \in CircularSignal(C)
  BY <1>6
<1> HIDE DEF points
<1> QED  BY <1>7, <1>8, <1>9

LEMMA CrossingSignalIs ==
    ASSUME NEW rows, InvoiceRows(rows)
    PROVE  Signals(CrossingSignal(rows))
<1> DEFINE R == Range(Crossing(rows))
           T == UNION {{i.seller, i.buyer} \ {NONE} : i \in R}
           sellers == {i.seller : i \in R}
           buyers == {i.buyer : i \in R}
           countries == {Country[t] : t \in T}
           points == Capped(2000, 500 * Cardinality(countries))
<1>1. IsFiniteSet(R)
  <2>1. Part(Crossing(rows), rows)
    BY DEF Part, Crossing, RestrictValues, Restrict
  <2>2. IsFiniteSet(DOMAIN Crossing(rows))
    BY <2>1, PartIsListed DEF InvoiceRows, Listed
  <2> QED  BY <2>2, RangeIsFinite
<1> HIDE DEF R
<1>2. IsFiniteSet(sellers) /\ IsFiniteSet(buyers)
  <2>1. [i \in R |-> i.seller] \in Surjection(R, sellers)
    BY DEF Surjection
  <2>2. [i \in R |-> i.buyer] \in Surjection(R, buyers)
    BY DEF Surjection
  <2> HIDE DEF sellers, buyers
  <2> QED  BY <1>1, <2>1, <2>2, FS_Surjection
<1>3. T \subseteq sellers \cup buyers
  OBVIOUS
<1>4. IsFiniteSet(T)
  <2> HIDE DEF T, sellers, buyers
  <2> QED  BY <1>2, <1>3, FS_Union, FS_Subset
<1>5. CrossedCountries(rows) = countries
  BY DEF CrossedCountries, R
<1> HIDE DEF T
<1>6. IsFiniteSet(countries)
  <2>1. [t \in T |-> Country[t]] \in Surjection(T, countries)
    BY DEF Surjection
  <2> HIDE DEF countries
  <2> QED  BY <1>4, <2>1, FS_Surjection
<1> HIDE DEF countries
<1>7. Cardinality(countries) \in Nat
  BY <1>6, FS_CardinalityType
<1>8. points \in Nat
  BY <1>7 DEF Capped
<1>9. CrossingSignal(rows) = {} \/ CrossingSignal(rows) = {[name |-> "cross_border_carousel",
                                                            points |-> points]}
  BY <1>5 DEF CrossingSignal, Signal
<1> HIDE DEF points
<1> QED  BY <1>8, <1>9, RaisedIs

\* A chain among the rows raises the carousel alert, on its own.
LEMMA ChainRaisesCarousel ==
    ASSUME NEW rows, InvoiceRows(rows), Chains(Edges(rows)) # {}
    PROVE  Carousel(rows) # {}
<1> DEFINE C == Chains(Edges(rows))
           S == CarouselSignals(rows)
           D == Carousel(rows)
<1>1. IsFiniteSet(Range(rows))
  BY RangeIsFinite DEF InvoiceRows, Listed
<1>2. IsFiniteSet(Edges(rows)) /\ IsFiniteSet(NodesOf(Edges(rows)))
  BY <1>1, GraphIsFinite DEF Edges
<1>3. IsFiniteSet(C) /\ \A c \in C : Cardinality(c) \in Nat /\ Cardinality(c) >= MinChain
  BY <1>2, ChainsAreFinite
<1>4. C # {}
  OBVIOUS
<1>5. Signals(CircularSignal(C)) /\ \E s \in CircularSignal(C) : s.points >= 3500
  <2> HIDE DEF C
  <2> QED  BY <1>3, <1>4, CircularSignalIs
<1>6. S = CircularSignal(C) \cup ChainlessSignals(rows) \cup CrossingSignal(rows)
  BY CarouselSignalsSplit
<1>7. Tariff(3500, 25, 95)
  BY DEF Tariff, FullScore
<1>8. D = Detection("carousel_fraud", S, 3500, 25, 95)
  BY DEF Carousel
<1>9. Signals(ChainlessSignals(rows)) /\ Signals(CrossingSignal(rows))
  BY ChainlessSignalsAre, CrossingSignalIs
<1> HIDE DEF C, S, D
<1>10. Signals(S) /\ \E s \in S : s.points >= 3500
  <2>1. Signals(CircularSignal(C) \cup ChainlessSignals(rows))
    BY <1>5, <1>9, SignalsUnion
  <2>2. Signals(S)
    BY <1>6, <1>9, <2>1, SignalsUnion
  <2> QED  BY <1>5, <1>6, <2>2
<1>11. Alerting(D, "carousel_fraud", S, 3500)
  BY <1>7, <1>8, <1>10, DetectionIs
<1> QED  BY <1>10, <1>11 DEF Alerting, D

\* circular_detector.py:60-82, carousel.py:60-67, 117, 164-173: whatever
\* invoices there are, the chain detector reports a chain if and only if the
\* goods of a trade come back to its seller by another way than straight
\* from its buyer, and such a trade is worth an alert of the carousel rule,
\* without any other signal.
THEOREM RingsAreFound == Spec => []RingsFound
<1>1. Types => RingsFound
  <2> SUFFICES ASSUME Types  PROVE RingsFound
    OBVIOUS
  <2> DEFINE E == Edges(invoices)
  <2>1. InvoiceRows(invoices)
    BY StoredRows DEF InvoiceRows, Invoiced
  <2>2. IsFiniteSet(Range(invoices))
    BY <2>1, RangeIsFinite DEF InvoiceRows, Listed
  <2>3. Ring(E) => Chains(E) # {}
    BY <2>2, RingHasChain DEF Edges
  <2>4. ASSUME Chains(E) # {}  PROVE Ring(E)
    <3>1. PICK c : c \in Chains(E)
      BY <2>4
    <3>2. PICK n \in MinChain..Cardinality(NodesOf(E)) :
            \E p \in SimpleCycles(E, n) : c = Passed(p, n)
      BY <3>1, ChainsAreCycles
    <3>3. PICK p \in SimpleCycles(E, n) : c = Passed(p, n)
      BY <3>2
    <3>4. IsFiniteSet(NodesOf(E))
      BY <2>2, GraphIsFinite DEF Edges
    <3>5. n \in Nat /\ n >= 3
      BY <3>4, FS_CardinalityType DEF MinChain
    <3> QED  BY <3>5, ChainMakesRing
  <2>5. CircularChains(invoices) # {} <=> Chains(E) # {}
    BY DEF CircularChains
  <2>6. Chains(E) # {} => Carousel(invoices) # {}
    BY <2>1, ChainRaisesCarousel
  <2> QED  BY <2>3, <2>4, <2>5, <2>6 DEF RingsFound
<1> QED  BY <1>1, TypesAlways, PTL
=============================================================================
