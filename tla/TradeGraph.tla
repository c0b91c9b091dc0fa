----------------------------- MODULE TradeGraph -----------------------------
(***************************************************************************)
(* The directed graph of trade that the carousel rule, the circular chain  *)
(* detector and the network analyser each build from a list of invoices,   *)
(* and what they derive from it.  A node is a TIN, an edge <<s, b>> joins  *)
(* a seller to a buyer, its weight is the VAT invoiced between the two.    *)
(*                                                                         *)
(* Rows of a list that are selected keep their positions in it: they are a *)
(* function from those positions to the rows.                              *)
(*                                                                         *)
(* nx.simple_cycles and nx.betweenness_centrality are the library's, given *)
(* here by what they return.                                               *)
(***************************************************************************)
EXTENDS Integers, Sequences, FiniteSets, FiniteSetsExt, SequencesExt

CONSTANT NONE    \* the absent value of a nullable column

\* How many rows there are, and the sum of their column c; one row stands
\* for n of a kind.
Count(rows) == SumFunction([k \in DOMAIN rows |-> rows[k].n])
Total(rows, c) == SumFunction([k \in DOMAIN rows |-> rows[k].n * rows[k][c]])

\* The edges of the invoices that name both parties.
EdgesOf(rows) == {<<i.seller, i.buyer>> : i \in {r \in rows : r.buyer # NONE}}
Edges(invoices) == EdgesOf(Range(invoices))

NodesOf(E) == {e[1] : e \in E} \cup {e[2] : e \in E}

\* The invoices between the two ends of an edge.
Between(invoices, e) ==
    RestrictValues(invoices, LAMBDA i : i.seller = e[1] /\ i.buyer = e[2])

Weight(invoices, e) == Total(Between(invoices, e), "vat")

TotalVat(invoices) ==
    SumFunction([e \in Edges(invoices) |-> Weight(invoices, e)])

-----------------------------------------------------------------------------
(* Chains.                                                                 *)

MinChain == 3

\* Successive nodes of a walk of length n that comes back to its start.
After(n, i) == (i % n) + 1

\* Closed walks over n different nodes: nx.simple_cycles, each of them from
\* every node it passes.
SimpleCycles(E, n) ==
    {p \in [1..n -> NodesOf(E)] :
        /\ \A i, j \in 1..n : p[i] = p[j] => i = j
        /\ \A i \in 1..n : <<p[i], p[After(n, i)]>> \in E}

\* A chain is the set of its edges, whichever node it is read from.
ChainsFrom(E, least) ==
    UNION {{{<<p[i], p[After(n, i)]>> : i \in 1..n} : p \in SimpleCycles(E, n)} :
           n \in least..Cardinality(NodesOf(E))}

Chains(E) == ChainsFrom(E, MinChain)

InDegreeOf(E, t) == Cardinality({e \in E : e[2] = t})

\* CircularChainDetector._analyze_cycle and _score_cycle for one chain.
CrossBorderTypes == {"export", "import", "intra_community"}

CircularChain(invoices, chain) ==
    LET vat == SumFunction([e \in chain |-> Weight(invoices, e)])
        crossing == \E e \in chain : \E i \in Range(Between(invoices, e)) :
                        i.type \in CrossBorderTypes
        E == Edges(invoices)
    IN [chain |-> chain,
        crossBorder |-> crossing,
        \* max() over the nodes: any with the highest in-degree
        missingTraders |-> {t \in NodesOf(chain) :
                              \A u \in NodesOf(chain) : InDegreeOf(E, u) <= InDegreeOf(E, t)},
        score |-> Min({10000, 3000 + Min({3000, 500 * (Cardinality(chain) - MinChain)})
                              + Min({2500, vat \div 100})
                              + (IF crossing THEN 1500 ELSE 0)})]

\* detect: one report for each chain (the first 100 of them).
CircularChains(invoices) ==
    {CircularChain(invoices, chain) : chain \in Chains(Edges(invoices))}

-----------------------------------------------------------------------------
(* Betweenness and components.                                             *)

\* Simple paths of E from s to t.
Paths(E, s, t) ==
    {p \in UNION {[1..n -> NodesOf(E)] : n \in 2..Cardinality(NodesOf(E))} :
        /\ p[1] = s /\ p[Len(p)] = t
        /\ \A i, j \in DOMAIN p : p[i] = p[j] => i = j
        /\ \A i \in 1..(Len(p) - 1) : <<p[i], p[i + 1]>> \in E}

\* Those of least total weight: nx.betweenness_centrality is given the VAT
\* as a length, so that trade of little VAT is close.
Lightest(invoices, s, t) ==
    LET length(p) == SumFunction([i \in 1..(Len(p) - 1) |->
                                      Weight(invoices, <<p[i], p[i + 1]>>)])
        all == Paths(Edges(invoices), s, t)
    IN {p \in all : \A q \in all : length(p) <= length(q)}

\* The share of lightest paths through v over all pairs of other nodes, in
\* ten-thousandths, normalised by the number of those pairs.
Betweenness(invoices, v) ==
    LET N == NodesOf(Edges(invoices))
        others == {st \in (N \ {v}) \X (N \ {v}) : st[1] # st[2]}
        share(st) ==
            LET light == Lightest(invoices, st[1], st[2])
            IN IF light = {} THEN 0
               ELSE (10000 * Cardinality({p \in light : v \in ToSet(p)}))
                    \div Cardinality(light)
    IN IF Cardinality(N) < 3 THEN 0
       ELSE SumFunction([st \in others |-> share(st)]) \div Cardinality(others)

Reaches(E, s, t) == s = t \/ Paths(E, s, t) # {}

\* Strongly connected components.
Components(E) ==
    {{u \in NodesOf(E) : Reaches(E, t, u) /\ Reaches(E, u, t)} : t \in NodesOf(E)}

-----------------------------------------------------------------------------
(* NetworkAnalyzer.                                                        *)

\* suspicious_nodes: betweenness of at least 0.1.
SuspiciousNodes(invoices) ==
    {t \in NodesOf(Edges(invoices)) : Betweenness(invoices, t) >= 1000}

\* analyze: the risk of the network.
NetworkRisk(invoices) ==
    LET E == Edges(invoices)
        scc == Cardinality(Components(E))
        vat == TotalVat(invoices)
    IN Min({5000, 1500 * Cardinality(Chains(E))})
       + Min({2500, 800 * Cardinality(SuspiciousNodes(invoices))})
       + (IF scc > 1 THEN Min({1500, 300 * scc}) ELSE 0)
       + (IF vat > 5000 THEN Min({1000, vat \div 1000}) ELSE 0)

\* get_node_metrics: what the scorer uses of it, or nothing for a TIN that
\* trades with nobody.
NodeMetrics(invoices, t) ==
    IF t \in NodesOf(Edges(invoices))
    THEN [betweenness |-> Betweenness(invoices, t),
          inDegree |-> InDegreeOf(Edges(invoices), t)]
    ELSE [betweenness |-> 0, inDegree |-> 0]
=============================================================================
