--------------------------- MODULE InvoiceMatcher ---------------------------
(***************************************************************************)
(* InvoiceMatcher.match_period: the invoices a seller declared against     *)
(* those a buyer claimed, as operators over two lists of invoice objects.  *)
(*                                                                         *)
(* An invoice is an object with an identity, for the algorithm writes the  *)
(* attribute _duplicate on it and reads it back when it compares.  The     *)
(* system below declares invoices one by one, each an object of one list,  *)
(* and after each the lists are matched anew.                              *)
(***************************************************************************)
EXTENDS Integers, Sequences, FiniteSets, SequencesExt, FiniteSetsExt

CONSTANTS
    Invoices,   \* invoice objects
    Keys,       \* <<seller_vat_number, invoice_number>>
    Amounts     \* VAT amounts, in whole units of the currency

ASSUME AmountAssumption == Amounts \subseteq Nat

VARIABLES
    invoice,    \* the key and the VAT amount of each object, a record
    sellers,    \* seller_invoices, a sequence of objects
    buyers      \* buyer_invoices

vars == <<invoice, sellers, buyers>>

-----------------------------------------------------------------------------
(* The indexes.  A dict is the sequence of its values in insertion order:  *)
(* the first invoice of each key.                                          *)

Key(i) == invoice[i].key
HasKey(index, k) == \E n \in DOMAIN index : Key(index[n]) = k
At(index, k) == index[CHOOSE n \in DOMAIN index : Key(index[n]) = k]

\* A second invoice of the seller marks the first one, which is the one in
\* the index.
\* (Mutant: it marks itself.)
IndexSellerItself(acc, i) ==
    IF HasKey(acc.index, Key(i))
    THEN [acc EXCEPT !.dup[i] = TRUE]
    ELSE [index |-> Append(acc.index, i), dup |-> [acc.dup EXCEPT ![i] = FALSE]]
IndexSeller(acc, i) ==
    IF HasKey(acc.index, Key(i))
    THEN [acc EXCEPT !.dup[At(acc.index, Key(i))] = TRUE]
    ELSE [index |-> Append(acc.index, i), dup |-> [acc.dup EXCEPT ![i] = FALSE]]

\* A second invoice of the buyer marks itself, and is not in the index.
IndexBuyer(acc, i) ==
    IF HasKey(acc.index, Key(i))
    THEN [acc EXCEPT !.dup[i] = TRUE]
    ELSE [index |-> Append(acc.index, i), dup |-> [acc.dup EXCEPT ![i] = FALSE]]

SellerPass(s) ==
    FoldLeft(IndexSeller, [index |-> <<>>, dup |-> [i \in Invoices |-> FALSE]], s)

\* The buyer's pass starts with the marks of the seller's.
BuyerPass(s, b) == FoldLeft(IndexBuyer, [SellerPass(s) EXCEPT !.index = <<>>], b)

-----------------------------------------------------------------------------
(* The comparison of a seller's invoice with a buyer's.                    *)

Apart(x, y) == IF x >= y THEN x - y ELSE y - x
AtLeastOne(x) == Max({x, 1})

\* More than AMOUNT_TOLERANCE (1%) of what the seller declared.
Differs(s, b) == 100 * Apart(s, b) > AtLeastOne(s)

\* A mismatch is reported before a duplicate.
StatusOfPair(s, b, dup) ==
    IF Differs(invoice[s].vat, invoice[b].vat) THEN "amount_mismatch"
    ELSE IF dup[s] \/ dup[b] THEN "duplicate" ELSE "matched"

Base == [matched |-> 0, seller_only |-> 20, buyer_only |-> 70,
         amount_mismatch |-> 50, duplicate |-> 60]

\* _compute_risk, rounded to hundredths as MatchResult has it: the base of
\* the status, up to 20 for the value and up to 10 for the discrepancy,
\* share/whole of which is the relative one.  The two additions are summed in
\* fiftieths of a hundredth before the one rounding; a tie, which the code's
\* floats send either way, goes up.
ValueAddon(vat) == Min({100000, vat})
GapAddon(share, whole) ==
    IF 2 * share >= whole THEN 50000 ELSE (100000 * share) \div whole

\* (Mutant: the addition for the value is not capped.)
UncappedRisk(status, vat, share, whole) ==
    IF status = "matched" THEN 0
    ELSE Min({10000, 100 * Base[status] + (vat + GapAddon(share, whole) + 25) \div 50})
Risk(status, vat, share, whole) ==
    IF status = "matched" THEN 0
    ELSE Min({10000, 100 * Base[status]
                       + (ValueAddon(vat) + GapAddon(share, whole) + 25) \div 50})

ComparePair(s, b, dup) ==
    LET sv == invoice[s].vat  bv == invoice[b].vat  status == StatusOfPair(s, b, dup) IN
    [key |-> Key(s), status |-> status,
     risk |-> Risk(status, Max({sv, bv}), Apart(sv, bv), AtLeastOne(sv))]

CompareAlone(i, status) ==
    [key |-> Key(i), status |-> status, risk |-> Risk(status, invoice[i].vat, 1, 1)]

\* match_period: a result for every key of the seller's index, then for the
\* keys that only the buyer's has.
\* (Mutant: the keys of the seller are not remembered.)
UnprocessedAll(index, s) == index
Unprocessed(index, s) ==
    FoldLeft(LAMBDA acc, i : IF HasKey(s, Key(i)) THEN acc ELSE Append(acc, i), <<>>, index)

MatchPeriod(s, b) ==
    LET sIndex == SellerPass(s).index
        pass   == BuyerPass(s, b)
        Pair(i)    == IF HasKey(pass.index, Key(i))
                      THEN ComparePair(i, At(pass.index, Key(i)), pass.dup)
                      ELSE CompareAlone(i, "seller_only")
        Phantom(i) == CompareAlone(i, "buyer_only")
        phantoms   == Unprocessed(pass.index, sIndex)
    IN  [n \in DOMAIN sIndex |-> Pair(sIndex[n])]
        \o [n \in DOMAIN phantoms |-> Phantom(phantoms[n])]

-----------------------------------------------------------------------------
(* The declarations.                                                       *)

Declared == Range(sellers) \cup Range(buyers)

Init ==
    /\ invoice \in [Invoices -> [key : Keys, vat : Amounts]]
    /\ sellers = <<>> /\ buyers = <<>>

DeclareBySeller(i) ==
    /\ i \notin Declared
    /\ sellers' = Append(sellers, i)
    /\ UNCHANGED <<invoice, buyers>>

ClaimByBuyer(i) ==
    /\ i \notin Declared
    /\ buyers' = Append(buyers, i)
    /\ UNCHANGED <<invoice, sellers>>

Next == \E i \in Invoices : DeclareBySeller(i) \/ ClaimByBuyer(i)

Spec == Init /\ [][Next]_vars

-----------------------------------------------------------------------------
(* Properties.                                                             *)

Results == MatchPeriod(sellers, buyers)

\* The first invoice of a key in a list, by its position.
First(list, k) ==
    list[Min({n \in DOMAIN list : Key(list[n]) = k})]
Of(list, k) == {i \in Range(list) : Key(i) = k}

\* What the matching means, said of each key on its own: who declared it,
\* what the two first declarations amount to, and whether the seller
\* declared it twice.
Meaning(k) ==
    CASE Of(buyers, k) = {} -> "seller_only"
      [] Of(sellers, k) = {} -> "buyer_only"
      [] Of(sellers, k) # {} /\ Of(buyers, k) # {} ->
           LET s == invoice[First(sellers, k)].vat
               b == invoice[First(buyers, k)].vat
           IN  IF 100 * Apart(s, b) > s /\ s # b THEN "amount_mismatch"
               ELSE IF Cardinality(Of(sellers, k)) > 1 THEN "duplicate" ELSE "matched"

\* The result of each key is its meaning, though the marks are spread over
\* the objects by two passes.
ResultsMean ==
    \A n \in DOMAIN Results : Results[n].status = Meaning(Results[n].key)

\* No key declared by either party is missing from the results, nor reported
\* twice.
OneResultPerKey ==
    /\ {Results[n].key : n \in DOMAIN Results} = {Key(i) : i \in Declared}
    /\ Len(Results) = Cardinality({Key(i) : i \in Declared})

\* invoice_matcher.py:192 "Most suspicious - phantom input VAT": no other
\* result outranks a claim of some value (1 000) that the seller never
\* declared, whatever the amounts.  And only such a claim, a mismatch or a
\* duplicate reaches 50, the score at which batch_invoice_match calls an
\* invoice suspicious, or a seller's own invoice of at least 99 975, from
\* which on the risk is rounded to 50.
ClaimOfValue(n) ==
    /\ Results[n].status = "buyer_only"
    /\ invoice[First(buyers, Results[n].key)].vat >= 1000
LargeUnclaimed(n) ==
    /\ Results[n].status = "seller_only"
    /\ invoice[First(sellers, Results[n].key)].vat >= 99975
PhantomMostSuspicious ==
    \A n, m \in DOMAIN Results :
        /\ (ClaimOfValue(n) /\ Results[m].status # "buyer_only") =>
             Results[m].risk <= Results[n].risk
        /\ Results[n].risk >= 5000 =>
             \/ Results[n].status \in {"buyer_only", "amount_mismatch", "duplicate"}
             \/ LargeUnclaimed(n)

\* invoice_matcher.py:8 "Duplicate invoice submissions": a key that a party
\* submitted twice is reported as such, if the amounts agree.
DuplicatesReported ==
    \A n \in DOMAIN Results :
        LET k == Results[n].key IN
        (Cardinality(Of(sellers, k)) > 1 \/ Cardinality(Of(buyers, k)) > 1) =>
            Results[n].status # "matched"
=============================================================================
