------------------------- MODULE MCTaxpayerRegistry -------------------------
(* A taxpayer whose record changes, and one who may take its VAT number. *)
EXTENDS TaxpayerRegistry, TLC

CONSTANTS t1, t2

Profile(vat, name, turnover) == [vat_number |-> vat, name |-> name, turnover |-> turnover]

\* Each change of the record of t1 leaves other columns alone; its third one
\* has another VAT number, no turnover, and no name.
MCRecords ==
    t1 :> <<Profile("A", "a", "1"), Profile("A", "b", "1"), Profile("B", NONE, "0")>> @@
    t2 :> <<Profile("B", "c", "1")>>

MCPayloads == {Profile("A", "c", "1"), Profile("B", "c", "1"), [name |-> "p"]}
=============================================================================
