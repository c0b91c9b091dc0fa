-------------------------- MODULE MCInvoiceMatcher --------------------------
(* Small instances of InvoiceMatcher for TLC.                              *)
EXTENDS InvoiceMatcher, TLC

\* Zero, of which the relative discrepancy is taken as if it were one;
\* either side of the 1% of 10 000; a claim of value; either side of the VAT
\* from which an unclaimed invoice is rounded to 50; and amounts within the
\* 1% of each other at which the addition for the value is at its cap.
MCAmounts == {0, 1000, 10000, 10100, 10101, 99974, 99976, 200000, 202000}

InvoiceSymmetry == Permutations(Invoices)
=============================================================================
