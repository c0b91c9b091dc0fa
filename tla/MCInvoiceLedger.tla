--------------------------- MODULE MCInvoiceLedger ---------------------------
(* Two invoices, the first of a seller and a buyer that are registered. *)
EXTENDS InvoiceLedger

CONSTANTS i1, i2

Paper(seller, buyer, key, vat) == [seller |-> seller, buyer |-> buyer, key |-> key, vat |-> vat]

\* The second one: to another buyer; the same submitted twice; of a seller
\* that is not registered.
Second == {Paper("S", "B2", "k2", 1000), Paper("S", "B1", "k1", 1000),
           Paper("X", "B1", "k2", 1000)}
MCContents == {[i \in Invoices |-> IF i = i1 THEN Paper("S", "B1", "k1", 1000) ELSE second] :
                   second \in Second}

MCEdits == {[declared_by_buyer |-> TRUE], [declared_by_seller |-> TRUE], [status |-> "received"]}
=============================================================================
