--------------------------- MODULE MCFraudEngine ---------------------------
(* A taxpayer T that trades with A and B, from day 100 on. *)
EXTENDS FraudEngine

MCCountry == [t \in {"T", "A", "B"} |-> IF t = "B" THEN "FR" ELSE "DE"]

Day == 24
MCStart == 100 * Day
MCStep == 90 * Day

Sale == [seller |-> "T", buyer |-> "A", type |-> "standard", net |-> 5100, vat |-> 1000,
         hour |-> MCStart - 60, chapter |-> NONE, heading |-> NONE, customs |-> TRUE,
         sellerDecl |-> TRUE, buyerDecl |-> TRUE, suspicious |-> FALSE, n |-> 1]
Back == [Sale EXCEPT !.seller = "B", !.buyer = "T", !.type = "import", !.vat = 15000,
                     !.hour = MCStart - 100, !.chapter = 71, !.heading = 7113,
                     !.suspicious = TRUE, !.n = 2]

MCInvoiceLots ==
    {Sale, Back,
     \* closes a ring T -> A -> B -> T that has no other signal
     [Sale EXCEPT !.seller = "A", !.buyer = "B", !.hour = MCStart - 5],
     [Sale EXCEPT !.seller = "B", !.buyer = "A", !.type = "intra_community", !.net = 4000],
     [Sale EXCEPT !.seller = "A", !.buyer = "T", !.chapter = 22, !.heading = 2203],
     \* a mill: a day's 30 exports, undeclared and without customs papers
     [Sale EXCEPT !.buyer = "B", !.type = "export", !.net = 900, !.vat = 500,
                  !.hour = MCStart - 90, !.chapter = 85, !.heading = 8517, !.customs = FALSE,
                  !.sellerDecl = FALSE, !.n = 30],
     [Sale EXCEPT !.buyer = NONE, !.hour = MCStart]}

Return == [kind |-> "vat_return", output |-> 20000, input |-> 30000, refund |-> 0,
           paid |-> 0, late |-> FALSE, n |-> 1]
Claim == [Return EXCEPT !.kind = "refund_claim", !.output = 0, !.input = 0, !.refund = 2000]

MCTransactionLots ==
    {[Return EXCEPT !.late = TRUE],
     [Return EXCEPT !.input = 30100, !.output = 30000, !.n = 3],
     Claim,
     [Claim EXCEPT !.refund = 17000],
     [Claim EXCEPT !.kind = "amended_return", !.refund = 3000, !.n = 3]}

Honest == [tin |-> "T", status |-> "active", registered |-> 0, lastFiling |-> 80 * Day,
           streak |-> 0, newly |-> FALSE, turnover |-> 1000000]
MCProfiles ==
    {Honest,
     [Honest EXCEPT !.status = "suspended", !.registered = 40 * Day, !.lastFiling = NONE,
                    !.streak = 3, !.newly = TRUE, !.turnover = 2000000],
     [Honest EXCEPT !.registered = NONE, !.lastFiling = 5 * Day, !.turnover = 0]}
=============================================================================
