------------------------------- MODULE MCPipeline -------------------------------
EXTENDS Pipeline, TLC

CONSTANTS s1, s2, p1, p2, p3, p4, p5, p6, e1, e2, a1, a2, a3

text(v) == [value |-> v, fits |-> TRUE, chars |-> "plain"]
row(merchant, type, amount, date) ==
    [width |-> 10, psp_reference |-> text("psp"), merchant_reference |-> merchant,
     transaction_type |-> text(type), amount |-> [plain |-> TRUE, value |-> amount],
     currency |-> "EUR", value_date |-> date, presentment_amount |-> NULL,
     presentment_currency |-> NULL, fx_rate |-> NULL]
file(rows) == [form |-> "settlement", rows |-> rows]
A == text("A")
B == text("B")
Payloads ==
    (p1 :> file(<<row(A, "chargeback", -700, 3), row(B, "capture", 500, 3)>>)) @@
    (p2 :> file(<<row(B, "capture", 500, 4), row(A, "chargeback", -710, 3),
                  row(B, "fee", -10, 5)>>)) @@
    (p3 :> file(<<row(A, "chargeback_reversal", 700, 5), row(B, "refund", -500, 12)>>)) @@
    (p4 :> file(<<row(A, "capture", 20, 5),
                  row([A EXCEPT !.chars = "nul"], "fee", -10, 5)>>)) @@
    (p5 :> [form |-> "header_mismatch", rows |-> <<row(A, "capture", 20, 5)>>]) @@
    (p6 :> file(<<[row(A, "capture", 25, NULL) EXCEPT !.psp_reference = NULL],
                  [width |-> 0],
                  [row([A EXCEPT !.fits = FALSE], "fee", 20000, 5) EXCEPT
                     !.currency = "eur", !.fx_rate = [plain |-> TRUE, value |-> 0]]>>))
LineIds == (p1 :> <<1, 2>>) @@ (p2 :> <<3, 4, 5>>) @@ (p3 :> <<6, 7>>) @@ (p4 :> <<8, 9>>) @@
           (p5 :> <<10>>) @@ (p6 :> <<11, NULL, 12>>)
EntryFacts ==
    (e1 :> [amount |-> -700, currency |-> "EUR", booked_on |-> 3, external_ref |-> 1]) @@
    (e2 :> [amount |-> 500, currency |-> "EUR", booked_on |-> 3, external_ref |-> 2])
Bands == "EUR" :> 10

\* Version 1 maps what the demonstration maps; version 2 moves the chargebacks
\* to another account and closes the first period.
Mapped(chargebacks) ==
    [k \in Class \X Treatment |->
       CASE k[2] \in {"rebook", "accrue"} /\ k[1] = "chargeback_reversal" -> chargebacks
         [] k[2] \in {"rebook", "accrue"} /\ k[1] = "cross_period_refund" -> a2
         [] OTHER -> NULL]
Contexts ==
    <<[functional_currency |-> "EUR", earliest_open_period |-> 0, accounts |-> Mapped(a1)],
      [functional_currency |-> "EUR", earliest_open_period |-> 1, accounts |-> Mapped(a3)]>>

answer(kind, treatment, abstained, cites, repeats) ==
    [kind |-> kind, treatment |-> treatment, abstained |-> abstained, cites |-> cites,
     repeats |-> repeats]
SomeAnswers ==
    {answer("unavailable", "escalate", FALSE, {}, FALSE),
     answer("answer", "rebook", FALSE, {"remittance", e2}, FALSE),
     answer("answer", "rebook", FALSE, {"remittance"}, TRUE),
     answer("answer", "escalate", TRUE, {}, FALSE),
     answer("answer", "accrue", TRUE, {"remittance"}, FALSE)}

\* Every roster with its sessions exchanged is there too.
Intake == {"ingest", "match", "classify"}
staffed(s, duties, others, deliveries, scopes) ==
    [duty |-> [t \in Sessions |-> IF t = s THEN duties ELSE others],
     deliveries |-> deliveries, scopes |-> scopes]
IntakeRosters == {staffed(s1, Intake, Intake, {p1, p2, p3}, {p1, NULL})}
DeliveryRosters == {staffed(s1, {"ingest"}, {"ingest"}, {p1, p4, p5, p6}, {})}
ProposalRosters == {staffed(s, Intake \cup {"claim", "propose"}, {"claim", "propose"},
                            {p1}, {NULL}) : s \in Sessions}
PricingRosters == {staffed(s, Intake \cup {"price"}, {"price"}, {p1, p3}, {NULL}) :
                     s \in Sessions}
AllRosters == IntakeRosters \cup DeliveryRosters \cup ProposalRosters \cup PricingRosters
Symmetry == Permutations(Sessions)
===============================================================================
