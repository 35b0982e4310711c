----------------------------- MODULE OperationLife -----------------------------
(***************************************************************************)
(* The life of one operation as a superseding decision sees it: whether a  *)
(* row is in flight, the recorded outcome, the recovery item, and how far  *)
(* its request has come on the ledger's side.  ControlPlane is shown to    *)
(* implement it for the ledgers that suppress nothing (Supersession);      *)
(* Approvals composes one per resolution version.                          *)
(***************************************************************************)
CONSTANTS
    NULL,
    Outcomes    \* bound: the outcome codes that occur

TERMINAL  == {"confirmed", "rejected"}
AMBIGUOUS == {"unknown", "partially_applied"}
OutcomeCode == TERMINAL \cup AMBIGUOUS \cup {"throttled", "not_sent"}

ASSUME OutcomesAssumption == Outcomes \subseteq OutcomeCode

Life == [in_flight : BOOLEAN, outcome : OutcomeCode \cup {NULL},
         item : {"none", "open", "resolved"}, books : {"none", "wire", "moved"}]

Enqueued == [in_flight |-> FALSE, outcome |-> NULL, item |-> "none", books |-> "none"]

\* Mutants: the interlock without one of its conditions.
blocked_by_flight_only(l) == l.in_flight \/ l.item = "open"
blocked_by_outcome_only(l) ==
    l.item = "open" \/ (l.outcome \in AMBIGUOUS /\ l.item = "none")

\* approval.supersession_is_blocked and the approval_supersession_interlock trigger,
\* for one prior operation.
blocked(l) ==
    \/ l.in_flight
    \/ l.item = "open"
    \/ l.outcome \in AMBIGUOUS /\ l.item = "none"

\* What may be recorded is true of the books: a turned-away request is not on them.
Truthful(code, books) ==
    CASE code = "unknown" -> TRUE
      [] code \in {"confirmed", "partially_applied"} -> books = "moved"
      [] OTHER -> books = "none"

\* A row is written ahead of the send, only while nothing is undetermined or final.
WriteRow(l) ==
    IF l.in_flight \/ l.outcome \in TERMINAL \cup AMBIGUOUS THEN {}
    ELSE {[l EXCEPT !.in_flight = TRUE]}

\* Only an operation with a row in flight is sent; the request then moves the books
\* or goes away.
OnTheWire(l) ==
    (IF l.in_flight /\ l.books = "none" THEN {[l EXCEPT !.books = "wire"]} ELSE {})
    \cup (IF l.books = "wire" THEN {[l EXCEPT !.books = b] : b \in {"none", "moved"}} ELSE {})

\* The sender records what it learnt; a terminal outcome is never changed.
Record(l) ==
    {[l EXCEPT !.in_flight = FALSE, !.outcome = code] :
        code \in {x \in Outcomes :
                    /\ l.in_flight
                    /\ Truthful(x, l.books)
                    /\ l.outcome \in TERMINAL => x = l.outcome}}

\* Reconciliation settles what is undetermined and leaves the attempt row alone.
Conclude(l) ==
    {[l EXCEPT !.outcome = code] :
        code \in {x \in TERMINAL \cap Outcomes :
                    /\ l.in_flight \/ l.outcome \in AMBIGUOUS
                    /\ l.outcome \notin TERMINAL
                    /\ Truthful(x, l.books)}}

\* The recovery queue takes the question, and an operator's judgement settles the
\* outcome or leaves it; the attempt row is left alone again.
Recover(l) ==
    (IF l.item = "open" THEN {} ELSE {[l EXCEPT !.item = "open"]})
    \cup {[l EXCEPT !.item = "resolved", !.outcome = code] :
            code \in {x \in (TERMINAL \cap Outcomes) \cup {l.outcome} :
                        /\ l.item = "open"
                        /\ x # l.outcome =>
                            l.outcome \notin TERMINAL /\ Truthful(x, l.books)}}

Successors(l) ==
    WriteRow(l) \cup OnTheWire(l) \cup Record(l) \cup Conclude(l) \cup Recover(l)
===============================================================================
