------------------------------- MODULE Reconcile -------------------------------
(***************************************************************************)
(* operations/reconcile.py: one bounded pass over an undetermined          *)
(* operation.  The state is read in one transaction, the ledger is asked   *)
(* or the request re-sent outside any, and the conclusion is written in    *)
(* another: what was read may be stale by then.                            *)
(***************************************************************************)
EXTENDS Retry

\* Mutant: only a recorded outcome is reconciled, not a row left in flight.
recorded_only == outbox.last_outcome \in AMBIGUOUS /\ ~open_recovery

\* There is something to resolve and no operator holds it.
needs_reconciling == is_ambiguous /\ ~open_recovery

\* How a pass by an adapter of endpoint ep goes on: the ledger is asked, the request
\* re-sent, or the operation routed to an operator with the reason.
branch(ep) ==
    LET begin == [Start("reconcile", "recover", ep) EXCEPT
                    !.queries_made = Len(queries), !.last_sent_at = last_sent_at]
        bound == resend_is_within_bounds(first_sent_at, clock, attempts[1].endpoint, ep)
        route(reason) == [begin EXCEPT !.reason = reason]
    IN  IF outbox.last_outcome = "partially_applied" THEN route("partially_applied")
        ELSE IF queryable_by_operation_id
          THEN IF Len(queries) >= MaxQueries THEN route("reconciliation_exhausted")
               ELSE [begin EXCEPT !.pc = "query"]
        ELSE IF ~suppresses_duplicates THEN route("no_suppression_or_query")
        ELSE IF bound = "permitted" THEN [begin EXCEPT !.pc = "gate"]
        ELSE IF bound = "window_expired" THEN route("resend_window_expired")
        ELSE route("resend_scope_unproven")

\* One pass starts: everything it will use is read here.
reconcile_once(w) ==
    /\ task[w].pc = "idle"
    /\ needs_reconciling
    /\ attempts # <<>>
    /\ \E ep \in Endpoints :
        /\ branch(ep).pc = "gate" => Len(attempts) < MaxSends
        /\ branch(ep).pc = "recover" => Len(recovery) < MaxItems
        /\ Become(w, branch(ep))
    /\ UNCHANGED <<rowVars, ledgerVars, clock, crashes>>

\* The query, outside any transaction.
get_by_operation_id(w) ==
    /\ task[w].pc = "query"
    /\ \E x \in QueryAnswers :
        Become(w, [task[w] EXCEPT !.pc = "queried", !.got = x])
    /\ UNCHANGED <<rowVars, ledgerVars, clock, crashes>>

\* Mutant: every not_found counts, an indeterminate answer does not break the run.
count_not_found(answers) ==
    Cardinality({i \in DOMAIN answers : answers[i] = "not_found"})

\* The length of the trailing run of not_found answers.
consecutive_not_found(answers) ==
    Len(answers)
        - Max({0} \cup {i \in DOMAIN answers : answers[i] # "not_found"})

\* What the pass concludes from the answer it has just appended.
conclusion(w) ==
    LET t == task[w] IN
    IF t.got = "found" THEN "confirmed"
    ELSE IF /\ t.got = "not_found"
            /\ consecutive_not_found(Append(queries, t.got)) >= ConsecutiveNotFound
            /\ t.last_sent_at # NULL
            /\ negative_answer_is_trustworthy(t.last_sent_at, t.now)
         THEN "rejected"
    ELSE NULL

\* The answer is appended and, where it is definite, the operation settled, in one
\* transaction: the loser of a race for query_no, and a conclusion the outbox
\* trigger refuses, lose the observation too.  Otherwise the pass ends, at its
\* bound by routing to an operator.
reconcile_by_query(w) ==
    LET verdict == conclusion(w)
        settled == [outbox EXCEPT !.last_outcome = verdict, !.state = "settled"]
        exhausted == task[w].queries_made + 1 >= MaxQueries
    IN  /\ task[w].pc = "queried"
        /\ IF \/ task[w].queries_made + 1 \in DOMAIN queries
              \/ verdict # NULL /\ ~OutboxPermits(settled)
           THEN Finish(w) /\ UNCHANGED <<queries, trail, outbox, posting_ref>>
           ELSE /\ queries' = Append(queries, task[w].got)
                /\ IF verdict = NULL
                   THEN /\ emit("reconcile")
                        /\ IF exhausted
                           THEN Become(w, [task[w] EXCEPT !.pc = "recover",
                                            !.reason = "reconciliation_exhausted"])
                           ELSE Finish(w)
                        /\ UNCHANGED <<outbox, posting_ref>>
                   ELSE /\ outbox' = settled
                        /\ posting_ref' = (posting_ref \/ verdict = "confirmed")
                        /\ trail' = [trail EXCEPT !["reconcile"] = @ + 2]
                        /\ Finish(w)
        /\ UNCHANGED <<attempts, dlq, recovery, ledgerVars, clock, crashes>>
===============================================================================
