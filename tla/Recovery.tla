------------------------------- MODULE Recovery -------------------------------
(***************************************************************************)
(* operations/recovery.py: the queue where the automatic path ends, and    *)
(* the operator's judgement on an item.                                    *)
(***************************************************************************)
EXTENDS Reconcile

CONSTANT RunnersPaused  \* operators judge "not applied" only with no send under way

ASSUME RecoveryAssumption == RunnersPaused \in BOOLEAN

\* _route_to_recovery / open_item: the partial unique index keeps one open item.
open_item(w) ==
    /\ task[w].pc = "recover"
    /\ IF open_recovery
       THEN UNCHANGED <<recovery, trail>>
       ELSE /\ recovery' = Append(recovery,
                    [reason |-> task[w].reason, state |-> "open",
                     resolution |-> NULL, resolved_by |-> NULL])
            /\ emit("recover")
    /\ Finish(w)
    /\ UNCHANGED <<outbox, posting_ref, attempts, dlq, queries, ledgerVars,
                   clock, crashes>>

\* The evidence procedures (external): a posting found on the books confirms; no
\* posting there, and the vendor's word, dated after the in-flight window of every
\* send on record, that no request is on its way, rejects.
Evidence(resolution) ==
    CASE resolution = "confirmed_by_evidence" -> Effects # {}
      [] resolution = "rejected_by_evidence" ->
            /\ Effects = {} /\ wire = {}
            /\ \A w \in Workers : task[w].pc # "post"
            /\ RunnersPaused => \A w \in Workers : task[w].pc # "write"
      [] resolution = "resolved_unverified" -> TRUE

\* A verified resolution settles the outbox row; an unverified one leaves it.
resolve_item(i, principal, resolution) ==
    LET intent == [outbox EXCEPT
                    !.state = "settled",
                    !.last_outcome = IF resolution = "confirmed_by_evidence"
                                     THEN "confirmed" ELSE "rejected"]
    IN  /\ recovery[i].state = "open"
        /\ principal # Approver
        /\ Evidence(resolution)
        /\ recovery' = [recovery EXCEPT ![i].state = "resolved",
                                        ![i].resolution = resolution,
                                        ![i].resolved_by = principal]
        /\ IF resolution = "resolved_unverified"
           THEN UNCHANGED <<outbox, posting_ref>>
           ELSE /\ OutboxPermits(intent)
                /\ outbox' = intent
                /\ posting_ref' = (posting_ref \/ resolution = "confirmed_by_evidence")
        /\ emit("recover")
        /\ UNCHANGED <<attempts, dlq, queries, task, ledgerVars, clock, crashes>>
===============================================================================
