--------------------------------- MODULE Retry ---------------------------------
(***************************************************************************)
(* operations/retry.py: the bounded pass over the due queue, the resolution*)
(* of a send that never left, the two budgets, the dead-letter queue and   *)
(* the replay of its entries.                                              *)
(***************************************************************************)
EXTENDS Dispatcher

\* Mutant: next_attempt_at <= now without the IS NULL alternative.
due_if_scheduled ==
    /\ outbox.state = "pending"
    /\ outbox.next_attempt_at # NULL /\ outbox.next_attempt_at <= clock
    /\ ~is_ambiguous

\* The four conditions of the claim.
due_adjustments ==
    /\ outbox.state = "pending"
    /\ outbox.next_attempt_at # NULL => outbox.next_attempt_at <= clock
    /\ ~is_ambiguous

\* The claim is taken and released before any send; `now` is read once for the pass.
run_due_once(w) ==
    /\ task[w].pc = "idle"
    /\ Len(attempts) < MaxSends
    /\ due_adjustments
    /\ \E ep \in Endpoints : Become(w, Start("retry", "claimed", ep))
    /\ UNCHANGED <<rowVars, ledgerVars, clock, crashes>>

\* _snapshot: a row no longer pending is held.
attempt_one(w) ==
    /\ task[w].pc = "claimed"
    /\ IF outbox.state = "pending" THEN Goto(w, "gate") ELSE Finish(w)
    /\ UNCHANGED <<rowVars, ledgerVars, clock, crashes>>

\* The one row in flight is closed as not sent, or none is: with two in flight the
\* code cannot tell which is its own and declines.  A trigger's refusal aborts.
resolve_not_sent(w) ==
    LET n == CHOOSE m \in InFlight : TRUE
        row == [attempts[n] EXCEPT !.state = "resolved", !.outcome = "not_sent"]
        intent == [outbox EXCEPT !.last_outcome = "not_sent",
                                 !.attempt_count = MaxOf(@, n)]
    IN  /\ task[w].pc = "not_sent"
        /\ IF Cardinality(InFlight) = 1 /\ OutboxPermits(intent)
           THEN /\ attempts' = [attempts EXCEPT ![n] = row]
                /\ outbox' = intent
                /\ emit("post")
                /\ IF task[w].job = "retry"
                   THEN Become(w, [task[w] EXCEPT !.pc = "budget", !.attempt_no = n,
                                                  !.got = "not_sent"])
                   ELSE Finish(w)
           ELSE Finish(w) /\ UNCHANGED <<attempts, outbox, trail>>
        /\ UNCHANGED <<posting_ref, dlq, queries, recovery, ledgerVars, clock, crashes>>

\* The dead letter, and DEAD_LETTERED where the outcome left the row unfinished.  A
\* second letter for the row, or marking a settled row, aborts the transaction.
dead_letter(reason, mark_state) ==
    LET intent == IF mark_state THEN [outbox EXCEPT !.state = "dead_lettered"]
                                ELSE outbox
    IN  IF dlq = NULL /\ OutboxPermits(intent)
        THEN /\ dlq' = [reason |-> reason, replay_state |-> "pending"]
             /\ outbox' = intent
             /\ emit("dlq")
        ELSE UNCHANGED <<dlq, outbox, trail>>

\* A delay the policy allows: jittered backoff, and after a throttle at least the
\* provider's own schedule.
Delays(w) ==
    IF task[w].got = "throttled"
    THEN {MaxOf(after, d) : after \in RetryAfter, d \in backoff_delay(task[w].attempt_no)}
    ELSE backoff_delay(task[w].attempt_no)

\* Schedule if both budgets allow, dead-letter otherwise.
retry_or_dead_letter(w) ==
    /\ task[w].pc = "budget"
    /\ \E delay \in Delays(w) :
        IF task[w].attempt_no >= MaxAttempts
        THEN dead_letter("attempts_exhausted", TRUE)
        ELSE IF budget_exhausted(first_sent_at, task[w].now, delay)
        THEN dead_letter("time_budget_exhausted", TRUE)
        ELSE /\ outbox' = [outbox EXCEPT !.next_attempt_at = task[w].now + delay]
             /\ emit("retry")
             /\ UNCHANGED dlq
    /\ Finish(w)
    /\ UNCHANGED <<posting_ref, attempts, queries, recovery, ledgerVars, clock, crashes>>

\* A rejection goes straight to the dead-letter queue, in a transaction of its own.
dead_letter_rejection(w) ==
    /\ task[w].pc = "bury"
    /\ dead_letter("terminal_rejection", FALSE)
    /\ Finish(w)
    /\ UNCHANGED <<posting_ref, attempts, queries, recovery, ledgerVars, clock, crashes>>

\* Replay one pending dead letter: an operation already confirmed or rejected is
\* closed without a send, anything else is an ordinary dispatch.
replay_dead_letter(w) ==
    LET finished == posting_ref \/ outbox.last_outcome = "rejected"
    IN  /\ task[w].pc = "idle"
        /\ dlq # NULL /\ dlq.replay_state = "pending"
        /\ finished \/ Len(attempts) < MaxSends
        /\ \E ep \in Endpoints :
            Become(w, Start("replay", IF finished THEN "close" ELSE "gate", ep))
        /\ UNCHANGED <<rowVars, ledgerVars, clock, crashes>>

close_entry(w) ==
    /\ task[w].pc = "close"
    /\ dlq' = [dlq EXCEPT !.replay_state = "replayed"]
    /\ emit("replay")
    /\ Finish(w)
    /\ UNCHANGED <<outbox, posting_ref, attempts, queries, recovery, ledgerVars,
                   clock, crashes>>
===============================================================================
