------------------------------ MODULE Dispatcher ------------------------------
(***************************************************************************)
(* operations/dispatcher.py: dispatch_once, one attempt to post, in the    *)
(* three transactions and the one socket write the code separates.  Its    *)
(* callers are the retry runner, the replay and the reconciliation pass;   *)
(* they differ in what they do with the outcome and with a raise.          *)
(***************************************************************************)
EXTENDS LedgerBooks

CONSTANT MayFailToConnect   \* the transport may fail before the first byte

ASSUME ConnectAssumption == MayFailToConnect \in BOOLEAN

\* Mutants: the gate trusts the recorded outcome and does not look for a row in
\* flight; the gate does not look at the recorded outcome at all.
gate_blind_to_flight(w) ==
    /\ outbox.last_outcome \notin TERMINAL
    /\ outbox.last_outcome \in AMBIGUOUS => resend_decision = "permitted"
gate_blind_to_verdict(w) == InFlight = {}

\* What the gate lets through: nothing terminal, and nothing undetermined unless
\* the effective capabilities and the bounds of the first send permit a re-send.
gate_permits(w) ==
    /\ outbox.last_outcome \notin TERMINAL
    /\ is_ambiguous =>
        /\ resend_decision = "permitted"
        /\ attempts # <<>>
        /\ resend_is_within_bounds(attempts[1].sent_at, task[w].now,
                attempts[1].endpoint, task[w].endpoint) = "permitted"

\* Transaction 1.  The lock it takes is gone when it commits; what survives is the
\* attempt number.
DispatchGate(w) ==
    /\ task[w].pc = "gate"
    /\ IF gate_permits(w)
       THEN Become(w, [task[w] EXCEPT !.pc = "write",
                                      !.attempt_no = Len(attempts) + 1])
       ELSE Finish(w)
    /\ UNCHANGED <<rowVars, ledgerVars, clock, crashes>>

\* The row a send is preceded by.
written_row(w) == [state |-> "in_flight", outcome |-> NULL,
                   sent_at |-> task[w].now, endpoint |-> task[w].endpoint]

\* Mutants: the send without its row; a refused number promoted to the next one; a
\* refused number taken over.
send_without_row(w) ==
    /\ task[w].pc = "write"
    /\ Goto(w, "post")
    /\ UNCHANGED <<rowVars, ledgerVars, clock, crashes>>
promote_on_conflict(w) ==
    /\ task[w].pc = "write"
    /\ attempts' = Append(attempts, written_row(w))
    /\ emit("post")
    /\ Become(w, [task[w] EXCEPT !.pc = "post", !.attempt_no = Len(attempts) + 1])
    /\ UNCHANGED <<outbox, posting_ref, dlq, queries, recovery, ledgerVars,
                   clock, crashes>>
upsert_on_conflict(w) ==
    LET n == task[w].attempt_no IN
    /\ task[w].pc = "write"
    /\ attempts' = IF n \in DOMAIN attempts
                   THEN [attempts EXCEPT ![n] = written_row(w)]
                   ELSE Append(attempts, written_row(w))
    /\ emit("post")
    /\ Goto(w, "post")
    /\ UNCHANGED <<outbox, posting_ref, dlq, queries, recovery, ledgerVars,
                   clock, crashes>>

\* Transaction 2: the write-ahead row.  uq_posting_attempt_adjustment_no refuses
\* the loser of a race, and a refusal is never promoted to the next number.
WriteAhead(w) ==
    /\ task[w].pc = "write"
    /\ IF task[w].attempt_no \in DOMAIN attempts
       THEN Finish(w) /\ UNCHANGED <<attempts, trail>>
       ELSE /\ attempts' = Append(attempts, written_row(w))
            /\ emit("post")
            /\ Goto(w, "post")
    /\ UNCHANGED <<outbox, posting_ref, dlq, queries, recovery, ledgerVars,
                   clock, crashes>>

\* adapter.post: the request is written to the socket.
AdapterPost(w) ==
    /\ task[w].pc = "post"
    /\ wire' = wire \cup {task[w].attempt_no}
    /\ Goto(w, "await")
    /\ UNCHANGED <<rowVars, applied, partial, clock, crashes>>

\* Mutant: a failure after the first byte is allowlisted too.
timeout_is_not_sent(w) ==
    /\ MayFailToConnect
    /\ task[w].pc \in {"post", "await"}
    /\ IF task[w].job = "reconcile" THEN Finish(w) ELSE Goto(w, "not_sent")
    /\ UNCHANGED <<rowVars, ledgerVars, clock, crashes>>

\* An allowlisted transport failure: nothing left the client.  Only the retry and
\* the replay wrap the adapter so that it is classified; through the reconciliation
\* pass it propagates and leaves the row in flight.
ConnectFails(w) ==
    /\ MayFailToConnect
    /\ task[w].pc = "post"
    /\ IF task[w].job = "reconcile" THEN Finish(w) ELSE Goto(w, "not_sent")
    /\ UNCHANGED <<rowVars, ledgerVars, clock, crashes>>

\* Mutants: not knowing is coerced to a failure, or to a success.
unknown_is_rejected(w) ==
    /\ task[w].pc = "await"
    /\ Become(w, [task[w] EXCEPT !.pc = "record", !.got = "rejected"])
    /\ UNCHANGED <<rowVars, ledgerVars, clock, crashes>>
unknown_is_confirmed(w) ==
    /\ task[w].pc = "await"
    /\ Become(w, [task[w] EXCEPT !.pc = "record", !.got = "confirmed"])
    /\ UNCHANGED <<rowVars, ledgerVars, clock, crashes>>

\* The adapter reports that it does not know: a reset, a 5xx, a lost response.
AnswerUnknown(w) ==
    /\ task[w].pc = "await"
    /\ Become(w, [task[w] EXCEPT !.pc = "record", !.got = "unknown"])
    /\ UNCHANGED <<rowVars, ledgerVars, clock, crashes>>

\* The adapter raises what no allowlist recognises: held, the row stays in flight.
PostRaises(w) ==
    /\ task[w].pc \in {"post", "await"}
    /\ Finish(w)
    /\ UNCHANGED <<rowVars, ledgerVars, clock, crashes>>

\* Mutant: a replay closes its entry whatever the outcome.
close_on_any_outcome(job, code) ==
    CASE job = "retry" /\ code = "rejected" -> "bury"
      [] job = "retry" /\ code = "throttled" -> "budget"
      [] job = "replay" -> "close"
      [] OTHER -> "idle"

\* Mutants: a throttle goes uncounted; a rejection gets no dead letter.
throttle_uncounted(job, code) ==
    CASE job = "retry" /\ code = "rejected" -> "bury"
      [] job = "replay" /\ code \in TERMINAL -> "close"
      [] OTHER -> "idle"
rejection_unlettered(job, code) ==
    CASE job = "retry" /\ code = "throttled" -> "budget"
      [] job = "replay" /\ code \in TERMINAL -> "close"
      [] OTHER -> "idle"

\* What each caller does once the outcome is recorded.
after_outcome(job, code) ==
    CASE job = "retry" /\ code = "rejected" -> "bury"
      [] job = "retry" /\ code = "throttled" -> "budget"
      [] job = "replay" /\ code \in TERMINAL -> "close"
      [] OTHER -> "idle"

\* The rows transaction 3 writes.
recorded_attempt(w) ==
    [attempts[task[w].attempt_no] EXCEPT !.state = "resolved", !.outcome = task[w].got]
recorded_outbox(w) ==
    [outbox EXCEPT !.last_outcome = task[w].got,
                   !.attempt_count = task[w].attempt_no,
                   !.state = IF task[w].got \in TERMINAL THEN "settled" ELSE @]

\* Transaction 3.  A trigger that refuses any of it rolls all of it back and the
\* refusal propagates: the attempt stays in flight.
RecordOutcome(w) ==
    LET n == task[w].attempt_no
        next == after_outcome(task[w].job, task[w].got)
    IN  /\ task[w].pc = "record"
        /\ IF OutboxPermits(recorded_outbox(w)) /\ AttemptPermits(n, recorded_attempt(w))
           THEN /\ attempts' = [attempts EXCEPT ![n] = recorded_attempt(w)]
                /\ outbox' = recorded_outbox(w)
                /\ posting_ref' = (posting_ref \/ task[w].got = "confirmed")
                /\ emit("post")
                /\ IF next = "idle" THEN Finish(w) ELSE Goto(w, next)
           ELSE Finish(w) /\ UNCHANGED <<attempts, outbox, posting_ref, trail>>
        /\ UNCHANGED <<dlq, queries, recovery, ledgerVars, clock, crashes>>
===============================================================================
