----------------------------- MODULE HistoryProofs -----------------------------
(***************************************************************************)
(* What no step may do to the record, for every value of the constants: a  *)
(* terminal outcome is final, and evidence is append-only.                 *)
(***************************************************************************)
EXTENDS SafetyProofs

\* Transaction 3, the reconciliation and the operator write a terminal outcome and
\* the settled state together.
TerminalSettled == outbox.last_outcome \in TERMINAL => outbox.state = "settled"

\* What a step may do to the outbox row: leave state and outcome alone, or replace
\* the row by one the trigger permits that is settled if it is newly terminal.
OutboxStep ==
    \/ outbox'.state = outbox.state /\ outbox'.last_outcome = outbox.last_outcome
    \/ /\ OutboxPermits(outbox')
       /\ outbox'.last_outcome \in TERMINAL =>
            outbox'.state = "settled" \/ outbox'.last_outcome = outbox.last_outcome

\* Every step keeps a terminal outcome and settles the row that gets one.
LEMMA OutboxStepNext == TypeInv /\ FlightInv /\ [Next]_vars => OutboxStep
<1> SUFFICES ASSUME TypeInv, FlightInv, [Next]_vars PROVE OutboxStep
    OBVIOUS
<1>1. outbox \in Outbox
    BY DEF TypeInv, TypeOK, RowsTyped
<1>2. CASE UNCHANGED outbox
    BY <1>2 DEF OutboxStep
<1>3. ASSUME NEW w \in Workers, RecordOutcome(w) PROVE OutboxStep
    <2>1. recorded_outbox(w).last_outcome \in TERMINAL =>
                recorded_outbox(w).state = "settled"
        BY <1>1 DEF recorded_outbox, Outbox
    <2> QED BY <1>2, <1>3, <2>1, RecordSplit DEF OutboxStep
<1>4. ASSUME NEW w \in Workers, resolve_not_sent(w) PROVE OutboxStep
    <2>1. CASE \E n : /\ outbox' = [outbox EXCEPT !.last_outcome = "not_sent",
                                        !.attempt_count = MaxOf(@, n)]
                      /\ OutboxPermits(outbox')
        <3>1. outbox'.last_outcome = "not_sent"
            BY <1>1, <2>1 DEF Outbox
        <3> QED BY <2>1, <3>1 DEF OutboxStep, TERMINAL
    <2> QED BY <1>2, <1>4, <2>1, NotSentSplit
<1>5. ASSUME NEW reason, NEW mark, dead_letter(reason, mark) PROVE OutboxStep
    <2>1. CASE /\ outbox' = [outbox EXCEPT !.state = "dead_lettered"]
               /\ OutboxPermits(outbox')
        BY <1>1, <2>1 DEF OutboxStep, Outbox
    <2> QED BY <1>2, <1>5, <2>1 DEF dead_letter
<1>6. ASSUME NEW w \in Workers, retry_or_dead_letter(w) PROVE OutboxStep
    <2>1. \/ \E reason, mark : dead_letter(reason, mark)
          \/ \E at : outbox' = [outbox EXCEPT !.next_attempt_at = at]
        BY <1>6 DEF retry_or_dead_letter
    <2> QED BY <1>1, <1>5, <2>1 DEF OutboxStep, Outbox
<1>7. ASSUME NEW w \in Workers, dead_letter_rejection(w) PROVE OutboxStep
    BY <1>5, <1>7 DEF dead_letter_rejection
<1>8. ASSUME NEW w \in Workers, reconcile_by_query(w) PROVE OutboxStep
    <2> DEFINE settled == [outbox EXCEPT !.last_outcome = conclusion(w),
                                         !.state = "settled"]
    <2>1. CASE outbox' = settled /\ OutboxPermits(settled)
        <3>1. settled.state = "settled"
            BY <1>1 DEF Outbox
        <3> HIDE DEF settled
        <3> QED BY <2>1, <3>1 DEF OutboxStep
    <2>2. UNCHANGED outbox \/ (outbox' = settled /\ OutboxPermits(settled))
        BY <1>8 DEF reconcile_by_query
    <2> QED BY <1>2, <2>1, <2>2
<1>9. ASSUME NEW i \in DOMAIN recovery, NEW p \in Operators,
             NEW r \in RecoveryResolution, resolve_item(i, p, r)
      PROVE  OutboxStep
    <2> DEFINE intent == [outbox EXCEPT
                            !.state = "settled",
                            !.last_outcome = IF r = "confirmed_by_evidence"
                                             THEN "confirmed" ELSE "rejected"]
    <2>1. CASE outbox' = intent /\ OutboxPermits(intent)
        <3>1. intent.state = "settled"
            BY <1>1 DEF Outbox
        <3> HIDE DEF intent
        <3> QED BY <2>1, <3>1 DEF OutboxStep
    <2>2. UNCHANGED outbox \/ (outbox' = intent /\ OutboxPermits(intent))
        BY <1>9 DEF resolve_item
    <2> QED BY <1>2, <2>1, <2>2
<1>10. ASSUME NEW w \in Workers, Dispatch(w) PROVE OutboxStep
    BY <1>2, <1>3, <1>10 DEF Dispatch, DispatchGate, WriteAhead, AdapterPost,
        ConnectFails, AnswerUnknown, PostRaises, rowVars
<1>11. ASSUME NEW w \in Workers, RetryPass(w) PROVE OutboxStep
    BY <1>2, <1>4, <1>6, <1>7, <1>11 DEF RetryPass, run_due_once, attempt_one, rowVars
<1>12. ASSUME NEW w \in Workers, Replay(w) \/ ReconcilePass(w) \/ Crash(w)
       PROVE  OutboxStep
    BY <1>2, <1>8, <1>12 DEF Replay, ReconcilePass, replay_dead_letter, close_entry,
        reconcile_once, get_by_operation_id, open_item, Crash, rowVars
<1>13. CASE Ledger \/ Tick \/ UNCHANGED vars
    BY <1>2, <1>13 DEF Ledger, LedgerTakes, DropRequest, Tick, vars, rowVars
<1> QED BY <1>9, <1>10, <1>11, <1>12, <1>13 DEF Next, Operator

\* A terminal outcome is final and its row stays settled, whatever answers late and
\* whoever writes: for any ledger, policy and number of workers.
THEOREM TerminalIsForever == Spec => TerminalForever
<1>1. Init => TerminalSettled
    BY NullAssumption DEF Init, TerminalSettled, TERMINAL, OutcomeCode
<1>2. TypeInv /\ FlightInv /\ TerminalSettled /\ [Next]_vars => TerminalSettled'
    BY OutboxStepNext DEF OutboxStep, TerminalSettled, OutboxPermits
<1>3. TypeInv /\ FlightInv /\ TerminalSettled /\ [Next]_vars =>
        [outbox.last_outcome \in TERMINAL =>
            /\ outbox'.last_outcome = outbox.last_outcome
            /\ outbox.state = "settled" /\ outbox'.state = "settled"]_vars
    BY OutboxStepNext DEF OutboxStep, TerminalSettled, OutboxPermits
<1> QED BY <1>1, <1>2, <1>3, TypeInvariant, FlightInvariant, PTL
        DEF Spec, TerminalForever

-------------------------------------------------------------------------------
\* What a step may do to the evidence.
AttemptsKept ==
    \A n \in DOMAIN attempts :
        /\ n \in DOMAIN attempts'
        /\ attempts'[n].sent_at = attempts[n].sent_at
        /\ attempts'[n].endpoint = attempts[n].endpoint
        /\ attempts[n].outcome # NULL => attempts'[n] = attempts[n]
QueriesKept ==
    \A i \in DOMAIN queries : i \in DOMAIN queries' /\ queries'[i] = queries[i]

\* Every step keeps the recorded answers.
LEMMA QueriesKeptNext == TypeInv /\ [Next]_vars => QueriesKept
<1> SUFFICES ASSUME TypeInv, [Next]_vars PROVE QueriesKept
    OBVIOUS
<1>1. CASE UNCHANGED queries
    BY <1>1 DEF QueriesKept
<1>2. ASSUME NEW w \in Workers, reconcile_by_query(w) PROVE QueriesKept
    <2>1. queries \in Seq(QueryAnswer) /\ task[w].got \in QueryAnswer
        BY <1>2 DEF TypeInv, TypeOK, RowsTyped, TaskFits, reconcile_by_query
    <2>2. UNCHANGED queries \/ queries' = Append(queries, task[w].got)
        BY <1>2 DEF reconcile_by_query
    <2>3. CASE queries' = Append(queries, task[w].got)
        BY <2>1, <2>3, AppendProperties DEF QueriesKept
    <2> QED BY <1>1, <2>2, <2>3
<1>3. ASSUME NEW w \in Workers, Dispatch(w) \/ RetryPass(w) PROVE QueriesKept
    BY <1>1, <1>3 DEF Dispatch, DispatchGate, WriteAhead, AdapterPost, ConnectFails,
        AnswerUnknown, PostRaises, RecordOutcome, RetryPass, run_due_once, attempt_one,
        resolve_not_sent, retry_or_dead_letter, dead_letter_rejection, rowVars
<1>4. ASSUME NEW w \in Workers, Replay(w) \/ ReconcilePass(w) \/ Crash(w)
      PROVE  QueriesKept
    BY <1>1, <1>2, <1>4 DEF Replay, ReconcilePass, replay_dead_letter, close_entry,
        reconcile_once, get_by_operation_id, open_item, Crash, rowVars
<1>5. CASE Operator \/ Ledger \/ Tick \/ UNCHANGED vars
    BY <1>1, <1>5 DEF Operator, resolve_item, Ledger, LedgerTakes, DropRequest, Tick,
        vars, rowVars
<1> QED BY <1>3, <1>4, <1>5 DEF Next

\* Every step keeps the recorded attempts.
LEMMA AttemptsKeptNext == TypeInv /\ FlightInv /\ [Next]_vars => AttemptsKept
<1> SUFFICES ASSUME TypeInv, FlightInv, [Next]_vars PROVE AttemptsKept
    OBVIOUS
<1>1. CASE UNCHANGED attempts
    BY <1>1 DEF AttemptsKept
<1>2. ASSUME NEW n \in DOMAIN attempts, attempts[n].outcome = NULL, NEW row,
             row.sent_at = attempts[n].sent_at, row.endpoint = attempts[n].endpoint,
             attempts' = [attempts EXCEPT ![n] = row]
      PROVE  AttemptsKept
    BY <1>2 DEF AttemptsKept, TypeInv, TypeOK, RowsTyped
<1>3. ASSUME NEW w \in Workers, task[w].pc \in Owning
      PROVE  /\ task[w].attempt_no \in DOMAIN attempts
             /\ attempts[task[w].attempt_no].outcome = NULL
    BY <1>3, NumbersInRange DEF FlightInv, Owned, RowsResolved
<1>4. ASSUME NEW w \in Workers, WriteAhead(w) PROVE AttemptsKept
    <2>1. CASE task[w].attempt_no \in DOMAIN attempts
        BY <1>1, <1>4, <2>1 DEF WriteAhead
    <2>2. CASE task[w].attempt_no \notin DOMAIN attempts
        BY <1>4, <2>2, InsertedRow DEF AttemptsKept
    <2> QED BY <2>1, <2>2
<1>5. ASSUME NEW w \in Workers, RecordOutcome(w) PROVE AttemptsKept
    <2>1. task[w].pc \in Owning
        BY <1>5 DEF RecordOutcome, Owning
    <2>2. attempts[task[w].attempt_no] \in PostingAttempt
        BY <1>3, <2>1 DEF TypeInv, TypeOK, RowsTyped
    <2>3. /\ recorded_attempt(w).sent_at = attempts[task[w].attempt_no].sent_at
          /\ recorded_attempt(w).endpoint = attempts[task[w].attempt_no].endpoint
        BY <2>2 DEF recorded_attempt, PostingAttempt
    <2> QED BY <1>1, <1>2, <1>3, <1>5, <2>1, <2>3, RecordSplit
<1>6. ASSUME NEW w \in Workers, resolve_not_sent(w) PROVE AttemptsKept
    <2>1. task[w].pc \in Owning
        BY <1>6 DEF resolve_not_sent, Owning
    <2> QED BY <1>1, <1>2, <1>3, <1>6, <2>1, NotSentSplit
<1>7. ASSUME NEW w \in Workers, Dispatch(w) PROVE AttemptsKept
    BY <1>1, <1>4, <1>5, <1>7 DEF Dispatch, DispatchGate, AdapterPost, ConnectFails,
        AnswerUnknown, PostRaises, rowVars
<1>8. ASSUME NEW w \in Workers, RetryPass(w) PROVE AttemptsKept
    BY <1>1, <1>6, <1>8 DEF RetryPass, run_due_once, attempt_one,
        retry_or_dead_letter, dead_letter_rejection, rowVars
<1>9. ASSUME NEW w \in Workers, Replay(w) \/ ReconcilePass(w) \/ Crash(w)
      PROVE  AttemptsKept
    BY <1>1, <1>9 DEF Replay, ReconcilePass, replay_dead_letter, close_entry,
        reconcile_once, get_by_operation_id, reconcile_by_query, open_item, Crash, rowVars
<1>10. CASE Operator \/ Ledger \/ Tick \/ UNCHANGED vars
    BY <1>1, <1>10 DEF Operator, resolve_item, Ledger, LedgerTakes, DropRequest, Tick,
        vars, rowVars
<1> QED BY <1>7, <1>8, <1>9, <1>10 DEF Next

\* Attempts and query answers are append-only and a recorded outcome never changes.
THEOREM EvidenceIsImmutable == Spec => EvidenceImmutable
<1>1. TypeInv /\ FlightInv /\ [Next]_vars =>
        [/\ \A n \in DOMAIN attempts :
            /\ n \in DOMAIN attempts'
            /\ attempts'[n].sent_at = attempts[n].sent_at
            /\ attempts'[n].endpoint = attempts[n].endpoint
            /\ attempts[n].outcome # NULL => attempts'[n] = attempts[n]
         /\ \A i \in DOMAIN queries :
            i \in DOMAIN queries' /\ queries'[i] = queries[i]]_vars
    BY AttemptsKeptNext, QueriesKeptNext DEF AttemptsKept, QueriesKept
<1> QED BY <1>1, TypeInvariant, FlightInvariant, PTL DEF Spec, EvidenceImmutable
===============================================================================
