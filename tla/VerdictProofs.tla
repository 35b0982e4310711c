----------------------------- MODULE VerdictProofs -----------------------------
(***************************************************************************)
(* What the control plane says about an operation, for every value of the  *)
(* constants: a closed dead letter is a finished operation; against a      *)
(* ledger that suppresses no duplicates, and proves nothing or can be      *)
(* asked, the verdict is the truth, nothing is sent once it is given, and  *)
(* the whole implements PostingOnce; against a ledger that enforces the    *)
(* key the books move once at most.                                        *)
(***************************************************************************)
EXTENDS HistoryProofs

\* What the steps other than transaction 3, _resolve_not_sent, the reconciliation's
\* conclusion and the operator's do to the outcome and the adjustment: nothing.
LEMMA OutcomeKept ==
    ASSUME TypeInv, NEW w \in Workers,
           \/ DispatchGate(w) \/ WriteAhead(w) \/ AdapterPost(w) \/ ConnectFails(w)
           \/ AnswerUnknown(w) \/ PostRaises(w) \/ run_due_once(w) \/ attempt_one(w)
           \/ retry_or_dead_letter(w) \/ dead_letter_rejection(w)
           \/ replay_dead_letter(w) \/ close_entry(w) \/ reconcile_once(w)
           \/ get_by_operation_id(w) \/ open_item(w) \/ Crash(w)
    PROVE  /\ outbox'.last_outcome = outbox.last_outcome
           /\ posting_ref' = posting_ref
<1>1. posting_ref' = posting_ref
    BY DEF DispatchGate, WriteAhead, AdapterPost, ConnectFails, AnswerUnknown,
        PostRaises, run_due_once, attempt_one, retry_or_dead_letter,
        dead_letter_rejection, replay_dead_letter, close_entry, reconcile_once,
        get_by_operation_id, open_item, Crash, rowVars
<1>2. CASE retry_or_dead_letter(w) \/ dead_letter_rejection(w)
    <2>1. ASSUME NEW reason, NEW mark, dead_letter(reason, mark)
          PROVE  outbox'.last_outcome = outbox.last_outcome
        BY <2>1 DEF dead_letter, TypeInv, TypeOK, RowsTyped, Outbox
    <2>2. \/ \E reason, mark : dead_letter(reason, mark)
          \/ \E at : outbox' = [outbox EXCEPT !.next_attempt_at = at]
        BY <1>2 DEF retry_or_dead_letter, dead_letter_rejection
    <2> QED BY <1>1, <2>1, <2>2 DEF TypeInv, TypeOK, RowsTyped, Outbox
<1>3. CASE \/ DispatchGate(w) \/ WriteAhead(w) \/ AdapterPost(w) \/ ConnectFails(w)
           \/ AnswerUnknown(w) \/ PostRaises(w) \/ run_due_once(w) \/ attempt_one(w)
           \/ replay_dead_letter(w) \/ close_entry(w) \/ reconcile_once(w)
           \/ get_by_operation_id(w) \/ open_item(w) \/ Crash(w)
    BY <1>1, <1>3 DEF DispatchGate, WriteAhead, AdapterPost, ConnectFails,
        AnswerUnknown, PostRaises, run_due_once, attempt_one, replay_dead_letter,
        close_entry, reconcile_once, get_by_operation_id, open_item, Crash, rowVars
<1> QED BY <1>2, <1>3

\* Where the steps of one worker may lead it, apart from the three that lead to the
\* insertion, to the socket or to the closing of a dead letter.
LEMMA StepsAside ==
    ASSUME TypeInv, NEW w \in Workers,
           \/ AdapterPost(w) \/ ConnectFails(w) \/ AnswerUnknown(w) \/ PostRaises(w)
           \/ run_due_once(w) \/ attempt_one(w) \/ resolve_not_sent(w)
           \/ retry_or_dead_letter(w) \/ dead_letter_rejection(w) \/ close_entry(w)
           \/ reconcile_once(w) \/ get_by_operation_id(w) \/ reconcile_by_query(w)
           \/ open_item(w) \/ Crash(w)
    PROVE  \E t : /\ Become(w, t)
                  /\ t.pc \notin {"write", "post", "close"}
                  /\ t.pc \in {"query", "queried"} =>
                        queryable_by_operation_id \/ task[w].pc = "query"
<1>1. CASE \/ PostRaises(w) \/ retry_or_dead_letter(w) \/ dead_letter_rejection(w)
           \/ close_entry(w) \/ open_item(w) \/ Crash(w)
    <2>1. Become(w, IdleTask)
        BY <1>1 DEF PostRaises, retry_or_dead_letter, dead_letter_rejection,
            close_entry, open_item, Crash, Finish
    <2> QED BY <2>1 DEF IdleTask
<1>2. CASE run_due_once(w)
    <2>1. PICK ep : Become(w, Start("retry", "claimed", ep))
        BY <1>2 DEF run_due_once
    <2>2. Start("retry", "claimed", ep).pc = "claimed"
        BY DEF Start, IdleTask
    <2> QED BY <2>1, <2>2
<1>3. CASE \/ AdapterPost(w) \/ ConnectFails(w) \/ AnswerUnknown(w) \/ attempt_one(w)
           \/ resolve_not_sent(w) \/ reconcile_by_query(w)
    <2> DEFINE Places == {"await", "not_sent", "record", "gate", "recover", "budget"}
               Leads(p, x, r, n) ==
                \/ Become(w, [task[w] EXCEPT !.pc = p])
                \/ Become(w, [task[w] EXCEPT !.pc = p, !.got = x])
                \/ Become(w, [task[w] EXCEPT !.pc = p, !.reason = r])
                \/ Become(w, [task[w] EXCEPT !.pc = p, !.attempt_no = n, !.got = x])
               Aside == \E t : /\ Become(w, t)
                               /\ t.pc \notin {"write", "post", "close", "query",
                                              "queried"}
    <2>1. \/ Become(w, IdleTask)
          \/ \E p \in Places : \E x, r, n : Leads(p, x, r, n)
        <3>1. CASE resolve_not_sent(w) \/ reconcile_by_query(w)
            BY <3>1 DEF resolve_not_sent, reconcile_by_query, Finish
        <3>2. CASE \/ AdapterPost(w) \/ ConnectFails(w) \/ AnswerUnknown(w)
                   \/ attempt_one(w)
            BY <3>2 DEF AdapterPost, ConnectFails, AnswerUnknown, attempt_one, Goto,
                Finish
        <3> QED BY <1>3, <3>1, <3>2
    <2>2. ASSUME NEW p, NEW x, NEW r, NEW n
          PROVE  /\ [task[w] EXCEPT !.pc = p].pc = p
                 /\ [task[w] EXCEPT !.pc = p, !.got = x].pc = p
                 /\ [task[w] EXCEPT !.pc = p, !.reason = r].pc = p
                 /\ [task[w] EXCEPT !.pc = p, !.attempt_no = n, !.got = x].pc = p
        BY DEF TypeInv, TaskFits, Task
    <2>3. ASSUME NEW p \in Places, NEW x, NEW r, NEW n, Leads(p, x, r, n)
          PROVE  Aside
        <3>1. p \notin {"write", "post", "close", "query", "queried"}
            OBVIOUS
        <3>2. ASSUME NEW t, Become(w, t), t.pc = p
              PROVE  Aside
            BY <3>1, <3>2
        <3> HIDE DEF Aside
        <3>3. CASE Become(w, [task[w] EXCEPT !.pc = p])
            BY <2>2, <3>2, <3>3
        <3>4. CASE Become(w, [task[w] EXCEPT !.pc = p, !.got = x])
            BY <2>2, <3>2, <3>4
        <3>5. CASE Become(w, [task[w] EXCEPT !.pc = p, !.reason = r])
            BY <2>2, <3>2, <3>5
        <3>6. CASE Become(w, [task[w] EXCEPT !.pc = p, !.attempt_no = n, !.got = x])
            BY <2>2, <3>2, <3>6
        <3> QED BY <2>3, <3>3, <3>4, <3>5, <3>6
    <2>4. ASSUME Become(w, IdleTask) PROVE Aside
        <3>1. IdleTask.pc = "idle"
            BY DEF IdleTask
        <3> QED BY <2>4, <3>1
    <2> HIDE DEF Places, Leads, Aside
    <2>5. Aside
        BY <2>1, <2>3, <2>4
    <2> QED BY <2>5 DEF Aside
<1>4. CASE reconcile_once(w)
    <2>1. PICK ep \in Endpoints : Become(w, branch(ep))
        BY <1>4 DEF reconcile_once
    <2>2. /\ branch(ep).pc \in {"recover", "query", "gate"}
          /\ branch(ep).pc = "query" => queryable_by_operation_id
        BY DEF branch, Start, IdleTask
    <2> QED BY <2>1, <2>2
<1>5. CASE get_by_operation_id(w)
    <2>1. PICK x : Become(w, [task[w] EXCEPT !.pc = "queried", !.got = x])
        BY <1>5 DEF get_by_operation_id
    <2>2. /\ [task[w] EXCEPT !.pc = "queried", !.got = x].pc = "queried"
          /\ task[w].pc = "query"
        BY <1>5 DEF get_by_operation_id, TypeInv, TaskFits, Task
    <2> QED BY <2>1, <2>2
<1> QED BY <1>1, <1>2, <1>3, <1>4, <1>5
-------------------------------------------------------------------------------
\* A closed dead letter, the closing of one and a posted adjustment each mean that
\* the outcome they rest on is on the outbox row.
ClosedInv ==
    /\ ReplayedMeansTerminal
    /\ \A w \in Workers : task[w].pc = "close" => outbox.last_outcome \in TERMINAL
    /\ posting_ref => outbox.last_outcome = "confirmed"

\* A step that keeps terminal outcomes, closes no letter and starts no closing.
LEMMA ClosedQuiet ==
    ASSUME ClosedInv,
           outbox.last_outcome \in TERMINAL =>
                outbox'.last_outcome = outbox.last_outcome,
           posting_ref' => posting_ref \/ outbox'.last_outcome = "confirmed",
           dlq' # NULL /\ dlq'.replay_state = "replayed" =>
                dlq # NULL /\ dlq.replay_state = "replayed",
           \A v \in Workers : task'[v].pc = "close" =>
                task[v].pc = "close" \/ outbox'.last_outcome \in TERMINAL
    PROVE  ClosedInv'
BY DEF ClosedInv, ReplayedMeansTerminal, TERMINAL

\* What every step does to a terminal outcome.
LEMMA TerminalKept ==
    ASSUME TypeInv, FlightInv, [Next]_vars, outbox.last_outcome \in TERMINAL
    PROVE  outbox'.last_outcome = outbox.last_outcome
BY OutboxStepNext DEF OutboxStep, OutboxPermits

\* Transaction 3 starts the closing of a letter over a terminal outcome only.
LEMMA ClosedRecordOutcome ==
    ASSUME TypeInv, NEW w \in Workers, RecordOutcome(w)
    PROVE  /\ posting_ref' => posting_ref \/ outbox'.last_outcome = "confirmed"
           /\ \A v \in Workers : task'[v].pc = "close" =>
                task[v].pc = "close" \/ outbox'.last_outcome \in TERMINAL
<1> DEFINE next == after_outcome(task[w].job, task[w].got)
           ok == /\ OutboxPermits(recorded_outbox(w))
                 /\ AttemptPermits(task[w].attempt_no, recorded_attempt(w))
<1>1. IdleTask.pc # "close"
    BY DEF IdleTask
<1>2. recorded_outbox(w).last_outcome = task[w].got
    BY DEF recorded_outbox, TypeInv, TypeOK, RowsTyped, Outbox
<1>3. CASE ok
    <2>1. /\ outbox'.last_outcome = task[w].got
          /\ posting_ref' = (posting_ref \/ task[w].got = "confirmed")
          /\ IF next = "idle" THEN Finish(w) ELSE Goto(w, next)
        BY <1>2, <1>3 DEF RecordOutcome
    <2>2. next = "close" => task[w].got \in TERMINAL
        BY DEF after_outcome
    <2>3. [task[w] EXCEPT !.pc = next].pc = next
        BY DEF TypeInv, TaskFits, Task
    <2>4. \A v \in Workers : v # w => task'[v] = task[v]
        <3> HIDE DEF next
        <3> QED BY <2>1, BecomeTask DEF Finish, Goto
    <2>5. task'[w].pc = "close" => next = "close"
        <3> HIDE DEF next
        <3> QED BY <1>1, <2>1, <2>3, BecomeTask DEF Finish, Goto
    <2> QED BY <2>1, <2>2, <2>4, <2>5
<1>4. CASE ~ok
    <2>1. Finish(w) /\ posting_ref' = posting_ref
        BY <1>4 DEF RecordOutcome
    <2> QED BY <1>1, <2>1, BecomeTask DEF Finish
<1> QED BY <1>3, <1>4

\* A replay goes straight to the closing only where the operation is finished.
LEMMA Closed_replay_dead_letter ==
    ASSUME TypeInv, ClosedInv, NEW w \in Workers, replay_dead_letter(w)
    PROVE  \A v \in Workers : task'[v].pc = "close" =>
                task[v].pc = "close" \/ outbox.last_outcome \in TERMINAL
<1> DEFINE finished == posting_ref \/ outbox.last_outcome = "rejected"
<1>1. PICK ep : Become(w, Start("replay", IF finished THEN "close" ELSE "gate", ep))
    BY DEF replay_dead_letter
<1>2. \A p : Start("replay", p, ep).pc = p
    BY DEF Start, IdleTask
<1>3. finished => outbox.last_outcome \in TERMINAL
    BY DEF ClosedInv, TERMINAL
<1>4. ~finished => Start("replay", IF finished THEN "close" ELSE "gate", ep).pc = "gate"
    BY <1>2
<1> HIDE DEF finished
<1> QED BY <1>1, <1>3, <1>4, BecomeTask
\* Every step preserves ClosedInv.
LEMMA ClosedNext == TypeInv /\ FlightInv /\ ClosedInv /\ [Next]_vars => ClosedInv'
<1> SUFFICES ASSUME TypeInv, FlightInv, ClosedInv, [Next]_vars PROVE ClosedInv'
    OBVIOUS
<1> DEFINE Replayed(letter) == letter # NULL /\ letter.replay_state = "replayed"
           Aside == \A v \in Workers : task'[v].pc = "close" => task[v].pc = "close"
<1>1. outbox.last_outcome \in TERMINAL => outbox'.last_outcome = outbox.last_outcome
    BY TerminalKept
<1>2. ASSUME posting_ref' => posting_ref \/ outbox'.last_outcome = "confirmed",
             Replayed(dlq') => Replayed(dlq),
             \A v \in Workers : task'[v].pc = "close" =>
                task[v].pc = "close" \/ outbox'.last_outcome \in TERMINAL
      PROVE  ClosedInv'
    BY <1>1, <1>2, ClosedQuiet
<1>3. ASSUME NEW w \in Workers,
             \/ AdapterPost(w) \/ ConnectFails(w) \/ AnswerUnknown(w) \/ PostRaises(w)
             \/ run_due_once(w) \/ attempt_one(w) \/ resolve_not_sent(w)
             \/ retry_or_dead_letter(w) \/ dead_letter_rejection(w) \/ close_entry(w)
             \/ reconcile_once(w) \/ get_by_operation_id(w) \/ reconcile_by_query(w)
             \/ open_item(w) \/ Crash(w)
      PROVE  Aside
    <2>1. PICK t : Become(w, t) /\ t.pc \notin {"write", "post", "close"}
        BY <1>3, StepsAside
    <2> QED BY <2>1, BecomeTask
<1>4. ASSUME NEW w \in Workers, DispatchGate(w) \/ WriteAhead(w) PROVE Aside
    <2>1. \/ Finish(w)
          \/ Goto(w, "post")
          \/ \E n : Become(w, [task[w] EXCEPT !.pc = "write", !.attempt_no = n])
        BY <1>4 DEF DispatchGate, WriteAhead
    <2>2. /\ IdleTask.pc = "idle"
          /\ [task[w] EXCEPT !.pc = "post"].pc = "post"
          /\ \A n : [task[w] EXCEPT !.pc = "write", !.attempt_no = n].pc = "write"
        BY DEF IdleTask, TypeInv, TaskFits, Task
    <2>3. ASSUME NEW t, Become(w, t), t.pc # "close" PROVE Aside
        BY <2>3, BecomeTask
    <2> HIDE DEF Aside
    <2>4. CASE Finish(w) \/ Goto(w, "post")
        BY <2>2, <2>3, <2>4 DEF Finish, Goto
    <2>5. ASSUME NEW n, Become(w, [task[w] EXCEPT !.pc = "write", !.attempt_no = n])
          PROVE  Aside
        BY <2>2, <2>3, <2>5
    <2> QED BY <2>1, <2>4, <2>5
<1>5. ASSUME NEW w \in Workers, NEW reason, NEW mark, dead_letter(reason, mark)
      PROVE  Replayed(dlq') => Replayed(dlq)
    BY <1>5 DEF dead_letter
<1>6. ASSUME NEW w \in Workers,
             \/ DispatchGate(w) \/ WriteAhead(w) \/ AdapterPost(w) \/ ConnectFails(w)
             \/ AnswerUnknown(w) \/ PostRaises(w) \/ run_due_once(w) \/ attempt_one(w)
             \/ resolve_not_sent(w) \/ retry_or_dead_letter(w)
             \/ dead_letter_rejection(w) \/ replay_dead_letter(w) \/ reconcile_once(w)
             \/ get_by_operation_id(w) \/ reconcile_by_query(w) \/ open_item(w)
             \/ Crash(w) \/ RecordOutcome(w)
      PROVE  Replayed(dlq') => Replayed(dlq)
    <2>1. CASE retry_or_dead_letter(w) \/ dead_letter_rejection(w)
        <3>1. UNCHANGED dlq \/ \E reason, mark : dead_letter(reason, mark)
            BY <2>1 DEF retry_or_dead_letter, dead_letter_rejection
        <3> QED BY <1>5, <3>1
    <2>2. CASE UNCHANGED dlq
        BY <2>2
    <2> QED BY <1>6, <2>1, <2>2 DEF DispatchGate, WriteAhead, AdapterPost,
            ConnectFails, AnswerUnknown, PostRaises, run_due_once, attempt_one,
            resolve_not_sent, replay_dead_letter, reconcile_once, get_by_operation_id,
            reconcile_by_query, open_item, Crash, RecordOutcome, rowVars
<1>7. ASSUME NEW w \in Workers, resolve_not_sent(w)
      PROVE  posting_ref' = posting_ref
    BY <1>7 DEF resolve_not_sent
<1>8. ASSUME NEW w \in Workers, reconcile_by_query(w)
      PROVE  posting_ref' => posting_ref \/ outbox'.last_outcome = "confirmed"
    <2> DEFINE settled == [outbox EXCEPT !.last_outcome = conclusion(w),
                                         !.state = "settled"]
    <2>1. \/ posting_ref' = posting_ref
          \/ /\ outbox' = settled
             /\ posting_ref' = (posting_ref \/ conclusion(w) = "confirmed")
        BY <1>8 DEF reconcile_by_query
    <2>2. settled.last_outcome = conclusion(w)
        BY DEF TypeInv, TypeOK, RowsTyped, Outbox
    <2> HIDE DEF settled
    <2> QED BY <2>1, <2>2
<1>9. ASSUME NEW w \in Workers, close_entry(w) PROVE ClosedInv'
    <2>1. outbox' = outbox /\ posting_ref' = posting_ref /\ task[w].pc = "close"
        BY <1>9 DEF close_entry
    <2>2. Aside
        BY <1>3, <1>9
    <2> QED BY <2>1, <2>2 DEF ClosedInv, ReplayedMeansTerminal
<1>10. ASSUME NEW w \in Workers, Dispatch(w) PROVE ClosedInv'
    <2>1. CASE RecordOutcome(w)
        BY <1>2, <1>6, <2>1, ClosedRecordOutcome
    <2>2. CASE \/ DispatchGate(w) \/ WriteAhead(w) \/ AdapterPost(w) \/ ConnectFails(w)
               \/ AnswerUnknown(w) \/ PostRaises(w)
        BY <1>2, <1>3, <1>4, <1>6, <2>2, OutcomeKept
    <2> QED BY <1>10, <2>1, <2>2 DEF Dispatch
<1>11. ASSUME NEW w \in Workers, RetryPass(w) PROVE ClosedInv'
    BY <1>2, <1>3, <1>6, <1>7, <1>11, OutcomeKept DEF RetryPass
<1>12. ASSUME NEW w \in Workers, ReconcilePass(w) \/ Crash(w) PROVE ClosedInv'
    BY <1>2, <1>3, <1>6, <1>8, <1>12, OutcomeKept DEF ReconcilePass
<1>13. ASSUME NEW w \in Workers, Replay(w) PROVE ClosedInv'
    <2>1. CASE replay_dead_letter(w)
        <3>1. /\ outbox'.last_outcome = outbox.last_outcome
              /\ posting_ref' = posting_ref
            BY <2>1, OutcomeKept
        <3> QED BY <1>2, <1>6, <2>1, <3>1, Closed_replay_dead_letter
    <2> QED BY <1>9, <1>13, <2>1 DEF Replay
<1>14. CASE Operator
    <2>1. PICK i \in DOMAIN recovery, p \in Operators, r \in RecoveryResolution :
            resolve_item(i, p, r)
        BY <1>14 DEF Operator
    <2> DEFINE code == IF r = "confirmed_by_evidence" THEN "confirmed" ELSE "rejected"
               intent == [outbox EXCEPT !.state = "settled", !.last_outcome = code]
    <2>2. /\ UNCHANGED <<task, dlq>>
          /\ \/ posting_ref' = posting_ref
             \/ /\ outbox' = intent
                /\ posting_ref' = (posting_ref \/ r = "confirmed_by_evidence")
        BY <2>1 DEF resolve_item
    <2>3. intent.last_outcome = code
        BY DEF TypeInv, TypeOK, RowsTyped, Outbox
    <2>4. posting_ref' => posting_ref \/ outbox'.last_outcome = "confirmed"
        <3> HIDE DEF intent
        <3> QED BY <2>2, <2>3
    <2> QED BY <1>2, <2>2, <2>4
<1>15. CASE Ledger
    <2>1. UNCHANGED <<posting_ref, dlq>>
        BY <1>15 DEF Ledger, LedgerTakes, DropRequest, rowVars
    <2>2. CASE \E n \in wire, answer \in Answers : LedgerTakes(n, answer)
        <3>1. PICK n, answer : Deliver(n, answer)
            BY <2>2 DEF LedgerTakes
        <3>2. ASSUME NEW v \in Workers, task'[v].pc = "close" PROVE task[v].pc = "close"
            <4>1. \/ task'[v] = task[v]
                  \/ task'[v] = [task[v] EXCEPT !.pc = "record", !.got = answer]
                BY <3>1 DEF Deliver
            <4> QED BY <3>2, <4>1 DEF TypeInv, TaskFits, Task
        <3> QED BY <1>2, <2>1, <3>2
    <2>3. CASE UNCHANGED task
        BY <1>2, <2>1, <2>3
    <2> QED BY <1>15, <2>2, <2>3 DEF Ledger, DropRequest
<1>16. CASE Tick \/ UNCHANGED vars
    <2>1. UNCHANGED <<posting_ref, dlq, task>>
        BY <1>16 DEF Tick, vars, rowVars
    <2> QED BY <1>2, <2>1
<1> QED BY <1>10, <1>11, <1>12, <1>13, <1>14, <1>15, <1>16 DEF Next

\* A closed dead letter is a finished operation, whoever replays it and whatever
\* settles the operation meanwhile: for any ledger, policy and number of workers.
THEOREM ClosedIsFinished == Spec => []ReplayedMeansTerminal
<1>1. Init => ClosedInv
    BY DEF Init, ClosedInv, ReplayedMeansTerminal, IdleTask
<1>2. TypeInv /\ FlightInv /\ ClosedInv /\ [Next]_vars => ClosedInv'
    BY ClosedNext
<1>3. ClosedInv => ReplayedMeansTerminal
    BY DEF ClosedInv
<1> QED BY <1>1, <1>2, <1>3, TypeInvariant, FlightInvariant, PTL DEF Spec
-------------------------------------------------------------------------------
\* A worker that is about to write its request, or that may still be let to.
Sending(w) ==
    \/ task[w].pc = "post"
    \/ task[w].pc = "write" /\ task[w].attempt_no = Len(attempts) + 1

\* A settled operation has no request to come, and a rejected one has none under way:
\* what makes a verdict true when it is given keeps it true.
SettledInv ==
    /\ VerdictTrue
    /\ outbox.last_outcome = "rejected" => wire = {}
    /\ outbox.last_outcome \in TERMINAL => \A w \in Workers : ~Sending(w)

\* A conclusion the reconciliation draws leaves the verdict true.
ConclusionSound == \A w \in Workers : reconcile_by_query(w) => SettledInv'

\* Nobody asks a ledger that cannot be asked.
NoQuery == \A w \in Workers : task[w].pc \notin {"query", "queried"}

\* Without key enforcement an attempt that may have had an effect is the newest.
LEMMA OnlyNewestLives ==
    ASSUME TypeInv, FlightInv, SerialInv
    PROVE  /\ \A n \in DOMAIN attempts :
                attempts[n].outcome \in Retryable => n \notin wire \cup Effects
           /\ \A n \in DOMAIN attempts :
                attempts[n].outcome \notin Retryable => n = Len(attempts)
           /\ \A n \in wire \cup Effects : n = Len(attempts)
           /\ \A w \in Workers : task[w].pc \in Owning =>
                /\ task[w].attempt_no = Len(attempts)
                /\ attempts[task[w].attempt_no].outcome = NULL
<1>1. /\ Len(attempts) \in Nat /\ DOMAIN attempts = 1 .. Len(attempts)
      /\ \A v \in Workers : task[v].pc \in Owning =>
            task[v].attempt_no \in 1 .. Len(attempts)
      /\ wire \subseteq 1 .. Len(attempts) /\ Effects \subseteq 1 .. Len(attempts)
    BY NumbersInRange
<1>2. \A n \in DOMAIN attempts :
            attempts[n].outcome \in Retryable => n \notin wire \cup Effects
    BY DEF FlightInv, EvidenceTruthful, Retryable
<1>3. \A n \in DOMAIN attempts : attempts[n].outcome \notin Retryable => n = Len(attempts)
    BY <1>1 DEF SerialInv, OnlyLast
<1>4. NULL \notin Retryable
    BY NullAssumption DEF Retryable, OutcomeCode
<1>5. ASSUME NEW w \in Workers, task[w].pc \in Owning
      PROVE  attempts[task[w].attempt_no].outcome = NULL
    BY <1>1, <1>5 DEF FlightInv, Owned, RowsResolved
<1> QED BY <1>1, <1>2, <1>3, <1>4, <1>5

\* Nobody is about to send once a request is under way or the books have moved.
LEMMA EffectEndsSending ==
    ASSUME TypeInv, FlightInv, SerialInv, wire \cup Effects # {}
    PROVE  \A w \in Workers : ~Sending(w)
<1>1. PICK n : n \in wire \cup Effects
    OBVIOUS
<1>2. n \in DOMAIN attempts /\ n = Len(attempts)
    BY <1>1, NumbersInRange, OnlyNewestLives
<1>3. attempts[n].outcome \notin Retryable
    BY <1>1, <1>2, OnlyNewestLives
<1>4. ASSUME NEW w \in Workers, task[w].pc = "post" PROVE FALSE
    <2>1. task[w].attempt_no = n
        BY <1>2, <1>4, OnlyNewestLives DEF Owning
    <2> QED BY <1>1, <1>4, <2>1 DEF FlightInv, Unsent
<1>5. ASSUME NEW w \in Workers, task[w].pc = "write",
             task[w].attempt_no = Len(attempts) + 1
      PROVE  FALSE
    BY <1>2, <1>3, <1>5 DEF SerialInv, WriteFresh
<1> QED BY <1>4, <1>5 DEF Sending

\* A step that gives no verdict, moves no books and starts no send.
LEMMA SettledQuiet ==
    ASSUME TypeInv, SettledInv,
           outbox'.last_outcome \in TERMINAL =>
                outbox'.last_outcome = outbox.last_outcome,
           wire' \subseteq wire, Effects' = Effects, Len(attempts') = Len(attempts),
           \A v \in Workers : task'[v].pc \in {"write", "post"} => task'[v] = task[v]
    PROVE  SettledInv'
<1>1. \A v \in Workers : Sending(v)' => Sending(v)
    BY DEF Sending
<1>2. VerdictTrue' /\ (outbox'.last_outcome = "rejected" => wire' = {})
    BY DEF SettledInv, VerdictTrue, TERMINAL
<1> QED BY <1>1, <1>2 DEF SettledInv
\* The length of the attempts where a row is replaced, and the tasks where one idles.
LEMMA SameLength ==
    ASSUME TypeInv, NEW n \in DOMAIN attempts, NEW row,
           attempts' = [attempts EXCEPT ![n] = row]
    PROVE  Len(attempts') = Len(attempts)
BY DEF TypeInv, TypeOK, RowsTyped

\* A step of one worker that leads it aside leaves no new sender.
LEMMA AsideQuiet ==
    ASSUME TypeInv, NEW w \in Workers, NEW t, Become(w, t), t.pc \notin {"write", "post"}
    PROVE  \A v \in Workers : task'[v].pc \in {"write", "post"} => task'[v] = task[v]
BY BecomeTask

\* Transaction 1 lets nobody through once a verdict is given.
LEMMA SettledDispatchGate ==
    ASSUME TypeInv, SettledInv, NEW w \in Workers, DispatchGate(w)
    PROVE  SettledInv'
<1>1. UNCHANGED <<outbox, attempts, wire, applied, partial>>
    BY DEF DispatchGate, rowVars, ledgerVars
<1>2. Effects' = Effects /\ Len(attempts') = Len(attempts)
    BY <1>1 DEF Effects
<1>3. CASE gate_permits(w)
    <2>1. outbox'.last_outcome \notin TERMINAL
        BY <1>1, <1>3 DEF gate_permits
    <2> QED BY <2>1 DEF SettledInv, VerdictTrue, TERMINAL
<1>4. CASE ~gate_permits(w)
    <2>1. Finish(w) /\ IdleTask.pc = "idle"
        BY <1>4 DEF DispatchGate, IdleTask
    <2> QED BY <1>1, <1>2, <2>1, AsideQuiet, SettledQuiet DEF Finish
<1> QED BY <1>3, <1>4

\* The insertion takes a free number, which nobody holds once a verdict is given.
LEMMA SettledWriteAhead ==
    ASSUME TypeInv, SettledInv, NEW w \in Workers, WriteAhead(w)
    PROVE  SettledInv'
<1>1. UNCHANGED <<outbox, wire, applied, partial>> /\ task[w].pc = "write"
    BY DEF WriteAhead, ledgerVars
<1>2. Effects' = Effects
    BY <1>1 DEF Effects
<1>3. CASE task[w].attempt_no \notin DOMAIN attempts
    <2>1. Sending(w)
        BY <1>1, <1>3, InsertedRow DEF Sending
    <2>2. outbox'.last_outcome \notin TERMINAL
        BY <1>1, <2>1 DEF SettledInv
    <2> QED BY <2>2 DEF SettledInv, VerdictTrue, TERMINAL
<1>4. CASE task[w].attempt_no \in DOMAIN attempts
    <2>1. Finish(w) /\ IdleTask.pc = "idle" /\ attempts' = attempts
        BY <1>4 DEF WriteAhead, IdleTask
    <2> QED BY <1>1, <1>2, <2>1, AsideQuiet, SettledQuiet DEF Finish
<1> QED BY <1>3, <1>4

\* Nobody writes the socket once a verdict is given.
LEMMA SettledAdapterPost ==
    ASSUME SettledInv, NEW w \in Workers, AdapterPost(w)
    PROVE  SettledInv' /\ outbox.last_outcome \notin TERMINAL
<1>1. outbox' = outbox /\ Sending(w)
    BY DEF AdapterPost, rowVars, Sending
<1>2. outbox'.last_outcome \notin TERMINAL
    BY <1>1 DEF SettledInv
<1> QED BY <1>1, <1>2 DEF SettledInv, VerdictTrue, TERMINAL

\* Transaction 3 gives a verdict only over the newest attempt, with nobody behind it.
LEMMA SettledRecordOutcome ==
    ASSUME TypeInv, FlightInv, SerialInv, SettledInv, NEW w \in Workers, RecordOutcome(w)
    PROVE  SettledInv'
<1> DEFINE n == task[w].attempt_no
<1>1. UNCHANGED <<wire, applied, partial>> /\ task[w].pc = "record"
    BY DEF RecordOutcome, ledgerVars
<1>2. Effects' = Effects
    BY <1>1 DEF Effects
<1>3. /\ n \in DOMAIN attempts /\ n = Len(attempts) /\ attempts[n].outcome = NULL
      /\ task[w].pc \in Owning
    BY <1>1, NumbersInRange, OnlyNewestLives DEF Owning
<1>4. CASE Finish(w) /\ UNCHANGED <<attempts, outbox>>
    <2>1. IdleTask.pc = "idle"
        BY DEF IdleTask
    <2> QED BY <1>1, <1>2, <1>4, <2>1, AsideQuiet, SettledQuiet DEF Finish
<1>5. ASSUME NEW t, Become(w, t), t.pc \in {"idle", "bury", "budget", "close"},
             attempts' = [attempts EXCEPT ![n] = recorded_attempt(w)],
             outbox' = recorded_outbox(w)
      PROVE  SettledInv'
    <2>1. outbox'.last_outcome = task[w].got
        BY <1>5 DEF recorded_outbox, TypeInv, TypeOK, RowsTyped, Outbox
    <2>2. Len(attempts') = Len(attempts)
        BY <1>3, <1>5, SameLength
    <2>3. \A v \in Workers : Sending(v)' => v # w /\ Sending(v)
        BY <1>5, <2>2, BecomeTask DEF Sending
    <2>4. CASE task[w].got = "confirmed"
        <3>1. Effects # {}
            BY <1>1, <2>4 DEF FlightInv, AnswerTrue
        <3>2. \A v \in Workers : ~Sending(v)
            BY <3>1, EffectEndsSending
        <3> QED BY <1>2, <2>1, <2>3, <2>4, <3>1, <3>2 DEF SettledInv, VerdictTrue
    <2>5. CASE task[w].got = "rejected"
        <3>1. n \notin wire \cup Effects
            BY <1>1, <2>5 DEF FlightInv, AnswerTrue, Turned
        <3>2. wire = {} /\ Effects = {}
            BY <1>3, <3>1, OnlyNewestLives
        <3>3. ASSUME NEW v \in Workers, v # w PROVE ~Sending(v)
            <4>1. CASE task[v].pc = "post"
                <5>1. task[v].pc \in Owning /\ task[v].attempt_no = n
                    BY <1>3, <4>1, OnlyNewestLives DEF Owning
                <5> QED BY <1>3, <3>3, <5>1 DEF FlightInv, Owned
            <4>2. CASE task[v].pc = "write" /\ task[v].attempt_no = Len(attempts) + 1
                <5>1. attempts[n].outcome \in Retryable
                    BY <1>3, <4>2 DEF SerialInv, WriteFresh
                <5> QED BY <1>3, <5>1, NullAssumption DEF Retryable, OutcomeCode
            <4> QED BY <4>1, <4>2 DEF Sending
        <3> QED BY <1>1, <1>2, <2>1, <2>3, <2>5, <3>2, <3>3 DEF SettledInv, VerdictTrue
    <2>6. CASE task[w].got \notin TERMINAL
        BY <2>1, <2>6 DEF SettledInv, VerdictTrue, TERMINAL
    <2> QED BY <2>4, <2>5, <2>6 DEF TERMINAL
<1> QED BY <1>4, <1>5, RecordSplit

\* An operator's judgement rests on evidence that closes every way to the books.
LEMMA Settled_resolve_item ==
    ASSUME TypeInv, FlightInv, SerialInv, SettledInv, RunnersPaused,
           NEW i \in DOMAIN recovery, NEW p \in Operators, NEW r \in RecoveryResolution,
           resolve_item(i, p, r)
    PROVE  SettledInv'
<1> DEFINE code == IF r = "confirmed_by_evidence" THEN "confirmed" ELSE "rejected"
           intent == [outbox EXCEPT !.state = "settled", !.last_outcome = code]
<1>1. UNCHANGED <<attempts, task, wire, applied, partial>> /\ Evidence(r)
    BY DEF resolve_item, ledgerVars
<1>2. Effects' = Effects /\ \A v \in Workers : Sending(v)' => Sending(v)
    BY <1>1 DEF Effects, Sending
<1>3. CASE outbox' = outbox
    BY <1>1, <1>2, <1>3 DEF SettledInv, VerdictTrue
<1>4. CASE r # "resolved_unverified" /\ outbox' = intent
    <2>1. outbox'.last_outcome = code
        BY <1>4 DEF TypeInv, TypeOK, RowsTyped, Outbox
    <2>2. CASE r = "confirmed_by_evidence"
        <3>1. Effects # {}
            BY <1>1, <2>2 DEF Evidence
        <3>2. \A v \in Workers : ~Sending(v)
            BY <3>1, EffectEndsSending
        <3> QED BY <1>1, <1>2, <2>1, <2>2, <3>1, <3>2 DEF SettledInv, VerdictTrue
    <2>3. CASE r = "rejected_by_evidence"
        <3>1. /\ Effects = {} /\ wire = {}
              /\ \A v \in Workers : task[v].pc # "post" /\ task[v].pc # "write"
            BY <1>1, <2>3 DEF Evidence
        <3> QED BY <1>1, <1>2, <2>1, <2>3, <3>1 DEF SettledInv, VerdictTrue, Sending
    <2> QED BY <1>4, <2>2, <2>3 DEF RecoveryResolution
<1> QED BY <1>3, <1>4 DEF resolve_item

\* The ledger takes requests only of operations that are not rejected.
LEMMA SettledLedgerTakes ==
    ASSUME TypeInv, SettledInv, NEW n \in wire, NEW answer \in Answers,
           LedgerTakes(n, answer)
    PROVE  SettledInv' /\ outbox.last_outcome # "rejected" /\ outbox' = outbox
<1>1. /\ UNCHANGED <<outbox, attempts>> /\ wire' \subseteq wire
      /\ applied \subseteq applied' /\ partial \subseteq partial'
    BY DEF LedgerTakes, rowVars
<1>2. outbox.last_outcome # "rejected"
    BY DEF SettledInv
<1>3. Effects # {} => Effects' # {}
    <2>1. Effects \subseteq Effects'
        BY <1>1 DEF Effects
    <2> QED BY <2>1
<1>4. ASSUME NEW v \in Workers, Sending(v)' PROVE Sending(v)
    <2>1. \/ task'[v] = task[v]
          \/ task'[v] = [task[v] EXCEPT !.pc = "record", !.got = answer]
        BY DEF LedgerTakes, Deliver
    <2>2. CASE task'[v] = [task[v] EXCEPT !.pc = "record", !.got = answer]
        <3>1. task'[v].pc = "record"
            BY <2>2 DEF TypeInv, TaskFits, Task
        <3> QED BY <1>4, <3>1 DEF Sending
    <2> QED BY <1>1, <1>4, <2>1, <2>2 DEF Sending
<1> QED BY <1>1, <1>2, <1>3, <1>4 DEF SettledInv, VerdictTrue
\* Only a ledger that can be asked is asked.
LEMMA NoQueryNext ==
    ASSUME ~queryable_by_operation_id
    PROVE  TypeInv /\ NoQuery /\ [Next]_vars => NoQuery'
<1> SUFFICES ASSUME TypeInv, NoQuery, [Next]_vars PROVE NoQuery'
    OBVIOUS
<1>1. ASSUME NEW w \in Workers, NEW t, Become(w, t), t.pc \notin {"query", "queried"}
      PROVE  NoQuery'
    BY <1>1, BecomeTask DEF NoQuery
<1>2. ASSUME NEW w \in Workers, NEW p, p \notin {"query", "queried"}, NEW n,
             \/ Finish(w) \/ Goto(w, p)
             \/ Become(w, [task[w] EXCEPT !.pc = p, !.attempt_no = n])
      PROVE  NoQuery'
    <2>1. /\ IdleTask.pc = "idle"
          /\ [task[w] EXCEPT !.pc = p].pc = p
          /\ [task[w] EXCEPT !.pc = p, !.attempt_no = n].pc = p
        BY DEF IdleTask, TypeInv, TaskFits, Task
    <2>2. CASE Finish(w)
        BY <1>1, <2>1, <2>2 DEF Finish
    <2>3. CASE Goto(w, p)
        BY <1>1, <1>2, <2>1, <2>3 DEF Goto
    <2>4. CASE Become(w, [task[w] EXCEPT !.pc = p, !.attempt_no = n])
        BY <1>1, <1>2, <2>1, <2>4
    <2> QED BY <1>2, <2>2, <2>3, <2>4
<1>3. ASSUME NEW w \in Workers,
             \/ AdapterPost(w) \/ ConnectFails(w) \/ AnswerUnknown(w) \/ PostRaises(w)
             \/ run_due_once(w) \/ attempt_one(w) \/ resolve_not_sent(w)
             \/ retry_or_dead_letter(w) \/ dead_letter_rejection(w) \/ close_entry(w)
             \/ reconcile_once(w) \/ get_by_operation_id(w) \/ reconcile_by_query(w)
             \/ open_item(w) \/ Crash(w)
      PROVE  NoQuery'
    <2>1. PICK t : /\ Become(w, t)
                   /\ t.pc \in {"query", "queried"} =>
                        queryable_by_operation_id \/ task[w].pc = "query"
        BY <1>3, StepsAside
    <2> QED BY <1>1, <2>1 DEF NoQuery
<1>4. ASSUME NEW w \in Workers, DispatchGate(w) \/ WriteAhead(w) PROVE NoQuery'
    <2>1. \/ Finish(w) \/ Goto(w, "post")
          \/ \E n : Become(w, [task[w] EXCEPT !.pc = "write", !.attempt_no = n])
        BY <1>4 DEF DispatchGate, WriteAhead
    <2>2. "post" \notin {"query", "queried"} /\ "write" \notin {"query", "queried"}
        OBVIOUS
    <2> QED BY <1>2, <2>1, <2>2
<1>5. ASSUME NEW w \in Workers, RecordOutcome(w) PROVE NoQuery'
    <2>1. \/ Finish(w)
          \/ \E t : Become(w, t) /\ t.pc \in {"idle", "bury", "budget", "close"}
        BY <1>5, RecordSplit
    <2>2. IdleTask.pc = "idle"
        BY DEF IdleTask
    <2> QED BY <1>1, <2>1, <2>2 DEF Finish
<1>6. ASSUME NEW w \in Workers, replay_dead_letter(w) PROVE NoQuery'
    <2>1. PICK p \in {"close", "gate"} : \E ep : Become(w, Start("replay", p, ep))
        BY <1>6 DEF replay_dead_letter
    <2>2. \A ep : Start("replay", p, ep).pc = p
        BY DEF Start, IdleTask
    <2> QED BY <1>1, <2>1, <2>2
<1>7. CASE \E n \in wire, answer \in Answers : LedgerTakes(n, answer)
    <2>1. PICK n, answer : Deliver(n, answer)
        BY <1>7 DEF LedgerTakes
    <2>2. ASSUME NEW v \in Workers PROVE task'[v].pc \notin {"query", "queried"}
        <3>1. \/ task'[v] = task[v]
              \/ task'[v] = [task[v] EXCEPT !.pc = "record", !.got = answer]
            BY <2>1 DEF Deliver
        <3> QED BY <3>1 DEF NoQuery, TypeInv, TaskFits, Task
    <2> QED BY <2>2 DEF NoQuery
<1>8. CASE UNCHANGED task
    BY <1>8 DEF NoQuery
<1>9. ASSUME NEW w \in Workers,
             Dispatch(w) \/ RetryPass(w) \/ Replay(w) \/ ReconcilePass(w) \/ Crash(w)
      PROVE  NoQuery'
    BY <1>3, <1>4, <1>5, <1>6, <1>9 DEF Dispatch, RetryPass, Replay, ReconcilePass
<1> QED BY <1>7, <1>8, <1>9 DEF Next, Operator, resolve_item, Ledger, DropRequest, Tick,
        vars

\* Where nobody asks, nothing is concluded.
LEMMA NoQueryConcludes == NoQuery => ConclusionSound
BY DEF NoQuery, ConclusionSound, reconcile_by_query

\* What a step does to books and verdict: it keeps SettledInv; where it writes the
\* socket no verdict is given; and it moves the books or the verdict, not both.
LEMMA SettledNext ==
    ASSUME ~suppresses_duplicates, RunnersPaused
    PROVE  /\ TypeInv /\ FlightInv /\ SerialInv /\ SettledInv
              /\ [Next]_vars /\ ConclusionSound
                => /\ SettledInv'
                   /\ ~(wire' \subseteq wire) => outbox.last_outcome \notin TERMINAL
                   /\ \/ Effects' = Effects
                      \/ Ledger /\ outbox' = outbox
<1> SUFFICES ASSUME TypeInv, FlightInv, SerialInv, SettledInv, [Next]_vars,
                    ConclusionSound
             PROVE  /\ SettledInv'
                    /\ ~(wire' \subseteq wire) => outbox.last_outcome \notin TERMINAL
                    /\ \/ Effects' = Effects
                       \/ Ledger /\ outbox' = outbox
    OBVIOUS
<1> DEFINE Kept == /\ SettledInv'
                   /\ ~(wire' \subseteq wire) => outbox.last_outcome \notin TERMINAL
                   /\ \/ Effects' = Effects
                      \/ Ledger /\ outbox' = outbox
<1>1. ASSUME UNCHANGED <<wire, applied, partial>> PROVE SettledInv' => Kept
    BY <1>1 DEF Effects
<1>2. ASSUME NEW w \in Workers,
             \/ ConnectFails(w) \/ AnswerUnknown(w) \/ PostRaises(w) \/ run_due_once(w)
             \/ attempt_one(w) \/ resolve_not_sent(w) \/ retry_or_dead_letter(w)
             \/ dead_letter_rejection(w) \/ close_entry(w) \/ reconcile_once(w)
             \/ get_by_operation_id(w) \/ open_item(w) \/ Crash(w)
             \/ replay_dead_letter(w)
      PROVE  Kept
    <2>1. UNCHANGED <<wire, applied, partial>>
        BY <1>2 DEF ConnectFails, AnswerUnknown, PostRaises, run_due_once, attempt_one,
            resolve_not_sent, retry_or_dead_letter, dead_letter_rejection, close_entry,
            reconcile_once, get_by_operation_id, open_item, Crash, replay_dead_letter,
            ledgerVars
    <2>2. /\ outbox'.last_outcome \in TERMINAL =>
                outbox'.last_outcome = outbox.last_outcome
          /\ Len(attempts') = Len(attempts)
        <3>1. CASE resolve_not_sent(w)
            <4>1. CASE \E row : /\ task[w].attempt_no \in DOMAIN attempts
                                /\ attempts' = [attempts EXCEPT ![task[w].attempt_no] = row]
                                /\ outbox' = [outbox EXCEPT !.last_outcome = "not_sent",
                                        !.attempt_count = MaxOf(@, task[w].attempt_no)]
                <5>1. outbox'.last_outcome = "not_sent"
                    BY <4>1 DEF TypeInv, TypeOK, RowsTyped, Outbox
                <5> QED BY <4>1, <5>1, SameLength DEF TERMINAL
            <4> QED BY <3>1, <4>1, NotSentSplit
        <3>2. CASE ~resolve_not_sent(w)
            <4>1. attempts' = attempts
                BY <1>2, <3>2 DEF ConnectFails, AnswerUnknown, PostRaises, run_due_once,
                    attempt_one, retry_or_dead_letter, dead_letter_rejection,
                    close_entry, reconcile_once, get_by_operation_id, open_item, Crash,
                    replay_dead_letter, rowVars
            <4> QED BY <1>2, <3>2, <4>1, OutcomeKept
        <3> QED BY <3>1, <3>2
    <2>3. \A v \in Workers : task'[v].pc \in {"write", "post"} => task'[v] = task[v]
        <3>1. CASE replay_dead_letter(w)
            <4>1. PICK p \in {"close", "gate"} : \E ep : Become(w, Start("replay", p, ep))
                BY <3>1 DEF replay_dead_letter
            <4>2. \A ep : Start("replay", p, ep).pc = p
                BY DEF Start, IdleTask
            <4> QED BY <4>1, <4>2, AsideQuiet
        <3>2. CASE ~replay_dead_letter(w)
            <4>1. PICK t : Become(w, t) /\ t.pc \notin {"write", "post", "close"}
                BY <1>2, <3>2, StepsAside
            <4> QED BY <4>1, AsideQuiet
        <3> QED BY <3>1, <3>2
    <2>4. Effects' = Effects
        BY <2>1 DEF Effects
    <2>5. SettledInv'
        BY <2>1, <2>2, <2>3, <2>4, SettledQuiet
    <2> QED BY <1>1, <2>1, <2>5
<1>3. ASSUME NEW w \in Workers, DispatchGate(w) \/ WriteAhead(w) \/ RecordOutcome(w)
      PROVE  Kept
    <2>1. UNCHANGED <<wire, applied, partial>>
        BY <1>3 DEF DispatchGate, WriteAhead, RecordOutcome, ledgerVars
    <2>2. SettledInv'
        BY <1>3, SettledDispatchGate, SettledWriteAhead, SettledRecordOutcome
    <2> QED BY <1>1, <2>1, <2>2
<1>4. ASSUME NEW w \in Workers, AdapterPost(w) PROVE Kept
    <2>1. UNCHANGED <<applied, partial>>
        BY <1>4 DEF AdapterPost
    <2> QED BY <1>4, <2>1, SettledAdapterPost DEF Effects
<1>5. ASSUME NEW w \in Workers, reconcile_by_query(w) PROVE Kept
    <2>1. UNCHANGED <<wire, applied, partial>>
        BY <1>5 DEF reconcile_by_query, ledgerVars
    <2> QED BY <1>1, <1>5, <2>1 DEF ConclusionSound
<1>6. CASE Operator
    <2>1. PICK i \in DOMAIN recovery, p \in Operators, r \in RecoveryResolution :
            resolve_item(i, p, r)
        BY <1>6 DEF Operator
    <2>2. UNCHANGED <<wire, applied, partial>>
        BY <2>1 DEF resolve_item, ledgerVars
    <2>3. SettledInv'
        BY <2>1, Settled_resolve_item
    <2> QED BY <1>1, <2>2, <2>3
<1>7. CASE \E n \in wire, answer \in Answers : LedgerTakes(n, answer)
    <2>1. SettledInv' /\ outbox' = outbox
        BY <1>7, SettledLedgerTakes
    <2>2. wire' \subseteq wire /\ Ledger
        BY <1>7 DEF LedgerTakes, Ledger
    <2> QED BY <2>1, <2>2
<1>8. ASSUME UNCHANGED <<outbox, attempts, task, applied, partial>>, wire' \subseteq wire
      PROVE  Kept
    <2>1. Effects' = Effects
        BY <1>8 DEF Effects
    <2> QED BY <1>8, <2>1, SettledQuiet
<1>9. CASE (\E n \in wire : DropRequest(n)) \/ Tick \/ UNCHANGED vars
    BY <1>8, <1>9 DEF DropRequest, Tick, vars, rowVars, ledgerVars
<1>10. ASSUME NEW w \in Workers,
              Dispatch(w) \/ RetryPass(w) \/ Replay(w) \/ ReconcilePass(w) \/ Crash(w)
       PROVE  Kept
    BY <1>2, <1>3, <1>4, <1>5, <1>10 DEF Dispatch, RetryPass, Replay, ReconcilePass
<1>11. CASE Ledger
    BY <1>7, <1>9, <1>11 DEF Ledger
<1>12. CASE \E w \in Workers : \/ Dispatch(w) \/ RetryPass(w) \/ Replay(w)
                               \/ ReconcilePass(w) \/ Crash(w)
    BY <1>10, <1>12
<1> QED BY <1>6, <1>9, <1>11, <1>12 DEF Next
\* Initially nothing is settled and nobody asks.
LEMMA SettledInit == Init => NoQuery /\ SettledInv
<1> SUFFICES ASSUME Init PROVE NoQuery /\ SettledInv
    OBVIOUS
<1>1. outbox.last_outcome = NULL /\ NULL \notin OutcomeCode
    BY NullAssumption DEF Init
<1>2. \A w \in Workers : task[w].pc = "idle"
    BY DEF Init, IdleTask
<1> QED BY <1>1, <1>2 DEF NoQuery, SettledInv, VerdictTrue, OutcomeCode, TERMINAL

\* A verdict given against a ledger that proves nothing stays safe: nobody is left who
\* could move the books (SettledInv above).
THEOREM SettledInvariant ==
    ASSUME ~suppresses_duplicates, ~queryable_by_operation_id, RunnersPaused
    PROVE  Spec => [](NoQuery /\ SettledInv)
<1>1. TypeInv /\ NoQuery /\ [Next]_vars => NoQuery'
    BY NoQueryNext
<1>2. TypeInv /\ FlightInv /\ SerialInv /\ NoQuery /\ SettledInv /\ [Next]_vars
        => SettledInv'
    BY SettledNext, NoQueryConcludes
<1>3. Spec => []SerialInv
    BY SerialInvariant
<1> QED BY <1>1, <1>2, <1>3, SettledInit, TypeInvariant, FlightInvariant, PTL DEF Spec

\* Against a ledger that proves nothing the recorded verdict is the truth about the
\* books, then and ever after, provided operators judge with the runners paused.
THEOREM VerdictIsTrue ==
    ASSUME ~suppresses_duplicates, ~queryable_by_operation_id, RunnersPaused
    PROVE  Spec => []VerdictTrue
<1>1. Spec => [](NoQuery /\ SettledInv)
    BY SettledInvariant
<1>2. SettledInv => VerdictTrue
    BY DEF SettledInv
<1> QED BY <1>1, <1>2, PTL

\* Against such a ledger no request is written for an operation already settled,
\* although the check was made two transactions earlier.
THEOREM NothingSentOnceSettled ==
    ASSUME ~suppresses_duplicates, ~queryable_by_operation_id, RunnersPaused
    PROVE  Spec => NoSendOfSettled
<1>1. Spec => [](NoQuery /\ SettledInv)
    BY SettledInvariant
<1>2. TypeInv /\ FlightInv /\ SerialInv /\ NoQuery /\ SettledInv /\ [Next]_vars =>
        [wire' \ wire # {} => outbox.last_outcome \notin TERMINAL]_vars
    <2>1. wire' \ wire # {} => ~(wire' \subseteq wire)
        OBVIOUS
    <2> QED BY <2>1, SettledNext, NoQueryConcludes
<1>3. Spec => []SerialInv
    BY SerialInvariant
<1> QED BY <1>1, <1>2, <1>3, TypeInvariant, FlightInvariant, PTL
        DEF Spec, NoSendOfSettled

-------------------------------------------------------------------------------
\* A request the ledger takes is the first to move the books.
LEMMA FirstEffect ==
    ASSUME TypeInv, FlightInv, SerialInv, NEW n \in wire, NEW answer \in Answers,
           LedgerTakes(n, answer), Effects' # Effects
    PROVE  Effects = {} /\ Effects' # {} /\ \A k, m \in Effects' : k = m
<1>1. n = Len(attempts) /\ \A m \in Effects : m = Len(attempts)
    BY OnlyNewestLives
<1>2. Effects = {}
    BY <1>1 DEF FlightInv, RequestOnce
<1>3. Effects' \subseteq {n}
    <2> DEFINE posting == [no |-> n, at |-> clock, endpoint |-> attempts[n].endpoint]
    <2>1. /\ applied' \subseteq applied \cup {posting}
          /\ partial' \subseteq partial \cup {n}
        BY DEF LedgerTakes
    <2>2. posting.no = n
        OBVIOUS
    <2> HIDE DEF posting
    <2>3. Effects' \subseteq Effects \cup {n}
        BY <2>1, <2>2 DEF Effects
    <2> QED BY <1>2, <2>3
<1> QED BY <1>2, <1>3

\* Every step of the control plane is one of the promise, or none.
LEMMA PromiseStep ==
    ASSUME ~suppresses_duplicates, RunnersPaused
    PROVE  /\ TypeInv /\ FlightInv /\ SerialInv /\ SettledInv /\ [Next]_vars
              /\ ConclusionSound
            => [Promise!Apply \/ Promise!Confirm \/ Promise!Reject]_<<Effects, verdict>>
<1> SUFFICES ASSUME TypeInv, FlightInv, SerialInv, SettledInv, [Next]_vars,
                    ConclusionSound
             PROVE  \/ Promise!Apply \/ Promise!Confirm \/ Promise!Reject
                    \/ Effects' = Effects /\ verdict' = verdict
    OBVIOUS
<1>1. SettledInv' /\ (Effects' = Effects \/ (Ledger /\ outbox' = outbox))
    BY SettledNext
<1>2. NULL \notin TERMINAL
    BY NullAssumption DEF TERMINAL, OutcomeCode
<1>3. outbox.last_outcome \in TERMINAL => outbox'.last_outcome = outbox.last_outcome
    BY TerminalKept
<1>4. CASE Effects' # Effects
    <2>1. verdict' = verdict /\ Ledger
        BY <1>1, <1>4 DEF verdict
    <2>2. PICK n \in wire, answer \in Answers : LedgerTakes(n, answer)
        BY <1>4, <2>1 DEF Ledger, DropRequest, Effects
    <2>3. outbox.last_outcome # "rejected"
        BY <2>2, SettledLedgerTakes
    <2>4. verdict # "rejected"
        BY <2>3, NullAssumption DEF verdict, OutcomeCode
    <2>5. Effects = {} /\ Effects' # {} /\ \A k, m \in Effects' : k = m
        BY <1>4, <2>2, FirstEffect
    <2> QED BY <2>1, <2>4, <2>5 DEF Promise!Apply
<1>5. CASE Effects' = Effects /\ verdict' # verdict
    <2>1. /\ verdict = NULL
          /\ outbox'.last_outcome \in TERMINAL /\ verdict' = outbox'.last_outcome
        BY <1>3, <1>5 DEF verdict
    <2>2. CASE outbox'.last_outcome = "confirmed"
        <3>1. Effects # {}
            BY <1>1, <1>5, <2>2 DEF SettledInv, VerdictTrue
        <3> QED BY <1>5, <2>1, <2>2, <3>1 DEF Promise!Confirm
    <2>3. CASE outbox'.last_outcome = "rejected"
        <3>1. Effects = {}
            BY <1>1, <1>5, <2>3 DEF SettledInv, VerdictTrue
        <3> QED BY <1>5, <2>1, <2>3, <3>1 DEF Promise!Reject
    <2> QED BY <2>1, <2>2, <2>3 DEF TERMINAL
<1> QED BY <1>4, <1>5

\* Against a ledger that proves nothing the control plane implements PostingOnce: one
\* effect, one verdict, true and final, for any number of workers, replays, crashes
\* and lost answers.
THEOREM PostsOnce ==
    ASSUME ~suppresses_duplicates, ~queryable_by_operation_id, RunnersPaused
    PROVE  Spec => ImplementsPostingOnce
<1>1. Init => Promise!PostInit
    <2> SUFFICES ASSUME Init PROVE Effects = {} /\ verdict = NULL
        BY DEF Promise!PostInit
    <2> QED BY DEF Init, Effects, verdict
<1>2. TypeInv /\ FlightInv /\ SerialInv /\ NoQuery /\ SettledInv /\ [Next]_vars
        => [Promise!Apply \/ Promise!Confirm \/ Promise!Reject]_<<Effects, verdict>>
    BY PromiseStep, NoQueryConcludes
<1>3. Spec => []SerialInv
    BY SerialInvariant
<1>4. Spec => [](NoQuery /\ SettledInv)
    BY SettledInvariant
<1> QED BY <1>1, <1>2, <1>3, <1>4, TypeInvariant, FlightInvariant, PTL
        DEF Spec, ImplementsPostingOnce, Promise!PostSpec

-------------------------------------------------------------------------------
\* What a worker has read of the clock is past, and what it read before a send is
\* recent: the write-ahead row is dated with it.
ClockRead ==
    \A w \in Workers :
        /\ task[w].now <= clock
        /\ task[w].pc \in {"claimed", "gate", "write", "post"} =>
                clock - task[w].now <= MaxStall
        /\ task[w].pc = "post" => attempts[task[w].attempt_no].sent_at = task[w].now

\* A request is under way, or moved the books whole, inside the in-flight window of
\* the time recorded for it.
LandsInWindow ==
    /\ \A n \in wire : clock - attempts[n].sent_at < Caps.max_inflight_window
    /\ \A a \in applied : a.at - attempts[a.no].sent_at < Caps.max_inflight_window
    /\ partial = {}

\* What the ledger has answered: a posting found stays, and one not found was too young
\* to be visible when the pass read the clock, or came later.
AnswersStand ==
    \A w \in Workers : task[w].pc = "queried" =>
        /\ task[w].got = "found" => Effects # {}
        /\ task[w].got = "not_found" =>
            \A a \in applied : \/ task[w].now - a.at < visibility_bound_of
                               \/ task[w].now <= a.at

QueryInv == ClockRead /\ LandsInWindow /\ AnswersStand

\* Where the steps of a worker lead it, with the clock each place keeps.
Moves(w, t) ==
    \/ t = IdleTask
    \/ t.now = clock /\ t.pc \in {"claimed", "gate", "close", "recover"}
    \/ /\ t.now = clock /\ t.pc = "query"
       /\ attempts # <<>> /\ t.last_sent_at = last_sent_at
    \/ t.now = task[w].now /\ t.pc \in {"await", "bury", "budget", "close", "recover"}
    \/ t.now = task[w].now /\ t.pc = "record" /\ t.got = "unknown"
    \/ t.now = task[w].now /\ t.pc = "not_sent" /\ MayFailToConnect
    \/ t.now = task[w].now /\ t.pc = "gate" /\ task[w].pc = "claimed"
    \/ t.now = task[w].now /\ t.pc = "write" /\ task[w].pc = "gate"
    \/ /\ t.now = task[w].now /\ t.pc = "post" /\ t.attempt_no = task[w].attempt_no
       /\ WriteAhead(w) /\ task[w].attempt_no \notin DOMAIN attempts
    \/ /\ t.now = task[w].now /\ t.pc = "queried" /\ t.got \in QueryAnswers
       /\ task[w].pc = "query" /\ t.last_sent_at = task[w].last_sent_at

LEMMA EveryMove ==
    ASSUME TypeInv, NEW w \in Workers,
           Dispatch(w) \/ RetryPass(w) \/ Replay(w) \/ ReconcilePass(w) \/ Crash(w)
    PROVE  \E t : Become(w, t) /\ Moves(w, t)
<1> DEFINE Ended == {"await", "bury", "budget", "close", "recover"}
           Kept(p, x, n, r) ==
                \/ Become(w, [task[w] EXCEPT !.pc = p])
                \/ Become(w, [task[w] EXCEPT !.pc = p, !.got = x])
                \/ Become(w, [task[w] EXCEPT !.pc = p, !.reason = r])
                \/ Become(w, [task[w] EXCEPT !.pc = p, !.attempt_no = n, !.got = x])
           Moved == \E t : Become(w, t) /\ Moves(w, t)
<1> SUFFICES Moved
    OBVIOUS
<1>1. ASSUME NEW t, Become(w, t), Moves(w, t) PROVE Moved
    BY <1>1
<1>2. ASSUME NEW p, NEW x, NEW n, NEW r
      PROVE  /\ [task[w] EXCEPT !.pc = p].pc = p
             /\ [task[w] EXCEPT !.pc = p, !.got = x].pc = p
             /\ [task[w] EXCEPT !.pc = p, !.reason = r].pc = p
             /\ [task[w] EXCEPT !.pc = p, !.attempt_no = n, !.got = x].pc = p
             /\ [task[w] EXCEPT !.pc = p].now = task[w].now
             /\ [task[w] EXCEPT !.pc = p, !.got = x].now = task[w].now
             /\ [task[w] EXCEPT !.pc = p, !.reason = r].now = task[w].now
             /\ [task[w] EXCEPT !.pc = p, !.attempt_no = n, !.got = x].now = task[w].now
    BY DEF TypeInv, TaskFits, Task
<1>3. ASSUME NEW p \in Ended, NEW x, NEW n, NEW r, Kept(p, x, n, r) PROVE Moved
    <2>1. ASSUME NEW t, Become(w, t), t.pc = p, t.now = task[w].now PROVE Moved
        BY <1>1, <2>1 DEF Moves
    <2> DEFINE t1 == [task[w] EXCEPT !.pc = p]
               t2 == [task[w] EXCEPT !.pc = p, !.got = x]
               t3 == [task[w] EXCEPT !.pc = p, !.reason = r]
               t4 == [task[w] EXCEPT !.pc = p, !.attempt_no = n, !.got = x]
    <2>2. /\ t1.pc = p /\ t1.now = task[w].now /\ t2.pc = p /\ t2.now = task[w].now
          /\ t3.pc = p /\ t3.now = task[w].now /\ t4.pc = p /\ t4.now = task[w].now
        BY <1>2
    <2>3. Become(w, t1) \/ Become(w, t2) \/ Become(w, t3) \/ Become(w, t4)
        BY <1>3
    <2> HIDE DEF Moved, t1, t2, t3, t4
    <2> QED BY <2>1, <2>2, <2>3
<1>4. CASE Finish(w)
    BY <1>1, <1>4 DEF Finish, Moves
<1> HIDE DEF Moved
<1>5. CASE DispatchGate(w)
    <2>1. task[w].pc = "gate"
        BY <1>5 DEF DispatchGate
    <2> DEFINE Gated(n) == Become(w, [task[w] EXCEPT !.pc = "write", !.attempt_no = n])
    <2>2. ASSUME NEW n, Gated(n) PROVE Moved
        <3> DEFINE t == [task[w] EXCEPT !.pc = "write", !.attempt_no = n]
        <3>1. t.pc = "write" /\ t.now = task[w].now
            BY DEF TypeInv, TaskFits, Task
        <3>2. Become(w, t)
            BY <2>2
        <3> HIDE DEF t
        <3> QED BY <1>1, <2>1, <3>1, <3>2 DEF Moves
    <2>3. Finish(w) \/ \E n : Gated(n)
        BY <1>5 DEF DispatchGate
    <2> HIDE DEF Gated
    <2> QED BY <1>4, <2>2, <2>3
<1>6. CASE WriteAhead(w)
    <2>1. CASE task[w].attempt_no \notin DOMAIN attempts
        <3> DEFINE t == [task[w] EXCEPT !.pc = "post"]
        <3>1. /\ Become(w, t) /\ t.pc = "post" /\ t.now = task[w].now
              /\ t.attempt_no = task[w].attempt_no
            BY <1>6, <2>1 DEF WriteAhead, Goto, TypeInv, TaskFits, Task
        <3> HIDE DEF t
        <3> QED BY <1>1, <1>6, <2>1, <3>1 DEF Moves
    <2>2. CASE task[w].attempt_no \in DOMAIN attempts
        BY <1>4, <1>6, <2>2 DEF WriteAhead
    <2> QED BY <2>1, <2>2
<1>7. CASE attempt_one(w)
    <2>1. task[w].pc = "claimed" /\ (Finish(w) \/ Goto(w, "gate"))
        BY <1>7 DEF attempt_one
    <2>2. CASE Goto(w, "gate")
        <3> DEFINE t == [task[w] EXCEPT !.pc = "gate"]
        <3>1. Become(w, t) /\ t.pc = "gate" /\ t.now = task[w].now
            BY <2>2 DEF Goto, TypeInv, TaskFits, Task
        <3> HIDE DEF t
        <3> QED BY <1>1, <2>1, <3>1 DEF Moves
    <2> QED BY <1>4, <2>1, <2>2
<1>8. CASE run_due_once(w) \/ replay_dead_letter(w)
    <2>1. \E p \in {"claimed", "close", "gate"} : \E j, ep : Become(w, Start(j, p, ep))
        BY <1>8 DEF run_due_once, replay_dead_letter
    <2>2. \A j, p, ep : Start(j, p, ep).pc = p /\ Start(j, p, ep).now = clock
        BY DEF Start, IdleTask
    <2> QED BY <1>1, <2>1, <2>2 DEF Moves
<1>9. CASE reconcile_once(w)
    <2>1. PICK ep : Become(w, branch(ep))
        BY <1>9 DEF reconcile_once
    <2>2. /\ branch(ep).now = clock
          /\ branch(ep).pc \in {"query", "gate", "recover"}
          /\ branch(ep).pc = "query" => branch(ep).last_sent_at = last_sent_at
        BY DEF branch, Start, IdleTask
    <2>3. attempts # <<>>
        BY <1>9 DEF reconcile_once
    <2> QED BY <1>1, <2>1, <2>2, <2>3 DEF Moves
<1>10. CASE get_by_operation_id(w)
    <2>1. PICK x \in QueryAnswers : Become(w, [task[w] EXCEPT !.pc = "queried", !.got = x])
        BY <1>10 DEF get_by_operation_id
    <2> DEFINE t == [task[w] EXCEPT !.pc = "queried", !.got = x]
    <2>2. /\ t.pc = "queried" /\ t.now = task[w].now /\ t.got = x
          /\ t.last_sent_at = task[w].last_sent_at /\ task[w].pc = "query"
        BY <1>10 DEF get_by_operation_id, TypeInv, TaskFits, Task
    <2> HIDE DEF t
    <2> QED BY <1>1, <2>1, <2>2 DEF Moves, t
<1>11. CASE AnswerUnknown(w)
    <2> DEFINE t == [task[w] EXCEPT !.pc = "record", !.got = "unknown"]
    <2>1. Become(w, t)
        BY <1>11 DEF AnswerUnknown
    <2>2. t.pc = "record" /\ t.now = task[w].now /\ t.got = "unknown"
        BY DEF TypeInv, TaskFits, Task
    <2> HIDE DEF t
    <2> QED BY <1>1, <2>1, <2>2 DEF Moves
<1>12. CASE ConnectFails(w)
    <2>1. MayFailToConnect /\ (Finish(w) \/ Goto(w, "not_sent"))
        BY <1>12 DEF ConnectFails
    <2>2. CASE Goto(w, "not_sent")
        <3> DEFINE t == [task[w] EXCEPT !.pc = "not_sent"]
        <3>1. Become(w, t) /\ t.pc = "not_sent" /\ t.now = task[w].now
            BY <2>2 DEF Goto, TypeInv, TaskFits, Task
        <3> HIDE DEF t
        <3> QED BY <1>1, <2>1, <3>1 DEF Moves
    <2> QED BY <1>4, <2>1, <2>2
<1>13. CASE \/ AdapterPost(w) \/ PostRaises(w) \/ RecordOutcome(w)
            \/ resolve_not_sent(w) \/ retry_or_dead_letter(w) \/ dead_letter_rejection(w)
            \/ close_entry(w) \/ reconcile_by_query(w) \/ open_item(w) \/ Crash(w)
    <2>1. Finish(w) \/ \E p \in Ended : \E x, n, r : Kept(p, x, n, r)
        <3>1. CASE RecordOutcome(w)
            <4>1. after_outcome(task[w].job, task[w].got) \in {"idle", "bury", "budget", "close"}
                BY Zenon DEF after_outcome
            <4> QED BY <3>1, <4>1 DEF RecordOutcome, Goto
        <3>2. CASE ~RecordOutcome(w)
            BY <1>13, <3>2 DEF AdapterPost, PostRaises,
                resolve_not_sent, retry_or_dead_letter, dead_letter_rejection, close_entry,
                reconcile_by_query, open_item, Crash, Goto, Finish
        <3> QED BY <3>1, <3>2
    <2> HIDE DEF Ended, Kept
    <2> QED BY <1>3, <1>4, <2>1
<1> QED BY <1>5, <1>6, <1>7, <1>8, <1>9, <1>10, <1>11, <1>12, <1>13
       DEF Dispatch, RetryPass, Replay, ReconcilePass

\* The windows an adapter declares are numbers.
LEMMA WindowsTyped == Caps.max_inflight_window \in Nat /\ visibility_bound_of \in Nat
<1>1. Caps \in LedgerAdapterCapabilities
    BY CapabilityAssumption DEF Caps, effective_capabilities, LedgerAdapterCapabilities,
        IdempotencyMode, PostingQueryMode
<1> QED BY <1>1 DEF visibility_bound_of, LedgerAdapterCapabilities

\* The instants that are compared are numbers.
LEMMA InstantsTyped ==
    ASSUME TypeInv
    PROVE  /\ clock \in Nat /\ MaxStall \in Nat
           /\ \A w \in Workers : task[w].now \in Nat
           /\ \A n \in DOMAIN attempts : attempts[n].sent_at \in Nat
           /\ \A a \in applied : a.at \in Nat /\ a.no \in DOMAIN attempts
<1>1. clock \in Nat /\ MaxStall \in Nat
    BY LedgerAssumption, ModelAssumption DEF TypeInv, TypeOK, LedgerTyped, Time
<1>2. \A w \in Workers : task[w].now \in Nat
    BY ModelAssumption DEF TypeInv, TaskFits, Task, Time
<1>3. ASSUME NEW n \in DOMAIN attempts PROVE attempts[n].sent_at \in Nat
    <2>1. attempts[n] \in PostingAttempt
        BY DEF TypeInv, TypeOK, RowsTyped
    <2> QED BY <2>1, ModelAssumption DEF PostingAttempt, Time
<1>4. \A a \in applied : a.at \in Nat /\ a.no \in DOMAIN attempts
    BY ModelAssumption DEF TypeInv, TypeOK, LedgerTyped, Time
<1> QED BY <1>1, <1>2, <1>3, <1>4

\* A worker's step keeps what was read of the clock.
LEMMA ClockReadMove ==
    ASSUME TypeInv, ClockRead, AttemptsKept, clock' = clock, NEW w \in Workers, NEW t,
           Become(w, t), Moves(w, t)
    PROVE  ClockRead'
<1>1. \A v \in Workers : task'[v] = IF v = w THEN t ELSE task[v]
    BY BecomeTask
<1>2. /\ clock \in Nat /\ MaxStall \in Nat
      /\ \A v \in Workers : task[v].now \in Nat
    BY InstantsTyped
<1>3. ASSUME NEW v \in Workers, task[v].pc = "post"
      PROVE  attempts'[task[v].attempt_no].sent_at = task[v].now
    <2>1. task[v].attempt_no \in DOMAIN attempts
        BY <1>3, NumbersInRange DEF Owning
    <2> QED BY <1>3, <2>1 DEF AttemptsKept, ClockRead
<1>4. /\ t.now <= clock
      /\ t.pc \in {"claimed", "gate", "write", "post"} => clock - t.now <= MaxStall
    BY <1>2 DEF Moves, ClockRead, IdleTask, WriteAhead
<1>5. ASSUME t.pc = "post" PROVE attempts'[t.attempt_no].sent_at = t.now
    <2>1. /\ t.now = task[w].now /\ t.attempt_no = task[w].attempt_no
          /\ WriteAhead(w) /\ task[w].attempt_no \notin DOMAIN attempts
        BY <1>5 DEF Moves, IdleTask
    <2>2. attempts'[task[w].attempt_no] = written_row(w)
        BY <2>1, InsertedRow
    <2> QED BY <2>1, <2>2 DEF written_row
<1> QED BY <1>1, <1>3, <1>4, <1>5 DEF ClockRead

\* Every step keeps what was read of the clock.
LEMMA ClockReadNext == TypeInv /\ FlightInv /\ ClockRead /\ [Next]_vars => ClockRead'
<1> SUFFICES ASSUME TypeInv, FlightInv, ClockRead, [Next]_vars PROVE ClockRead'
    OBVIOUS
<1>1. AttemptsKept
    BY AttemptsKeptNext
<1>2. ASSUME NEW w \in Workers,
             Dispatch(w) \/ RetryPass(w) \/ Replay(w) \/ ReconcilePass(w) \/ Crash(w)
      PROVE  ClockRead'
    <2>1. clock' = clock
        BY <1>2 DEF Dispatch, DispatchGate, WriteAhead, AdapterPost, ConnectFails,
            AnswerUnknown, PostRaises, RecordOutcome, RetryPass, run_due_once, attempt_one,
            resolve_not_sent, retry_or_dead_letter, dead_letter_rejection, Replay,
            replay_dead_letter, close_entry, ReconcilePass, reconcile_once,
            get_by_operation_id, reconcile_by_query, open_item, Crash, ledgerVars
    <2>2. PICK t : Become(w, t) /\ Moves(w, t)
        BY <1>2, EveryMove
    <2> QED BY <1>1, <2>1, <2>2, ClockReadMove
<1>3. ASSUME NEW n \in wire, NEW answer \in Answers, LedgerTakes(n, answer)
      PROVE  ClockRead'
    <2>1. UNCHANGED <<attempts, clock>> /\ Deliver(n, answer)
        BY <1>3 DEF LedgerTakes, rowVars
    <2>2. ASSUME NEW v \in Workers
          PROVE  \/ task'[v] = task[v]
                 \/ task'[v].pc = "record" /\ task'[v].now = task[v].now
        <3>1. \/ task'[v] = task[v]
              \/ task'[v] = [task[v] EXCEPT !.pc = "record", !.got = answer]
            BY <2>1 DEF Deliver
        <3> QED BY <3>1 DEF TypeInv, TaskFits, Task
    <2> QED BY <2>1, <2>2 DEF ClockRead
<1>4. CASE Tick
    <2>1. /\ clock' = clock + 1 /\ UNCHANGED <<attempts, task>>
          /\ \A w \in Workers : task[w].pc \in {"claimed", "gate", "write", "post"}
                => clock + 1 - task[w].now <= MaxStall
        BY <1>4 DEF Tick, rowVars
    <2>2. clock \in Nat /\ \A w \in Workers : task[w].now \in Nat
        BY InstantsTyped
    <2> QED BY <2>1, <2>2 DEF ClockRead
<1>5. CASE Operator \/ (\E n \in wire : DropRequest(n)) \/ UNCHANGED vars
    <2>1. UNCHANGED <<attempts, task, clock>>
        BY <1>5 DEF Operator, resolve_item, DropRequest, vars, rowVars, ledgerVars
    <2> QED BY <2>1 DEF ClockRead
<1> QED BY <1>2, <1>3, <1>4, <1>5 DEF Next, Ledger

\* A worker's step keeps what the ledger has answered, and asks it in the present.
LEMMA AnswersMove ==
    ASSUME TypeInv, ClockRead, AnswersStand, UNCHANGED <<applied, partial>>,
           NEW w \in Workers, NEW t, Become(w, t), Moves(w, t)
    PROVE  AnswersStand'
<1>1. \A v \in Workers : task'[v] = IF v = w THEN t ELSE task[v]
    BY BecomeTask
<1>2. Effects' = Effects
    BY DEF Effects
<1>3. ASSUME t.pc = "queried"
      PROVE  /\ t.got = "found" => Effects # {}
             /\ t.got = "not_found" =>
                    \A a \in applied : t.now - a.at < visibility_bound_of \/ t.now <= a.at
    <2>1. t.got \in QueryAnswers /\ t.now = task[w].now
        BY <1>3 DEF Moves, IdleTask
    <2>2. t.now <= clock
        BY <2>1 DEF ClockRead
    <2>3. t.got = "found" => Effects # {}
        BY <2>1 DEF QueryAnswers
    <2>4. t.got = "not_found" => \A a \in applied : clock - a.at < visibility_bound_of
        BY <2>1 DEF QueryAnswers
    <2>5. ASSUME NEW a \in applied, clock - a.at < visibility_bound_of
          PROVE  t.now - a.at < visibility_bound_of
        <3>1. clock \in Nat /\ a.at \in Nat /\ t.now \in Nat /\ visibility_bound_of \in Nat
            BY <2>1, InstantsTyped, WindowsTyped
        <3> QED BY <2>2, <2>5, <3>1
    <2> QED BY <2>3, <2>4, <2>5
<1> QED BY <1>1, <1>2, <1>3 DEF AnswersStand

\* Every step keeps QueryInv, where a worker writes the socket sooner than a request
\* may land and the ledger commits a posting whole.
LEMMA QueryNext ==
    ASSUME MaxStall < Caps.max_inflight_window, "partially_applied" \notin Answers
    PROVE  TypeInv /\ FlightInv /\ QueryInv /\ [Next]_vars => QueryInv'
<1> SUFFICES ASSUME TypeInv, FlightInv, QueryInv, [Next]_vars PROVE QueryInv'
    OBVIOUS
<1>1. AttemptsKept /\ ClockRead'
    BY AttemptsKeptNext, ClockReadNext DEF QueryInv
<1>2. /\ clock \in Nat /\ MaxStall \in Nat /\ Caps.max_inflight_window \in Nat
      /\ \A w \in Workers : task[w].now \in Nat
      /\ \A n \in DOMAIN attempts : attempts[n].sent_at \in Nat
      /\ \A a \in applied : a.at \in Nat /\ a.no \in DOMAIN attempts
      /\ wire \subseteq DOMAIN attempts
    BY InstantsTyped, WindowsTyped, NumbersInRange
<1>3. \A n \in DOMAIN attempts : attempts'[n].sent_at = attempts[n].sent_at
    BY <1>1 DEF AttemptsKept
<1>4. ASSUME wire' \subseteq wire, UNCHANGED <<applied, partial, clock>>
      PROVE  LandsInWindow'
    BY <1>2, <1>3, <1>4 DEF QueryInv, LandsInWindow
<1>5. ASSUME NEW w \in Workers,
             Dispatch(w) \/ RetryPass(w) \/ Replay(w) \/ ReconcilePass(w) \/ Crash(w)
      PROVE  QueryInv'
    <2>1. UNCHANGED <<applied, partial, clock>>
        BY <1>5 DEF Dispatch, DispatchGate, WriteAhead, AdapterPost, ConnectFails,
            AnswerUnknown, PostRaises, RecordOutcome, RetryPass, run_due_once, attempt_one,
            resolve_not_sent, retry_or_dead_letter, dead_letter_rejection, Replay,
            replay_dead_letter, close_entry, ReconcilePass, reconcile_once,
            get_by_operation_id, reconcile_by_query, open_item, Crash, ledgerVars
    <2>2. AdapterPost(w) \/ wire' = wire
        BY <1>5 DEF Dispatch, DispatchGate, WriteAhead, ConnectFails,
            AnswerUnknown, PostRaises, RecordOutcome, RetryPass, run_due_once, attempt_one,
            resolve_not_sent, retry_or_dead_letter, dead_letter_rejection, Replay,
            replay_dead_letter, close_entry, ReconcilePass, reconcile_once,
            get_by_operation_id, reconcile_by_query, open_item, Crash, ledgerVars
    <2>3. PICK t : Become(w, t) /\ Moves(w, t)
        BY <1>5, EveryMove
    <2>4. ClockRead' /\ AnswersStand'
        BY <1>1, <2>1, <2>3, AnswersMove DEF QueryInv
    <2>5. CASE AdapterPost(w)
        <3> DEFINE n == task[w].attempt_no
        <3>1. task[w].pc = "post" /\ wire' = wire \cup {n}
            BY <2>5 DEF AdapterPost
        <3>2. /\ n \in DOMAIN attempts /\ attempts[n].sent_at = task[w].now
              /\ clock - task[w].now <= MaxStall
            BY <3>1, NumbersInRange DEF Owning, QueryInv, ClockRead
        <3>3. clock - attempts[n].sent_at < Caps.max_inflight_window
            BY <1>2, <3>2
        <3> HIDE DEF n
        <3>4. LandsInWindow'
            BY <1>2, <1>3, <2>1, <3>1, <3>2, <3>3 DEF QueryInv, LandsInWindow
        <3> QED BY <2>4, <3>4 DEF QueryInv
    <2>6. CASE wire' = wire
        BY <1>4, <2>1, <2>4, <2>6 DEF QueryInv
    <2> QED BY <2>2, <2>5, <2>6
<1>6. ASSUME NEW n \in wire, NEW answer \in Answers, LedgerTakes(n, answer)
      PROVE  QueryInv'
    <2> DEFINE posting == [no |-> n, at |-> clock, endpoint |-> attempts[n].endpoint]
    <2>1. /\ UNCHANGED <<attempts, clock>> /\ wire' \subseteq wire
          /\ applied \subseteq applied' /\ applied' \subseteq applied \cup {posting}
          /\ Deliver(n, answer) /\ partial' = partial
        BY <1>6 DEF LedgerTakes, rowVars
    <2>2. posting.no = n /\ posting.at = clock
        OBVIOUS
    <2> HIDE DEF posting
    <2>3. LandsInWindow'
        BY <1>2, <2>1, <2>2 DEF QueryInv, LandsInWindow
    <2>4. Effects \subseteq Effects'
        BY <2>1 DEF Effects
    <2>5. ASSUME NEW v \in Workers
          PROVE  \/ task'[v] = task[v]
                 \/ task'[v].pc = "record" /\ task'[v].now = task[v].now
        <3>1. \/ task'[v] = task[v]
              \/ task'[v] = [task[v] EXCEPT !.pc = "record", !.got = answer]
            BY <2>1 DEF Deliver
        <3> QED BY <3>1 DEF TypeInv, TaskFits, Task
    <2>7. AnswersStand'
        <3>1. ASSUME NEW v \in Workers, task'[v].pc = "queried"
              PROVE  /\ task'[v].got = "found" => Effects' # {}
                     /\ task'[v].got = "not_found" =>
                            \A a \in applied' : \/ task'[v].now - a.at < visibility_bound_of
                                                \/ task'[v].now <= a.at
            <4>1. task'[v] = task[v] /\ task[v].now <= clock
                BY <2>5, <3>1 DEF QueryInv, ClockRead
            <4> QED BY <2>1, <2>2, <2>4, <3>1, <4>1 DEF QueryInv, AnswersStand
        <3> QED BY <3>1 DEF AnswersStand
    <2> QED BY <1>1, <2>3, <2>7 DEF QueryInv
<1>7. CASE Tick
    <2>1. /\ clock' = clock + 1
          /\ UNCHANGED <<attempts, task, wire, applied, partial>>
          /\ \A n \in wire : clock + 1 - attempts[n].sent_at < Caps.max_inflight_window
          /\ \A w \in Workers : task[w].pc \in {"claimed", "gate", "write", "post"}
                => clock + 1 - task[w].now <= MaxStall
        BY <1>7 DEF Tick, rowVars, ledgerVars
    <2>2. LandsInWindow'
        BY <1>2, <2>1 DEF QueryInv, LandsInWindow
    <2>4. AnswersStand'
        BY <2>1 DEF QueryInv, AnswersStand, Effects
    <2> QED BY <1>1, <2>2, <2>4 DEF QueryInv
<1>8. ASSUME wire' \subseteq wire, UNCHANGED <<attempts, task, applied, partial, clock>>
      PROVE  QueryInv'
    <2>2. AnswersStand'
        BY <1>8 DEF QueryInv, AnswersStand, Effects
    <2> QED BY <1>1, <1>4, <1>8, <2>2 DEF QueryInv
<1>9. CASE Operator \/ (\E n \in wire : DropRequest(n)) \/ UNCHANGED vars
    BY <1>8, <1>9 DEF Operator, resolve_item, DropRequest, vars, rowVars, ledgerVars
<1> QED BY <1>5, <1>6, <1>7, <1>9 DEF Next, Ledger

-------------------------------------------------------------------------------
\* A rejection concluded from a reading that is out of date: the operation is not
\* undetermined any more, or was sent again since the pass read its last send.
StaleRejection ==
    \E w \in Workers :
        /\ reconcile_by_query(w)
        /\ outbox.last_outcome # "rejected" /\ outbox'.last_outcome = "rejected"
        /\ ~(is_ambiguous /\ task[w].last_sent_at = last_sent_at)

\* What the windows must be for the longer of the two to be enough: a sender writes the
\* socket inside the in-flight window, and a posting is visible in the tick after it
\* lands, or lands in the tick it is sent in (its lag starts when it lands and not, as
\* _answer_is_trustworthy has it, when it was sent); and a posting is committed whole.
QueryFits ==
    /\ MaxStall < Caps.max_inflight_window
    /\ visibility_bound_of <= 1 \/ Caps.max_inflight_window <= 1
    /\ "partially_applied" \notin Answers

\* The last send is the latest instant on record.
LEMMA LastSentAtLatest ==
    ASSUME TypeInv
    PROVE  \A n \in DOMAIN attempts : last_sent_at \in Nat /\ attempts[n].sent_at <= last_sent_at
<1> DEFINE S == {attempts[n].sent_at : n \in DOMAIN attempts}
<1> SUFFICES ASSUME NEW m \in DOMAIN attempts
             PROVE  last_sent_at \in Nat /\ attempts[m].sent_at <= last_sent_at
    OBVIOUS
<1>1. S \subseteq 0 .. MaxTime /\ MaxTime \in Nat
    <2>1. \A n \in DOMAIN attempts : attempts[n] \in PostingAttempt
        BY DEF TypeInv, TypeOK, RowsTyped
    <2> QED BY <2>1, ModelAssumption DEF PostingAttempt, Time
<1>2. attempts[m].sent_at \in S
    OBVIOUS
<1>3. last_sent_at = Max(S)
    <2>1. attempts # <<>>
        OBVIOUS
    <2> QED BY <2>1 DEF last_sent_at
<1> HIDE DEF S
<1>4. Max(S) \in S /\ \A s \in S : Max(S) >= s
    <2>1. S \in SUBSET (0 .. MaxTime) /\ S # {} /\ MaxTime \in Nat
        BY <1>1, <1>2
    <2> QED BY <2>1, MaxExists
<1>5. \A s \in S : s \in Nat
    BY <1>1
<1>6. Max(S) \in Nat /\ attempts[m].sent_at \in Nat
    BY <1>2, <1>4, <1>5
<1>7. Max(S) >= attempts[m].sent_at
    BY <1>2, <1>4
<1> QED BY <1>3, <1>6, <1>7

\* While an operation is undetermined nobody was let through behind its newest attempt.
LEMMA AmbiguityEndsWriting ==
    ASSUME TypeInv, FlightInv, SerialInv, is_ambiguous, outbox.last_outcome \notin TERMINAL,
           NEW n \in DOMAIN attempts
    PROVE  \A v \in Workers : ~(task[v].pc = "write" /\ task[v].attempt_no = Len(attempts) + 1)
<1> SUFFICES ASSUME NEW v \in Workers, task[v].pc = "write",
                    task[v].attempt_no = Len(attempts) + 1
             PROVE  FALSE
    OBVIOUS
<1>1. \A m \in DOMAIN attempts : attempts[m].outcome \in Retryable
    BY DEF SerialInv, WriteFresh
<1>2. Retryable \cap (AMBIGUOUS \cup {NULL}) = {}
    BY NullAssumption DEF Retryable, AMBIGUOUS, OutcomeCode
<1>3. InFlight = {}
    <2>1. ASSUME NEW m \in DOMAIN attempts, attempts[m].state = "in_flight" PROVE FALSE
        <3>1. attempts[m].outcome = NULL
            BY <2>1 DEF FlightInv, RowsResolved
        <3> QED BY <1>1, <1>2, <3>1
    <2> QED BY <2>1 DEF InFlight
<1>4. outbox.last_outcome \in AMBIGUOUS
    BY <1>3 DEF is_ambiguous
<1>5. attempts # <<>> /\ Len(attempts) \in DOMAIN attempts
    <2>1. Len(attempts) \in Nat /\ n \in 1 .. Len(attempts)
        BY NumbersInRange
    <2>2. attempts # <<>>
        OBVIOUS
    <2> QED BY <2>1, <2>2, NumbersInRange
<1>6. attempts[Len(attempts)].outcome \in Retryable
    BY <1>1, <1>5
<1>7. attempts[Len(attempts)].outcome = outbox.last_outcome
    BY <1>2, <1>5, <1>6 DEF SerialInv, LastAgrees
<1> QED BY <1>2, <1>4, <1>6, <1>7

\* A negative answer past both windows of the newest send, for an operation that is
\* still undetermined: the books have not moved and nothing is left that could move them.
LEMMA NothingIsComing ==
    ASSUME QueryFits, TypeInv, FlightInv, SerialInv, QueryInv, NEW w \in Workers,
           task[w].pc = "queried", task[w].got = "not_found",
           task[w].last_sent_at # NULL, task[w].last_sent_at = last_sent_at,
           negative_answer_is_trustworthy(task[w].last_sent_at, task[w].now),
           is_ambiguous, outbox.last_outcome \notin TERMINAL
    PROVE  Effects = {} /\ wire = {} /\ \A v \in Workers : ~Sending(v)
<1> DEFINE L == last_sent_at
<1>1. PICK m : m \in DOMAIN attempts
    <2>1. last_sent_at # NULL
        OBVIOUS
    <2>2. attempts # <<>>
        BY <2>1 DEF last_sent_at
    <2>3. attempts \in Seq(PostingAttempt) /\ DOMAIN attempts = 1 .. Len(attempts)
        BY DEF TypeInv, TypeOK, RowsTyped
    <2>4. 1 \in DOMAIN attempts
        BY <2>2, <2>3
    <2> QED BY <2>4
<1>2. L \in Nat /\ \A n \in DOMAIN attempts : attempts[n].sent_at <= L
    BY <1>1, LastSentAtLatest
<1>3. /\ task[w].now - L >= visibility_bound_of
      /\ task[w].now - L >= Caps.max_inflight_window
    BY DEF negative_answer_is_trustworthy
<1>4. /\ clock \in Nat /\ MaxStall \in Nat /\ Caps.max_inflight_window \in Nat
      /\ visibility_bound_of \in Nat
      /\ \A v \in Workers : task[v].now \in Nat
      /\ \A n \in DOMAIN attempts : attempts[n].sent_at \in Nat
      /\ \A a \in applied : a.at \in Nat /\ a.no \in DOMAIN attempts
      /\ wire \subseteq DOMAIN attempts
    BY InstantsTyped, WindowsTyped, NumbersInRange
<1> HIDE DEF L
<1>5. task[w].now <= clock
    BY DEF QueryInv, ClockRead
<1>6. wire = {}
    <2>1. ASSUME NEW n \in wire PROVE FALSE
        <3>1. clock - attempts[n].sent_at < Caps.max_inflight_window
            BY DEF QueryInv, LandsInWindow
        <3>2. attempts[n].sent_at <= L /\ attempts[n].sent_at \in Nat
            BY <1>2, <1>4
        <3> QED BY <1>2, <1>3, <1>4, <1>5, <3>1, <3>2
    <2> QED BY <2>1
<1>7. ASSUME NEW v \in Workers, task[v].pc = "post" PROVE FALSE
    <2>1. task[v].attempt_no \in DOMAIN attempts
        BY <1>7, NumbersInRange DEF Owning
    <2>2. attempts[task[v].attempt_no].sent_at = task[v].now /\ clock - task[v].now <= MaxStall
        BY <1>7 DEF QueryInv, ClockRead
    <2>3. task[v].now <= L /\ task[v].now \in Nat
        BY <1>2, <1>4, <2>1, <2>2
    <2>4. MaxStall < Caps.max_inflight_window
        BY DEF QueryFits
    <2> QED BY <1>2, <1>3, <1>4, <1>5, <2>2, <2>3, <2>4
<1>8. applied = {}
    <2>1. ASSUME NEW a \in applied PROVE FALSE
        <3>1. a.at - attempts[a.no].sent_at < Caps.max_inflight_window
            BY DEF QueryInv, LandsInWindow
        <3>2. /\ attempts[a.no].sent_at <= L /\ attempts[a.no].sent_at \in Nat
              /\ a.at \in Nat
            BY <1>2, <1>4
        <3>3. task[w].now - a.at < visibility_bound_of \/ task[w].now <= a.at
            BY DEF QueryInv, AnswersStand
        <3>4. visibility_bound_of <= 1 \/ Caps.max_inflight_window <= 1
            BY DEF QueryFits
        <3>5. task[w].now \in Nat
            BY <1>4
        <3>6. a.at < L + Caps.max_inflight_window
            BY <1>2, <1>4, <3>1, <3>2
        <3>7. task[w].now > a.at
            BY <1>2, <1>3, <1>4, <3>2, <3>5, <3>6
        <3> QED BY <1>2, <1>3, <1>4, <3>2, <3>3, <3>4, <3>5, <3>6, <3>7
    <2> QED BY <2>1
<1>9. Effects = {}
    BY <1>8 DEF Effects, QueryInv, LandsInWindow
<1>10. \A v \in Workers : ~(task[v].pc = "write" /\ task[v].attempt_no = Len(attempts) + 1)
    BY <1>1, AmbiguityEndsWriting
<1> QED BY <1>6, <1>7, <1>9, <1>10 DEF Sending

\* A conclusion drawn from a fresh reading is sound.
LEMMA FreshConclusion ==
    ASSUME QueryFits, TypeInv, FlightInv, SerialInv, SettledInv, QueryInv, ~StaleRejection
    PROVE  ConclusionSound
<1> SUFFICES ASSUME NEW w \in Workers, reconcile_by_query(w) PROVE SettledInv'
    BY DEF ConclusionSound
<1> DEFINE settled == [outbox EXCEPT !.last_outcome = conclusion(w), !.state = "settled"]
<1>1. /\ UNCHANGED <<attempts, wire, applied, partial>> /\ task[w].pc = "queried"
      /\ \/ outbox' = outbox
         \/ conclusion(w) # NULL /\ outbox' = settled /\ OutboxPermits(settled)
    BY DEF reconcile_by_query, ledgerVars
<1>2. Effects' = Effects /\ Len(attempts') = Len(attempts)
    BY <1>1 DEF Effects
<1>3. \A v \in Workers : task'[v].pc \in {"write", "post"} => task'[v] = task[v]
    <2>1. PICK t : Become(w, t) /\ t.pc \notin {"write", "post", "close"}
        BY StepsAside
    <2> QED BY <2>1, AsideQuiet
<1>4. settled.last_outcome = conclusion(w)
    BY DEF TypeInv, TypeOK, RowsTyped, Outbox
<1> HIDE DEF settled
<1>5. CASE outbox'.last_outcome = outbox.last_outcome
    BY <1>1, <1>2, <1>3, <1>5, SettledQuiet
<1>6. CASE outbox'.last_outcome # outbox.last_outcome
    <2>1. /\ outbox'.last_outcome = conclusion(w) /\ conclusion(w) # NULL
          /\ OutboxPermits(settled)
        BY <1>1, <1>4, <1>6
    <2>2. outbox.last_outcome \notin TERMINAL
        BY <1>4, <1>6, <2>1 DEF OutboxPermits
    <2>3. \A v \in Workers : Sending(v)' => Sending(v)
        BY <1>1, <1>3 DEF Sending
    <2>4. CASE conclusion(w) = "confirmed"
        <3>1. task[w].got = "found"
            BY <2>4, NullAssumption DEF conclusion, OutcomeCode
        <3>2. Effects # {}
            BY <1>1, <3>1 DEF QueryInv, AnswersStand
        <3>3. \A v \in Workers : ~Sending(v)
            BY <3>2, EffectEndsSending
        <3> QED BY <1>2, <2>1, <2>3, <2>4, <3>2, <3>3 DEF SettledInv, VerdictTrue
    <2>5. CASE conclusion(w) = "rejected"
        <3>1. /\ task[w].got = "not_found" /\ task[w].last_sent_at # NULL
              /\ negative_answer_is_trustworthy(task[w].last_sent_at, task[w].now)
            BY <2>5, NullAssumption DEF conclusion, OutcomeCode
        <3>2. is_ambiguous /\ task[w].last_sent_at = last_sent_at
            BY <1>6, <2>1, <2>5 DEF StaleRejection
        <3>3. Effects = {} /\ wire = {} /\ \A v \in Workers : ~Sending(v)
            BY <1>1, <2>2, <3>1, <3>2, NothingIsComing
        <3> QED BY <1>1, <1>2, <2>1, <2>3, <2>5, <3>3 DEF SettledInv, VerdictTrue
    <2>6. conclusion(w) \in {"confirmed", "rejected", NULL}
        BY DEF conclusion
    <2> QED BY <2>1, <2>4, <2>5, <2>6
<1> QED BY <1>5, <1>6

\* Nothing has been read, sent or posted at the start.
LEMMA QueryInit == Init => QueryInv
<1> SUFFICES ASSUME Init PROVE QueryInv
    OBVIOUS
<1>1. wire = {} /\ applied = {} /\ partial = {} /\ clock = 0
    BY DEF Init
<1>2. \A w \in Workers : task[w].pc = "idle" /\ task[w].now = 0
    BY DEF Init, IdleTask
<1> QED BY <1>1, <1>2 DEF QueryInv, ClockRead, LandsInWindow, AnswersStand

\* What a run that concludes from no stale reading keeps.
LEMMA FreshSettled ==
    ASSUME ~suppresses_duplicates, RunnersPaused, QueryFits
    PROVE  Spec /\ [][~StaleRejection]_vars => [](QueryInv /\ SettledInv)
<1>1. TypeInv /\ FlightInv /\ QueryInv /\ [Next]_vars => QueryInv'
    BY QueryNext DEF QueryFits
<1>2. TypeInv /\ FlightInv /\ SerialInv /\ QueryInv /\ SettledInv /\ [Next]_vars
        /\ [~StaleRejection]_vars => SettledInv'
    <2>1. UNCHANGED vars => ~StaleRejection
        BY DEF vars, rowVars, StaleRejection
    <2> QED BY <2>1, FreshConclusion, SettledNext
<1>3. Spec => []SerialInv
    BY SerialInvariant
<1>4. Init => QueryInv /\ SettledInv
    BY QueryInit, SettledInit
<1> QED BY <1>1, <1>2, <1>3, <1>4, TypeInvariant, FlightInvariant, PTL DEF Spec

\* Against a ledger that can be asked, whatever it answers and however often the
\* operation is sent again, the recorded verdict is the truth about the books, provided
\* operators judge with the runners paused, the windows fit and no pass records a
\* rejection from a reading that went stale between its two transactions.
THEOREM QueriedVerdictIsTrue ==
    ASSUME ~suppresses_duplicates, RunnersPaused, QueryFits
    PROVE  Spec /\ [][~StaleRejection]_vars => []VerdictTrue
<1>1. SettledInv => VerdictTrue
    BY DEF SettledInv
<1> QED BY <1>1, FreshSettled, PTL

\* Under the same conditions no request is written for an operation already settled,
\* whoever settled it: its ledger, a pass that asked, or an operator.
THEOREM QueriedNothingSentOnceSettled ==
    ASSUME ~suppresses_duplicates, RunnersPaused, QueryFits
    PROVE  Spec /\ [][~StaleRejection]_vars => NoSendOfSettled
<1>1. TypeInv /\ FlightInv /\ SerialInv /\ QueryInv /\ SettledInv /\ [Next]_vars
        /\ [~StaleRejection]_vars
        => [wire' \ wire # {} => outbox.last_outcome \notin TERMINAL]_vars
    <2>1. UNCHANGED vars => ~StaleRejection
        BY DEF vars, rowVars, StaleRejection
    <2>2. wire' \ wire # {} => ~(wire' \subseteq wire)
        OBVIOUS
    <2> QED BY <2>1, <2>2, FreshConclusion, SettledNext
<1>2. Spec => []SerialInv
    BY SerialInvariant
<1> QED BY <1>1, <1>2, FreshSettled, TypeInvariant, FlightInvariant, PTL
       DEF Spec, NoSendOfSettled

\* Under the same conditions the control plane keeps the promise: one posting at most,
\* and a verdict that says whether it is in the books.
THEOREM QueriedPostsOnce ==
    ASSUME ~suppresses_duplicates, RunnersPaused, QueryFits
    PROVE  Spec /\ [][~StaleRejection]_vars => ImplementsPostingOnce
<1>1. Init => Promise!PostInit
    <2> SUFFICES ASSUME Init PROVE Effects = {} /\ verdict = NULL
        BY DEF Promise!PostInit
    <2> QED BY DEF Init, Effects, verdict
<1>2. TypeInv /\ FlightInv /\ SerialInv /\ QueryInv /\ SettledInv /\ [Next]_vars
        /\ [~StaleRejection]_vars
        => [Promise!Apply \/ Promise!Confirm \/ Promise!Reject]_<<Effects, verdict>>
    <2>1. UNCHANGED vars => ~StaleRejection
        BY DEF vars, rowVars, StaleRejection
    <2> QED BY <2>1, FreshConclusion, PromiseStep
<1>3. Spec => []SerialInv
    BY SerialInvariant
<1> QED BY <1>1, <1>2, <1>3, FreshSettled, TypeInvariant, FlightInvariant, PTL
       DEF Spec, ImplementsPostingOnce, Promise!PostSpec

-------------------------------------------------------------------------------
\* The ledger and the transport never turn a request away: an attempt has an effect, is
\* rejected or leaves the operation undetermined, and none is ever sent after it.
NeverTurnsAway == "throttled" \notin Answers /\ ~MayFailToConnect

\* No attempt was turned away, nor will one be that is under way.
NoneTurnedAway ==
    /\ \A n \in DOMAIN attempts : attempts[n].outcome \notin Retryable
    /\ \A w \in Workers :
        /\ task[w].pc # "not_sent"
        /\ task[w].pc = "record" => task[w].got \notin Retryable

\* The last send a pass has read is the last there is.
FreshPasses ==
    \A w \in Workers : task[w].pc \in {"query", "queried"} =>
        attempts # <<>> /\ task[w].last_sent_at = last_sent_at

\* Resolving an attempt leaves the time of the last send as it was.
LEMMA LastSentAtKept ==
    ASSUME AttemptsKept, DOMAIN attempts' = DOMAIN attempts, attempts # <<>>, attempts' # <<>>
    PROVE  last_sent_at' = last_sent_at
<1>1. {attempts'[n].sent_at : n \in DOMAIN attempts'}
        = {attempts[n].sent_at : n \in DOMAIN attempts}
    BY DEF AttemptsKept
<1> QED BY <1>1 DEF last_sent_at

\* What a step does to the set of attempts: nothing, or it is an insertion.
LEMMA InsertedOrKept ==
    ASSUME TypeInv, FlightInv, [Next]_vars
    PROVE  \/ DOMAIN attempts' = DOMAIN attempts
           \/ \E w \in Workers : WriteAhead(w) /\ task[w].attempt_no \notin DOMAIN attempts
<1>1. ASSUME NEW w \in Workers, RecordOutcome(w) PROVE DOMAIN attempts' = DOMAIN attempts
    BY <1>1, RecordSplit
<1>2. ASSUME NEW w \in Workers, resolve_not_sent(w) PROVE DOMAIN attempts' = DOMAIN attempts
    BY <1>2, NotSentSplit
<1>3. ASSUME NEW w \in Workers, WriteAhead(w), task[w].attempt_no \in DOMAIN attempts
      PROVE  DOMAIN attempts' = DOMAIN attempts
    BY <1>3 DEF WriteAhead
<1>4. ASSUME NEW w \in Workers,
             \/ DispatchGate(w) \/ AdapterPost(w) \/ ConnectFails(w) \/ AnswerUnknown(w)
             \/ PostRaises(w) \/ run_due_once(w) \/ attempt_one(w)
             \/ retry_or_dead_letter(w) \/ dead_letter_rejection(w) \/ Replay(w)
             \/ ReconcilePass(w) \/ Crash(w)
      PROVE  UNCHANGED attempts
    BY <1>4 DEF DispatchGate, AdapterPost, ConnectFails, AnswerUnknown, PostRaises,
        run_due_once, attempt_one, retry_or_dead_letter, dead_letter_rejection, Replay,
        replay_dead_letter, close_entry, ReconcilePass, reconcile_once,
        get_by_operation_id, reconcile_by_query, open_item, Crash, rowVars
<1>5. Operator \/ Ledger \/ Tick \/ UNCHANGED vars => UNCHANGED attempts
    BY DEF Operator, resolve_item, Ledger, LedgerTakes, DropRequest, Tick, vars, rowVars
<1> QED BY <1>1, <1>2, <1>3, <1>4, <1>5 DEF Next, Dispatch, RetryPass

\* Every step keeps NoneTurnedAway.
LEMMA NoneTurnedAwayNext ==
    ASSUME NeverTurnsAway
    PROVE  TypeInv /\ FlightInv /\ NoneTurnedAway /\ [Next]_vars => NoneTurnedAway'
<1> SUFFICES ASSUME TypeInv, FlightInv, NoneTurnedAway, [Next]_vars PROVE NoneTurnedAway'
    OBVIOUS
<1>1. ASSUME NEW w \in Workers, NEW t, Become(w, t), Moves(w, t),
             \A n \in DOMAIN attempts' : attempts'[n].outcome \notin Retryable
      PROVE  NoneTurnedAway'
    <2>1. \A v \in Workers : task'[v] = IF v = w THEN t ELSE task[v]
        BY <1>1, BecomeTask
    <2>2. t.pc # "not_sent" /\ (t.pc = "record" => t.got \notin Retryable)
        BY <1>1 DEF Moves, IdleTask, NeverTurnsAway, Retryable
    <2> QED BY <1>1, <2>1, <2>2 DEF NoneTurnedAway
<1>2. ASSUME NEW w \in Workers, WriteAhead(w)
      PROVE  \A n \in DOMAIN attempts' : attempts'[n].outcome \notin Retryable
    <2>1. CASE task[w].attempt_no \in DOMAIN attempts
        BY <1>2, <2>1 DEF WriteAhead, NoneTurnedAway
    <2>2. CASE task[w].attempt_no \notin DOMAIN attempts
        <3>1. written_row(w).outcome \notin Retryable
            BY NullAssumption DEF written_row, Retryable, OutcomeCode
        <3> QED BY <1>2, <2>2, <3>1, InsertedRow DEF NoneTurnedAway
    <2> QED BY <2>1, <2>2
<1>3. ASSUME NEW w \in Workers, RecordOutcome(w)
      PROVE  \A n \in DOMAIN attempts' : attempts'[n].outcome \notin Retryable
    <2> DEFINE n == task[w].attempt_no
    <2>1. task[w].got \notin Retryable /\ n \in DOMAIN attempts
        BY <1>3, NumbersInRange DEF RecordOutcome, NoneTurnedAway, Owning
    <2>2. recorded_attempt(w).outcome = task[w].got
        <3>1. attempts[n] \in PostingAttempt
            BY <2>1 DEF TypeInv, TypeOK, RowsTyped
        <3> QED BY <3>1 DEF recorded_attempt, PostingAttempt
    <2>3. UNCHANGED attempts \/ attempts' = [attempts EXCEPT ![n] = recorded_attempt(w)]
        BY <1>3, RecordSplit
    <2> HIDE DEF n
    <2> QED BY <2>1, <2>2, <2>3 DEF NoneTurnedAway
<1>4. ASSUME NEW w \in Workers,
             Dispatch(w) \/ RetryPass(w) \/ Replay(w) \/ ReconcilePass(w) \/ Crash(w)
      PROVE  NoneTurnedAway'
    <2>1. PICK t : Become(w, t) /\ Moves(w, t)
        BY <1>4, EveryMove
    <2>2. ~resolve_not_sent(w)
        BY DEF resolve_not_sent, NoneTurnedAway
    <2>3. WriteAhead(w) \/ RecordOutcome(w) \/ UNCHANGED attempts
        BY <1>4, <2>2 DEF Dispatch, DispatchGate, AdapterPost, ConnectFails,
            AnswerUnknown, PostRaises, RetryPass, run_due_once, attempt_one,
            retry_or_dead_letter, dead_letter_rejection, Replay,
            replay_dead_letter, close_entry, ReconcilePass, reconcile_once,
            get_by_operation_id, reconcile_by_query, open_item, Crash, rowVars
    <2>4. \A n \in DOMAIN attempts' : attempts'[n].outcome \notin Retryable
        BY <1>2, <1>3, <2>3 DEF NoneTurnedAway
    <2> QED BY <1>1, <2>1, <2>4
<1>5. ASSUME NEW n \in wire, NEW answer \in Answers, LedgerTakes(n, answer)
      PROVE  NoneTurnedAway'
    <2>1. UNCHANGED attempts /\ Deliver(n, answer)
        BY <1>5 DEF LedgerTakes, rowVars
    <2>2. answer \notin Retryable
        BY <1>5, LedgerAssumption DEF NeverTurnsAway, Retryable
    <2>3. ASSUME NEW v \in Workers
          PROVE  \/ task'[v] = task[v]
                 \/ task'[v].pc = "record" /\ task'[v].got = answer
        <3>1. \/ task'[v] = task[v]
              \/ task'[v] = [task[v] EXCEPT !.pc = "record", !.got = answer]
            BY <2>1 DEF Deliver
        <3> QED BY <3>1 DEF TypeInv, TaskFits, Task
    <2> QED BY <2>1, <2>2, <2>3 DEF NoneTurnedAway
<1>6. CASE Tick \/ Operator \/ (\E n \in wire : DropRequest(n)) \/ UNCHANGED vars
    <2>1. UNCHANGED <<attempts, task>>
        BY <1>6 DEF Tick, Operator, resolve_item, DropRequest, vars, rowVars, ledgerVars
    <2> QED BY <2>1 DEF NoneTurnedAway
<1> QED BY <1>4, <1>5, <1>6 DEF Next, Ledger

\* Every step keeps FreshPasses: behind an attempt that has an effect, is rejected or is
\* undetermined no row is inserted.
LEMMA FreshPassesNext ==
    TypeInv /\ FlightInv /\ SerialInv /\ NoneTurnedAway /\ FreshPasses /\ [Next]_vars
        => FreshPasses'
<1> SUFFICES ASSUME TypeInv, FlightInv, SerialInv, NoneTurnedAway, FreshPasses, [Next]_vars
             PROVE  FreshPasses'
    OBVIOUS
<1>1. AttemptsKept
    BY AttemptsKeptNext
<1>2. \A v \in Workers : task'[v].pc \in {"query", "queried"} =>
        attempts # <<>> /\ task'[v].last_sent_at = last_sent_at
    <2>1. ASSUME NEW w \in Workers, NEW t, Become(w, t), Moves(w, t), NEW v \in Workers,
                 task'[v].pc \in {"query", "queried"}
          PROVE  attempts # <<>> /\ task'[v].last_sent_at = last_sent_at
        <3>1. task'[v] = IF v = w THEN t ELSE task[v]
            BY <2>1, BecomeTask
        <3>2. t.pc \in {"query", "queried"} => attempts # <<>> /\ t.last_sent_at = last_sent_at
            BY <2>1 DEF Moves, IdleTask, FreshPasses
        <3> QED BY <2>1, <3>1, <3>2 DEF FreshPasses
    <2>2. ASSUME NEW n \in wire, NEW answer \in Answers, LedgerTakes(n, answer),
                 NEW v \in Workers, task'[v].pc \in {"query", "queried"}
          PROVE  task'[v] = task[v]
        <3>1. \/ task'[v] = task[v]
              \/ task'[v] = [task[v] EXCEPT !.pc = "record", !.got = answer]
            BY <2>2 DEF LedgerTakes, Deliver
        <3> QED BY <2>2, <3>1 DEF TypeInv, TaskFits, Task
    <2>3. Tick \/ Operator \/ (\E n \in wire : DropRequest(n)) \/ UNCHANGED vars => UNCHANGED task
        BY DEF Tick, Operator, resolve_item, DropRequest, vars, rowVars, ledgerVars
    <2>4. ASSUME NEW w \in Workers,
                 Dispatch(w) \/ RetryPass(w) \/ Replay(w) \/ ReconcilePass(w) \/ Crash(w)
          PROVE  \E t : Become(w, t) /\ Moves(w, t)
        BY <2>4, EveryMove
    <2> QED BY <2>1, <2>2, <2>3, <2>4 DEF Next, Ledger, FreshPasses
<1>3. CASE DOMAIN attempts' = DOMAIN attempts
    <2>1. ASSUME attempts # <<>> PROVE attempts' # <<>> /\ last_sent_at' = last_sent_at
        <3>1. 1 \in DOMAIN attempts
            BY <2>1 DEF TypeInv, TypeOK, RowsTyped
        <3>2. attempts' # <<>>
            BY <1>3, <3>1
        <3> QED BY <1>1, <1>3, <2>1, <3>2, LastSentAtKept
    <2> QED BY <1>2, <2>1 DEF FreshPasses
<1>4. ASSUME NEW w \in Workers, WriteAhead(w), task[w].attempt_no \notin DOMAIN attempts
      PROVE  FreshPasses'
    <2>1. task[w].attempt_no = Len(attempts) + 1 /\ task[w].pc = "write"
        BY <1>4, InsertedRow DEF WriteAhead
    <2>2. \A n \in DOMAIN attempts : FALSE
        BY <2>1 DEF SerialInv, WriteFresh, NoneTurnedAway
    <2>3. attempts # <<>> => 1 \in DOMAIN attempts
        BY DEF TypeInv, TypeOK, RowsTyped
    <2> QED BY <1>2, <2>2, <2>3 DEF FreshPasses
<1> QED BY <1>3, <1>4, InsertedOrKept

\* A pass over an operation none of whose attempts was turned away concludes from a
\* fresh reading.
LEMMA NoStaleRejection ==
    ASSUME TypeInv, FlightInv, SerialInv, NoneTurnedAway, FreshPasses
    PROVE  ~StaleRejection
<1> SUFFICES ASSUME NEW w \in Workers, reconcile_by_query(w),
                    outbox.last_outcome # "rejected", outbox'.last_outcome = "rejected"
             PROVE  is_ambiguous /\ task[w].last_sent_at = last_sent_at
    BY DEF StaleRejection
<1> DEFINE settled == [outbox EXCEPT !.last_outcome = conclusion(w), !.state = "settled"]
<1>1. task[w].pc = "queried" /\ OutboxPermits(settled) /\ outbox' = settled
    BY DEF reconcile_by_query
<1>2. outbox.last_outcome \notin TERMINAL
    BY <1>1 DEF OutboxPermits
<1>3. attempts # <<>> /\ task[w].last_sent_at = last_sent_at
    BY <1>1 DEF FreshPasses
<1>4. is_ambiguous
    <2> DEFINE n == Len(attempts)
    <2>1. n \in DOMAIN attempts
        <3>1. attempts \in Seq(PostingAttempt) /\ DOMAIN attempts = 1 .. n /\ n \in Nat
            BY DEF TypeInv, TypeOK, RowsTyped
        <3> QED BY <1>3, <3>1
    <2>2. attempts[n] \in PostingAttempt
        BY <2>1 DEF TypeInv, TypeOK, RowsTyped
    <2>3. CASE attempts[n].outcome = NULL
        <3>1. attempts[n].state = "in_flight"
            BY <2>1, <2>2, <2>3 DEF FlightInv, RowsResolved, PostingAttempt, AttemptState
        <3> QED BY <2>1, <3>1 DEF is_ambiguous, InFlight
    <2>4. CASE attempts[n].outcome # NULL
        <3>1. attempts[n].outcome \in OutcomeCode \ Retryable
            BY <2>1, <2>2, <2>4 DEF PostingAttempt, NoneTurnedAway
        <3>2. outbox.last_outcome = attempts[n].outcome
            BY <1>2, <1>3, <2>4 DEF SerialInv, LastAgrees
        <3>3. outbox.last_outcome \in AMBIGUOUS
            BY <1>2, <3>1, <3>2 DEF OutcomeCode, TERMINAL, AMBIGUOUS, Retryable
        <3> QED BY <3>3 DEF is_ambiguous
    <2> QED BY <2>3, <2>4
<1> QED BY <1>3, <1>4

\* Against a ledger that never turns a request away no rejection is concluded from a
\* stale reading: the conditions of QueriedVerdictIsTrue are met by every behaviour.
LEMMA NeverStale ==
    ASSUME ~suppresses_duplicates, NeverTurnsAway
    PROVE  Spec => [][~StaleRejection]_vars
<1>1. Init => NoneTurnedAway /\ FreshPasses
    BY DEF Init, NoneTurnedAway, FreshPasses, IdleTask
<1>2. TypeInv /\ FlightInv /\ NoneTurnedAway /\ [Next]_vars => NoneTurnedAway'
    BY NoneTurnedAwayNext
<1>3. TypeInv /\ FlightInv /\ SerialInv /\ NoneTurnedAway /\ FreshPasses /\ [Next]_vars
        => FreshPasses'
    BY FreshPassesNext
<1>4. TypeInv /\ FlightInv /\ SerialInv /\ NoneTurnedAway /\ FreshPasses
        => [~StaleRejection]_vars
    BY NoStaleRejection
<1>5. Spec => []SerialInv
    BY SerialInvariant
<1> QED BY <1>1, <1>2, <1>3, <1>4, <1>5, TypeInvariant, FlightInvariant, PTL DEF Spec

\* Against a ledger that can be asked and turns no request away, operators judging with
\* the runners paused, the control plane keeps the promise: a query pass settles what a
\* lost answer left open, and never wrongly.
THEOREM PostsOnceWhereAnswered ==
    ASSUME ~suppresses_duplicates, RunnersPaused, QueryFits, NeverTurnsAway
    PROVE  Spec => ImplementsPostingOnce
BY NeverStale, QueriedPostsOnce, PTL

-------------------------------------------------------------------------------
\* A send at `now` to endpoint ep is within the bounds of the first send on record.
Bounded(now, ep) ==
    resend_is_within_bounds(attempts[1].sent_at, now, attempts[1].endpoint, ep)
        = "permitted"

\* An attempt stands that was not turned away: it may have had an effect or may yet.
Standing == \E n \in DOMAIN attempts : attempts[n].outcome \notin Retryable

\* The gate sees an attempt that stands: the operation is undetermined, or finished.
GateSees ==
    Standing => InFlight # {} \/ outbox.last_outcome \in TERMINAL \cup AMBIGUOUS

\* Behind an attempt that stands a worker writes, and has written, within the bounds.
WritesBounded ==
    \A w \in Workers :
        task[w].pc = "write" /\ task[w].attempt_no = Len(attempts) + 1 /\ Standing =>
            Bounded(task[w].now, task[w].endpoint)
SendsBounded ==
    \A m, n \in DOMAIN attempts :
        m < n /\ attempts[m].outcome \notin Retryable =>
            Bounded(attempts[n].sent_at, attempts[n].endpoint)

\* A posting is later than the sends on record when its request was written.
PostedAfter ==
    /\ \A n \in DOMAIN attempts : attempts[n].sent_at <= clock
    /\ \A a \in applied :
        /\ a.endpoint = attempts[a.no].endpoint
        /\ \A n \in DOMAIN attempts : n <= a.no => attempts[n].sent_at <= a.at

KeyInv ==
    /\ GateSees /\ WritesBounded /\ SendsBounded /\ ClockRead /\ PostedAfter
    /\ AtMostOneEffect /\ partial = {}

\* The finding of README.md:214: a step records that an attempt was turned away while
\* another one stands, and the gate does not see the other any more.
Overwritten ==
    \E m, n \in DOMAIN attempts :
        /\ m # n /\ attempts[m].outcome \notin Retryable
        /\ attempts[n].outcome = NULL /\ attempts'[n].outcome \in Retryable

\* What was sent first and what is on record of it stays.
LEMMA StandingKept ==
    ASSUME AttemptsKept
    PROVE  /\ \A n \in DOMAIN attempts :
                attempts'[n].outcome \notin Retryable => attempts[n].outcome \notin Retryable
           /\ 1 \in DOMAIN attempts => \A now, ep : Bounded(now, ep) => Bounded(now, ep)'
<1>1. NULL \notin Retryable
    BY NullAssumption DEF Retryable, OutcomeCode
<1>2. ASSUME 1 \in DOMAIN attempts, NEW now, NEW ep, Bounded(now, ep) PROVE Bounded(now, ep)'
    <2>1. /\ attempts'[1].sent_at = attempts[1].sent_at
          /\ attempts'[1].endpoint = attempts[1].endpoint
        BY <1>2 DEF AttemptsKept
    <2> QED BY <1>2, <2>1 DEF Bounded
<1> QED BY <1>1, <1>2 DEF AttemptsKept

\* A step that records no attempt as turned away beside one that stands leaves the gate
\* seeing.
LEMMA GateSeesNext ==
    ASSUME TypeInv, FlightInv, GateSees, ~Overwritten, [Next]_vars
    PROVE  GateSees'
<1>1. outbox.last_outcome \in TERMINAL => outbox'.last_outcome = outbox.last_outcome
    BY OutboxStepNext DEF OutboxStep, OutboxPermits
<1>2. ASSUME UNCHANGED attempts, outbox'.last_outcome = outbox.last_outcome
      PROVE  GateSees'
    BY <1>2 DEF GateSees, Standing, InFlight
<1>3. ASSUME UNCHANGED attempts, outbox'.last_outcome \in TERMINAL PROVE GateSees'
    BY <1>3 DEF GateSees
<1>4. ASSUME NEW n \in DOMAIN attempts, attempts[n].outcome = NULL, NEW row,
             attempts' = [attempts EXCEPT ![n] = row],
             row.outcome = outbox'.last_outcome, outbox'.last_outcome \in OutcomeCode
      PROVE  GateSees'
    <2>1. attempts'[n] = row /\ \A m \in DOMAIN attempts : m # n => attempts'[m] = attempts[m]
        BY <1>4
    <2>2. CASE row.outcome \in Retryable
        <3>1. \A m \in DOMAIN attempts : m # n => attempts[m].outcome \in Retryable
            BY <1>4, <2>1, <2>2 DEF Overwritten
        <3>2. \A m \in DOMAIN attempts' : attempts'[m].outcome \in Retryable
            BY <1>4, <2>1, <2>2, <3>1
        <3> QED BY <3>2 DEF GateSees, Standing
    <2>3. CASE row.outcome \notin Retryable
        <3>1. outbox'.last_outcome \in TERMINAL \cup AMBIGUOUS
            BY <1>4, <2>3 DEF OutcomeCode, TERMINAL, AMBIGUOUS, Retryable
        <3> QED BY <3>1 DEF GateSees
    <2> QED BY <2>2, <2>3
<1>5. ASSUME NEW w \in Workers, task[w].pc \in Owning
      PROVE  /\ task[w].attempt_no \in DOMAIN attempts
             /\ attempts[task[w].attempt_no] \in PostingAttempt
             /\ attempts[task[w].attempt_no].outcome = NULL
    BY <1>5, NumbersInRange DEF FlightInv, Owned, RowsResolved, TypeInv, TypeOK, RowsTyped
<1>6. ASSUME NEW w \in Workers, RecordOutcome(w) PROVE GateSees'
    <2>1. task[w].pc \in Owning /\ task[w].got \in OutcomeCode
        BY <1>6 DEF RecordOutcome, Owning, TypeInv, TaskFits
    <2>2. /\ recorded_attempt(w).outcome = task[w].got
          /\ recorded_outbox(w).last_outcome = task[w].got
        BY <1>5, <2>1 DEF recorded_attempt, recorded_outbox, PostingAttempt, TypeInv, TypeOK,
            RowsTyped, Outbox
    <2>3. CASE UNCHANGED <<attempts, outbox>>
        BY <1>2, <2>3
    <2>4. ASSUME attempts' = [attempts EXCEPT ![task[w].attempt_no] = recorded_attempt(w)],
                 outbox' = recorded_outbox(w)
          PROVE  GateSees'
        <3>1. outbox'.last_outcome = task[w].got
            BY <2>2, <2>4
        <3> QED BY <1>4, <1>5, <2>1, <2>2, <2>4, <3>1
    <2> QED BY <1>6, <2>3, <2>4, RecordSplit
<1>7. ASSUME NEW w \in Workers, resolve_not_sent(w) PROVE GateSees'
    <2>1. task[w].pc \in Owning
        BY <1>7 DEF resolve_not_sent, Owning
    <2>2. CASE UNCHANGED <<attempts, outbox>>
        BY <1>2, <2>2
    <2>3. ASSUME NEW row, row.outcome = "not_sent",
                 attempts' = [attempts EXCEPT ![task[w].attempt_no] = row],
                 outbox' = [outbox EXCEPT !.last_outcome = "not_sent",
                                          !.attempt_count = MaxOf(@, task[w].attempt_no)]
          PROVE  GateSees'
        <3>1. outbox'.last_outcome = "not_sent"
            BY <2>3 DEF TypeInv, TypeOK, RowsTyped, Outbox
        <3> QED BY <1>4, <1>5, <2>1, <2>3, <3>1 DEF OutcomeCode
    <2> QED BY <1>7, <2>2, <2>3, NotSentSplit
<1>8. ASSUME NEW w \in Workers, WriteAhead(w) PROVE GateSees'
    <2>1. CASE task[w].attempt_no \in DOMAIN attempts
        BY <1>2, <1>8, <2>1 DEF WriteAhead
    <2>2. CASE task[w].attempt_no \notin DOMAIN attempts
        <3>1. Len(attempts) + 1 \in InFlight'
            <4>1. /\ attempts'[Len(attempts) + 1] = written_row(w)
                  /\ Len(attempts) \in Nat /\ DOMAIN attempts' = 1 .. Len(attempts) + 1
                BY <1>8, <2>2, InsertedRow
            <4>2. written_row(w).state = "in_flight"
                BY DEF written_row
            <4>3. Len(attempts) + 1 \in DOMAIN attempts'
                BY <4>1
            <4>4. attempts'[Len(attempts) + 1].state = "in_flight"
                BY <4>1, <4>2
            <4> QED BY <4>3, <4>4 DEF InFlight
        <3>2. InFlight' # {}
            BY <3>1
        <3> QED BY <3>2 DEF GateSees
    <2> QED BY <2>1, <2>2
<1>9. ASSUME NEW w \in Workers, reconcile_by_query(w) PROVE GateSees'
    <2>1. UNCHANGED attempts
        BY <1>9 DEF reconcile_by_query
    <2>2. \/ outbox' = outbox
          \/ /\ conclusion(w) # NULL
             /\ outbox' = [outbox EXCEPT !.last_outcome = conclusion(w), !.state = "settled"]
        BY <1>9 DEF reconcile_by_query
    <2>3. outbox' = outbox \/ outbox'.last_outcome \in TERMINAL
        BY <2>2 DEF conclusion, TERMINAL, TypeInv, TypeOK, RowsTyped, Outbox
    <2> QED BY <1>2, <1>3, <2>1, <2>3
<1>10. CASE Operator
    <2>1. UNCHANGED attempts
        BY <1>10 DEF Operator, resolve_item
    <2>2. outbox' = outbox \/ outbox'.last_outcome \in TERMINAL
        BY <1>10 DEF Operator, resolve_item, TERMINAL, TypeInv, TypeOK, RowsTyped, Outbox
    <2> QED BY <1>2, <1>3, <2>1, <2>2
<1>11. ASSUME NEW w \in Workers,
             \/ DispatchGate(w) \/ AdapterPost(w) \/ ConnectFails(w) \/ AnswerUnknown(w)
             \/ PostRaises(w) \/ run_due_once(w) \/ attempt_one(w)
             \/ retry_or_dead_letter(w) \/ dead_letter_rejection(w)
             \/ replay_dead_letter(w) \/ close_entry(w) \/ reconcile_once(w)
             \/ get_by_operation_id(w) \/ open_item(w) \/ Crash(w)
      PROVE  GateSees'
    <2>1. UNCHANGED attempts
        BY <1>11 DEF DispatchGate, AdapterPost, ConnectFails, AnswerUnknown, PostRaises,
            run_due_once, attempt_one, retry_or_dead_letter, dead_letter_rejection,
            replay_dead_letter, close_entry, reconcile_once,
            get_by_operation_id, open_item, Crash, rowVars
    <2> QED BY <1>2, <1>11, <2>1, OutcomeKept
<1>12. CASE Ledger \/ Tick \/ UNCHANGED vars
    <2>1. UNCHANGED <<attempts, outbox>>
        BY <1>12 DEF Ledger, LedgerTakes, DropRequest, Tick, vars, rowVars
    <2> QED BY <1>2, <2>1
<1> QED BY <1>6, <1>7, <1>8, <1>9, <1>10, <1>11, <1>12
       DEF Next, Dispatch, RetryPass, Replay, ReconcilePass

\* The gate lets a worker through behind an attempt that stands only within the bounds,
\* and a row inserted since takes the number it would have used.
LEMMA WritesBoundedNext ==
    ASSUME TypeInv, FlightInv, GateSees, WritesBounded, [Next]_vars
    PROVE  WritesBounded'
<1> SUFFICES ASSUME NEW v \in Workers, task'[v].pc = "write",
                    task'[v].attempt_no = Len(attempts') + 1, Standing'
             PROVE  Bounded(task[v].now, task[v].endpoint)'
    BY DEF WritesBounded
<1>1. AttemptsKept
    BY AttemptsKeptNext
<1>2. /\ Len(attempts) \in Nat /\ DOMAIN attempts = 1 .. Len(attempts)
      /\ Len(attempts') \in Nat /\ DOMAIN attempts' = 1 .. Len(attempts')
    BY TypeNext, NumbersInRange DEF TypeInv, TypeOK, RowsTyped
<1>3. Len(attempts) <= Len(attempts')
    BY <1>1, <1>2 DEF AttemptsKept
<1>4. ASSUME Len(attempts') = Len(attempts)
      PROVE  Standing /\ 1 \in DOMAIN attempts
             /\ \A now, ep : Bounded(now, ep) => Bounded(now, ep)'
    <2>1. Standing
        BY <1>1, <1>2, <1>4, StandingKept DEF Standing
    <2>2. 1 \in DOMAIN attempts
        BY <1>2, <2>1 DEF Standing
    <2> QED BY <1>1, <2>1, <2>2, StandingKept
<1>5. CASE task'[v] = task[v]
    <2>1. task[v].attempt_no <= Len(attempts) + 1 /\ task[v].attempt_no \in Nat
        BY <1>5 DEF TypeInv, TaskFits, Task
    <2>2. Len(attempts') = Len(attempts)
        <3>1. Len(attempts') + 1 <= Len(attempts) + 1
            BY <1>5, <2>1
        <3>2. Len(attempts) \in Nat /\ Len(attempts') \in Nat
            BY <1>2
        <3> QED BY <1>3, <3>1, <3>2
    <2>3. Bounded(task[v].now, task[v].endpoint)
        BY <1>4, <1>5, <2>2 DEF WritesBounded
    <2> QED BY <1>4, <1>5, <2>2, <2>3
<1>6. ASSUME DispatchGate(v) PROVE Bounded(task[v].now, task[v].endpoint)'
    <2>1. UNCHANGED <<attempts, outbox>>
        BY <1>6 DEF DispatchGate, rowVars
    <2>2. /\ gate_permits(v) /\ task'[v].now = task[v].now
          /\ task'[v].endpoint = task[v].endpoint
        <3>1. gate_permits(v)
            <4>1. ~Finish(v)
                BY BecomeTask DEF Finish, IdleTask
            <4> QED BY <1>6, <4>1 DEF DispatchGate
        <3>2. task'[v] = [task[v] EXCEPT !.pc = "write", !.attempt_no = Len(attempts) + 1]
            BY <1>6, <3>1, BecomeTask DEF DispatchGate
        <3> QED BY <3>1, <3>2 DEF TypeInv, TaskFits, Task
    <2>3. Standing
        BY <1>4, <2>1
    <2>4. is_ambiguous
        BY <2>2, <2>3 DEF GateSees, gate_permits, is_ambiguous
    <2>5. Bounded(task[v].now, task[v].endpoint)
        BY <2>2, <2>4 DEF gate_permits, Bounded
    <2> QED BY <1>4, <2>1, <2>2, <2>5
<1>7. ASSUME NEW w \in Workers,
             Dispatch(w) \/ RetryPass(w) \/ Replay(w) \/ ReconcilePass(w) \/ Crash(w)
      PROVE  task'[v] = task[v] \/ DispatchGate(v)
    <2>1. PICK t : Become(w, t) /\ Moves(w, t)
        BY <1>7, EveryMove
    <2>2. task'[v] = IF v = w THEN t ELSE task[v]
        BY <2>1, BecomeTask
    <2>3. CASE v = w
        <3>1. task[w].pc = "gate"
            BY <2>1, <2>2, <2>3 DEF Moves, IdleTask
        <3>2. ~Crash(w)
            BY <2>3, BecomeTask DEF Crash, Finish, IdleTask
        <3> QED BY <1>7, <2>3, <3>1, <3>2 DEF Dispatch, WriteAhead, AdapterPost,
                ConnectFails, AnswerUnknown, PostRaises, RecordOutcome, RetryPass,
                run_due_once, attempt_one, resolve_not_sent, retry_or_dead_letter,
                dead_letter_rejection, Replay, replay_dead_letter, close_entry,
                ReconcilePass, reconcile_once, get_by_operation_id, reconcile_by_query,
                open_item
    <2> QED BY <2>2, <2>3
<1>8. ASSUME NEW n \in wire, NEW answer \in Answers, LedgerTakes(n, answer)
      PROVE  task'[v] = task[v]
    <2>1. \/ task'[v] = task[v]
          \/ task'[v] = [task[v] EXCEPT !.pc = "record", !.got = answer]
        BY <1>8 DEF LedgerTakes, Deliver
    <2> QED BY <2>1 DEF TypeInv, TaskFits, Task
<1>9. CASE Tick \/ Operator \/ (\E n \in wire : DropRequest(n)) \/ UNCHANGED vars
    <2>1. UNCHANGED task
        BY <1>9 DEF Tick, Operator, resolve_item, DropRequest, vars, rowVars, ledgerVars
    <2> QED BY <1>5, <2>1
<1> QED BY <1>5, <1>6, <1>7, <1>8, <1>9 DEF Next, Ledger

\* What is sent behind an attempt that stands is what a worker was let through with.
LEMMA SendsBoundedNext ==
    ASSUME TypeInv, FlightInv, WritesBounded, SendsBounded, [Next]_vars
    PROVE  SendsBounded'
<1> SUFFICES ASSUME NEW m \in DOMAIN attempts', NEW n \in DOMAIN attempts',
                    m < n, attempts'[m].outcome \notin Retryable
             PROVE  Bounded(attempts[n].sent_at, attempts[n].endpoint)'
    BY DEF SendsBounded
<1>1. AttemptsKept
    BY AttemptsKeptNext
<1>2. Len(attempts) \in Nat /\ DOMAIN attempts = 1 .. Len(attempts)
    BY NumbersInRange
<1>3. ASSUME m \in DOMAIN attempts, Bounded(attempts'[n].sent_at, attempts'[n].endpoint)
      PROVE  Bounded(attempts[n].sent_at, attempts[n].endpoint)'
    <2>1. 1 \in DOMAIN attempts
        BY <1>2, <1>3
    <2> QED BY <1>1, <1>3, <2>1, StandingKept
<1>4. CASE n \in DOMAIN attempts
    <2>1. m \in DOMAIN attempts
        <3>1. m \in Nat /\ m >= 1
            BY TypeNext, NumbersInRange DEF TypeInv, TypeOK, RowsTyped
        <3> QED BY <1>2, <1>4, <3>1
    <2>2. attempts[m].outcome \notin Retryable
        BY <1>1, <2>1, StandingKept
    <2>3. Bounded(attempts[n].sent_at, attempts[n].endpoint)
        BY <1>4, <2>1, <2>2 DEF SendsBounded
    <2>4. attempts'[n].sent_at = attempts[n].sent_at /\ attempts'[n].endpoint = attempts[n].endpoint
        BY <1>1, <1>4 DEF AttemptsKept
    <2> QED BY <1>3, <2>1, <2>3, <2>4
<1>5. ASSUME NEW w \in Workers, WriteAhead(w), task[w].attempt_no \notin DOMAIN attempts
      PROVE  Bounded(attempts[n].sent_at, attempts[n].endpoint)'
    <2>1. CASE n = Len(attempts) + 1
        <3>1. /\ attempts'[n].sent_at = task[w].now /\ attempts'[n].endpoint = task[w].endpoint
              /\ m \in DOMAIN attempts /\ attempts'[m] = attempts[m]
              /\ task[w].attempt_no = Len(attempts) + 1 /\ task[w].pc = "write"
            BY <1>2, <1>5, <2>1, InsertedRow DEF written_row, WriteAhead
        <3>2. Standing
            BY <3>1 DEF Standing
        <3>3. Bounded(task[w].now, task[w].endpoint)
            BY <3>1, <3>2 DEF WritesBounded
        <3> QED BY <1>3, <3>1, <3>3
    <2>2. CASE n # Len(attempts) + 1
        <3>1. n \in DOMAIN attempts
            BY <1>2, <1>5, <2>2, InsertedRow
        <3> QED BY <1>4, <3>1
    <2> QED BY <2>1, <2>2
<1> QED BY <1>4, <1>5, InsertedOrKept

\* Every step keeps PostedAfter.
LEMMA PostedAfterNext ==
    TypeInv /\ FlightInv /\ ClockRead /\ PostedAfter /\ [Next]_vars => PostedAfter'
<1> SUFFICES ASSUME TypeInv, FlightInv, ClockRead, PostedAfter, [Next]_vars
             PROVE  PostedAfter'
    OBVIOUS
<1>1. AttemptsKept
    BY AttemptsKeptNext
<1>2. /\ clock \in Nat /\ Len(attempts) \in Nat /\ DOMAIN attempts = 1 .. Len(attempts)
      /\ \A n \in DOMAIN attempts : attempts[n].sent_at \in Nat
      /\ \A a \in applied : a.at \in Nat /\ a.no \in DOMAIN attempts
      /\ \A w \in Workers : task[w].now \in Nat
    BY InstantsTyped, NumbersInRange
<1>3. ASSUME UNCHANGED applied, clock' \in Nat, clock <= clock',
             DOMAIN attempts' = DOMAIN attempts
      PROVE  PostedAfter'
    BY <1>1, <1>2, <1>3 DEF PostedAfter, AttemptsKept
<1>4. ASSUME NEW w \in Workers, WriteAhead(w), task[w].attempt_no \notin DOMAIN attempts
      PROVE  PostedAfter'
    <2>1. /\ DOMAIN attempts' = 1 .. Len(attempts) + 1
          /\ \A n \in DOMAIN attempts : attempts'[n] = attempts[n]
          /\ attempts'[Len(attempts) + 1].sent_at = task[w].now
          /\ UNCHANGED <<applied, clock>>
        BY <1>4, InsertedRow DEF WriteAhead, written_row, ledgerVars
    <2>2. task[w].now <= clock
        BY DEF ClockRead
    <2>3. \A n \in DOMAIN attempts' : attempts'[n].sent_at <= clock'
        BY <1>2, <2>1, <2>2 DEF PostedAfter
    <2>4. ASSUME NEW a \in applied
          PROVE  /\ a.endpoint = attempts'[a.no].endpoint
                 /\ \A n \in DOMAIN attempts' : n <= a.no => attempts'[n].sent_at <= a.at
        <3>1. a.no \in DOMAIN attempts
            BY <1>2
        <3>2. \A n \in DOMAIN attempts' : n <= a.no => n \in DOMAIN attempts
            BY <1>2, <2>1, <3>1
        <3> QED BY <2>1, <3>1, <3>2 DEF PostedAfter
    <2> QED BY <2>1, <2>3, <2>4 DEF PostedAfter
<1>5. ASSUME NEW n \in wire, NEW answer \in Answers, LedgerTakes(n, answer)
      PROVE  PostedAfter'
    <2> DEFINE posting == [no |-> n, at |-> clock, endpoint |-> attempts[n].endpoint]
    <2>1. /\ UNCHANGED <<attempts, clock>> /\ applied' \subseteq applied \cup {posting}
        BY <1>5 DEF LedgerTakes, rowVars
    <2>2. posting.no = n /\ posting.at = clock /\ posting.endpoint = attempts[n].endpoint
        OBVIOUS
    <2> HIDE DEF posting
    <2> QED BY <2>1, <2>2 DEF PostedAfter
<1>6. CASE Tick
    <2>1. clock' = clock + 1 /\ UNCHANGED <<attempts, applied>>
        BY <1>6 DEF Tick, rowVars, ledgerVars
    <2> QED BY <1>2, <1>3, <2>1
<1>7. UNCHANGED <<applied, clock>> \/ Tick \/ \E n \in wire, answer \in Answers : LedgerTakes(n, answer)
    BY DEF Next, Dispatch, DispatchGate, WriteAhead, AdapterPost, ConnectFails,
        AnswerUnknown, PostRaises, RecordOutcome, RetryPass, run_due_once, attempt_one,
        resolve_not_sent, retry_or_dead_letter, dead_letter_rejection, Replay,
        replay_dead_letter, close_entry, ReconcilePass, reconcile_once,
        get_by_operation_id, reconcile_by_query, open_item, Crash, Operator, resolve_item,
        Ledger, DropRequest, vars, ledgerVars
<1>8. CASE UNCHANGED <<applied, clock>> /\ DOMAIN attempts' = DOMAIN attempts
    BY <1>2, <1>3, <1>8
<1> QED BY <1>4, <1>5, <1>6, <1>7, <1>8, InsertedOrKept

-------------------------------------------------------------------------------
\* What the key must be for the bounds of the gate to cover what is still on its way: it
\* never expires, or a request lands in the tick its send is dated with (the gate measures
\* the window to the clock it read, and not to the last instant the request may land).
KeyOutlastsFlight ==
    \/ Caps.idempotency_window = Unbounded
    \/ MaxStall < Caps.max_inflight_window /\ Caps.max_inflight_window <= 1

\* The key holds wherever the operation is sent: its scope has no endpoint in it, or
\* there is one endpoint only.
OneScope == Caps.idempotency_scope # "per_endpoint" \/ \A e, f \in Endpoints : e = f

\* The request that arrives behind a posting finds the key held.
LEMMA KeyCatches ==
    ASSUME suppresses_duplicates, KeyOutlastsFlight, "partially_applied" \notin Answers,
           TypeInv, FlightInv, SendsBounded, PostedAfter,
           Caps.idempotency_window = Unbounded \/ QueryInv,
           OneScope \/ NoneTurnedAway,
           NEW n \in wire, NEW a \in applied
    PROVE  KeyHeld(attempts[n].endpoint)
<1>1. /\ clock \in Nat /\ Len(attempts) \in Nat /\ DOMAIN attempts = 1 .. Len(attempts)
      /\ \A m \in DOMAIN attempts : attempts[m].sent_at \in Nat
      /\ a.at \in Nat /\ a.no \in DOMAIN attempts /\ n \in DOMAIN attempts
      /\ Caps.max_inflight_window \in Nat
    BY InstantsTyped, NumbersInRange, WindowsTyped
<1>2. attempts[n].outcome \notin Retryable /\ attempts[a.no].outcome \notin Retryable
    <2>1. a.no \in Effects
        BY DEF Effects
    <2> QED BY <1>1, <2>1 DEF FlightInv, EvidenceTruthful, Retryable
<1>3. a.no # n
    BY DEF FlightInv, RequestOnce, Effects
<1>4. 1 \in DOMAIN attempts
    BY <1>1
<1>5. ASSUME NEW m \in DOMAIN attempts, NEW k \in DOMAIN attempts, m < k,
             attempts[m].outcome \notin Retryable
      PROVE  /\ Caps.idempotency_scope = "per_endpoint" =>
                    attempts[k].endpoint = attempts[1].endpoint
             /\ \/ Caps.idempotency_window = Unbounded
                \/ attempts[k].sent_at - attempts[1].sent_at < Caps.idempotency_window
    <2>1. Bounded(attempts[k].sent_at, attempts[k].endpoint)
        BY <1>5 DEF SendsBounded
    <2> QED BY <2>1 DEF Bounded, resend_is_within_bounds
<1>6. ASSUME Caps.idempotency_scope = "per_endpoint"
      PROVE  a.endpoint = attempts[n].endpoint
    <2>1. a.endpoint = attempts[a.no].endpoint
        BY DEF PostedAfter
    <2>2. CASE OneScope
        <3>1. attempts[a.no] \in PostingAttempt /\ attempts[n] \in PostingAttempt
            BY <1>1 DEF TypeInv, TypeOK, RowsTyped
        <3> QED BY <1>6, <2>1, <2>2, <3>1 DEF OneScope, PostingAttempt
    <2>3. CASE NoneTurnedAway
        <3>1. attempts[1].outcome \notin Retryable
            BY <1>4, <2>3 DEF NoneTurnedAway
        <3>2. \A k \in DOMAIN attempts : attempts[k].endpoint = attempts[1].endpoint
            BY <1>1, <1>4, <1>5, <1>6, <3>1
        <3> QED BY <1>1, <2>1, <3>2
    <2> QED BY <2>2, <2>3
<1>7. CASE Caps.idempotency_window = Unbounded
    BY <1>6, <1>7 DEF KeyHeld
<1>8. CASE Caps.idempotency_window # Unbounded
    <2> DEFINE W == Caps.idempotency_window
               s == [k \in DOMAIN attempts |-> attempts[k].sent_at]
    <2>1. W \in Nat
        BY <1>8, CapabilityAssumption DEF Caps, effective_capabilities,
            LedgerAdapterCapabilities
    <2>2. Caps.max_inflight_window <= 1 /\ LandsInWindow
        BY <1>8 DEF KeyOutlastsFlight, QueryInv
    <2>3. s[1] \in Nat /\ s[n] \in Nat /\ s[a.no] \in Nat
        BY <1>1, <1>4
    <2>4. clock - s[n] < Caps.max_inflight_window
        BY <1>1, <2>2 DEF LandsInWindow
    <2>5. a.at - s[a.no] < Caps.max_inflight_window
        BY <1>1, <2>2 DEF LandsInWindow
    <2>6. s[1] <= a.at
        BY <1>1, <1>4 DEF PostedAfter
    <2>7. a.no < n => s[n] - s[1] < W
        BY <1>1, <1>2, <1>4, <1>5, <1>8
    <2>8. n < a.no => s[a.no] - s[1] < W /\ s[n] <= a.at
        BY <1>1, <1>2, <1>4, <1>5, <1>8 DEF PostedAfter
    <2>9. a.no < n \/ n < a.no
        BY <1>1, <1>3
    <2> HIDE DEF s
    <2>10. clock <= s[n] /\ a.at <= s[a.no]
        BY <1>1, <2>2, <2>3, <2>4, <2>5
    <2> HIDE DEF W
    <2>11. clock \in Nat /\ a.at \in Nat
        BY <1>1
    <2>12. clock - a.at < W
        <3>1. CASE a.no < n
            BY <2>1, <2>3, <2>7, <2>6, <2>10, <2>11, <3>1
        <3>2. CASE n < a.no
            BY <2>1, <2>3, <2>8, <2>6, <2>10, <2>11, <3>2
        <3> QED BY <2>9, <3>1, <3>2
    <2> QED BY <1>6, <2>12 DEF KeyHeld, W
<1> QED BY <1>7, <1>8

\* Where the key outlasts what is on its way, the ledger moves its books once.
LEMMA OneEffectNext ==
    ASSUME suppresses_duplicates, KeyOutlastsFlight, "partially_applied" \notin Answers,
           TypeInv, FlightInv, SendsBounded, PostedAfter,
           Caps.idempotency_window = Unbounded \/ QueryInv,
           OneScope \/ NoneTurnedAway,
           AtMostOneEffect, partial = {}, [Next]_vars
    PROVE  AtMostOneEffect' /\ partial' = {}
<1>1. ASSUME UNCHANGED <<applied, partial>> PROVE AtMostOneEffect' /\ partial' = {}
    BY <1>1 DEF AtMostOneEffect, Effects
<1>2. ASSUME NEW n \in wire, NEW answer \in Answers, LedgerTakes(n, answer)
      PROVE  AtMostOneEffect' /\ partial' = {}
    <2> DEFINE posting == [no |-> n, at |-> clock, endpoint |-> attempts[n].endpoint]
    <2>1. partial' = {} /\ (applied' = applied \/ applied' = applied \cup {posting})
        BY <1>2 DEF LedgerTakes
    <2>2. applied # {} => applied' = applied
        BY <1>2, KeyCatches DEF LedgerTakes
    <2>3. \A a, b \in applied' : a = b
        BY <2>1, <2>2 DEF AtMostOneEffect
    <2>4. \A k, m \in Effects' : k = m
        BY <2>1, <2>3 DEF Effects
    <2> QED BY <2>1, <2>3, <2>4 DEF AtMostOneEffect
<1>3. UNCHANGED <<applied, partial>> \/ \E n \in wire, answer \in Answers : LedgerTakes(n, answer)
    BY DEF Next, Dispatch, DispatchGate, WriteAhead, AdapterPost, ConnectFails,
        AnswerUnknown, PostRaises, RecordOutcome, RetryPass, run_due_once, attempt_one,
        resolve_not_sent, retry_or_dead_letter, dead_letter_rejection, Replay,
        replay_dead_letter, close_entry, ReconcilePass, reconcile_once,
        get_by_operation_id, reconcile_by_query, open_item, Crash, Operator, resolve_item,
        Ledger, DropRequest, Tick, vars, ledgerVars
<1> QED BY <1>1, <1>2, <1>3

\* Nothing has been sent at the start.
LEMMA KeyInit == Init => KeyInv
BY QueryInit DEF Init, KeyInv, GateSees, Standing, WritesBounded, SendsBounded, PostedAfter,
    AtMostOneEffect, Effects, IdleTask, QueryInv

\* Against a ledger that enforces the key, behind one endpoint or a scope with no endpoint
\* in it, the books move once at most, however often the operation is sent again and
\* whatever answers are lost: provided the key outlasts what is on its way, and no answer
\* that an attempt was turned away is recorded over an attempt that stands.
THEOREM EnforcedPostsOnce ==
    ASSUME suppresses_duplicates, KeyOutlastsFlight, "partially_applied" \notin Answers,
           OneScope
    PROVE  Spec /\ [][~Overwritten]_vars => []AtMostOneEffect
<1> DEFINE Reads == Caps.idempotency_window = Unbounded \/ QueryInv
<1>1. TypeInv /\ FlightInv /\ Reads /\ [Next]_vars => Reads'
    BY QueryNext DEF KeyOutlastsFlight
<1>2. TypeInv /\ FlightInv /\ Reads /\ KeyInv /\ [Next]_vars /\ [~Overwritten]_vars => KeyInv'
    <2>1. UNCHANGED vars => ~Overwritten
        BY NullAssumption DEF vars, rowVars, Overwritten, Retryable, OutcomeCode
    <2> QED BY <2>1, GateSeesNext, WritesBoundedNext, SendsBoundedNext, ClockReadNext,
            PostedAfterNext, OneEffectNext DEF KeyInv
<1>3. Init => Reads /\ KeyInv
    BY QueryInit, KeyInit
<1>4. KeyInv => AtMostOneEffect
    BY DEF KeyInv
<1> HIDE DEF Reads
<1> QED BY <1>1, <1>2, <1>3, <1>4, TypeInvariant, FlightInvariant, PTL DEF Spec

\* Against a ledger that enforces the key and turns no request away, the books move once
\* at most, whatever the key's scope: a re-send goes to the endpoint that was sent to
\* first, or not at all.
THEOREM EnforcedPostsOnceWhereAnswered ==
    ASSUME suppresses_duplicates, KeyOutlastsFlight, "partially_applied" \notin Answers,
           NeverTurnsAway
    PROVE  Spec => []AtMostOneEffect
<1> DEFINE Reads == Caps.idempotency_window = Unbounded \/ QueryInv
<1>1. TypeInv /\ FlightInv /\ Reads /\ [Next]_vars => Reads'
    BY QueryNext DEF KeyOutlastsFlight
<1>2. TypeInv /\ FlightInv /\ NoneTurnedAway /\ [Next]_vars => NoneTurnedAway' /\ ~Overwritten
    <2> SUFFICES ASSUME TypeInv, FlightInv, NoneTurnedAway, [Next]_vars, NoneTurnedAway'
                 PROVE  ~Overwritten
        BY NoneTurnedAwayNext
    <2> QED BY AttemptsKeptNext DEF Overwritten, NoneTurnedAway, AttemptsKept
<1>3. TypeInv /\ FlightInv /\ Reads /\ NoneTurnedAway /\ KeyInv /\ [Next]_vars => KeyInv'
    BY <1>2, GateSeesNext, WritesBoundedNext, SendsBoundedNext, ClockReadNext,
       PostedAfterNext, OneEffectNext DEF KeyInv
<1>4. Init => Reads /\ NoneTurnedAway /\ KeyInv
    BY QueryInit, KeyInit DEF Init, NoneTurnedAway, IdleTask
<1>5. KeyInv => AtMostOneEffect
    BY DEF KeyInv
<1> HIDE DEF Reads
<1> QED BY <1>1, <1>2, <1>3, <1>4, <1>5, TypeInvariant, FlightInvariant, PTL DEF Spec
===============================================================================
