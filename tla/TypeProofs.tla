------------------------------ MODULE TypeProofs ------------------------------
(***************************************************************************)
(* Type correctness of the control plane, for every value of the           *)
(* constants: the rows, tasks and books stay in their sets, and a worker   *)
(* only ever holds the locals that the step it is at will use.             *)
(***************************************************************************)
EXTENDS ControlPlane, FiniteSetTheorems, SequenceTheorems, TLAPS

\* Program points at which a worker works for an attempt row it has inserted.
Owning == {"post", "await", "record", "not_sent"}

\* What a worker's locals are where they are used, against the number of attempt
\* rows and the existence of a dead letter.
TaskFits(t, rows, letter) ==
    /\ t \in Task
    /\ t.pc # "idle" => t.endpoint \in Endpoints
    /\ t.pc = "write" => t.attempt_no \in 1 .. rows + 1
    /\ t.pc \in Owning => t.attempt_no \in 1 .. rows
    /\ t.pc = "record" => t.got \in OutcomeCode
    /\ t.pc = "queried" => t.got \in QueryAnswer
    /\ t.pc = "recover" => t.reason \in RecoveryReason
    /\ (t.job = "replay" \/ t.pc = "close") => letter

TypeInv ==
    /\ TypeOK
    /\ \A w \in Workers : TaskFits(task[w], Len(attempts), dlq # NULL)

-------------------------------------------------------------------------------
\* A non-empty set of bounded numbers has a greatest one (last_sent_at and the run of
\* not_found answers read it).
LEMMA MaxExists ==
    ASSUME NEW b \in Nat, NEW S \in SUBSET (0 .. b), S # {}
    PROVE  Max(S) \in S /\ \A s \in S : Max(S) >= s
<1> DEFINE T == {b - s : s \in S}
<1>1. T \subseteq Nat /\ T # {}
    <2>1. ASSUME NEW s \in S PROVE b - s \in Nat
        OBVIOUS
    <2>2. PICK s \in S : TRUE
        OBVIOUS
    <2>3. b - s \in T
        OBVIOUS
    <2> QED BY <2>1, <2>2, <2>3
<1>2. PICK x \in T : \A y \in T : ~(<<y, x>> \in OpToRel(<, Nat))
    <2> HIDE DEF T
    <2> QED BY <1>1, WFMin, NatLessThanWellFounded
<1>3. \A y \in T : x <= y
    <2> SUFFICES ASSUME NEW y \in T PROVE x <= y
        OBVIOUS
    <2>1. x \in Nat /\ y \in Nat
        BY <1>1
    <2>2. ~(y < x)
        BY <1>2, <2>1 DEF OpToRel
    <2> QED BY <2>1, <2>2
<1>4. PICK m \in S : x = b - m
    OBVIOUS
<1>5. \A s \in S : m >= s
    <2> SUFFICES ASSUME NEW s \in S PROVE m >= s
        OBVIOUS
    <2>1. b - m <= b - s
        BY <1>3, <1>4
    <2>2. m \in 0 .. b /\ s \in 0 .. b
        OBVIOUS
    <2> QED BY <2>1, <2>2
<1>6. \E n \in S : \A s \in S : n >= s
    BY <1>5
<1> HIDE DEF T
<1> QED BY <1>6, Zenon DEF Max

\* The idle task is a task and holds nothing.
LEMMA IdleTaskFits ==
    ASSUME NEW rows, NEW letter
    PROVE  TaskFits(IdleTask, rows, letter)
BY ModelAssumption DEF TaskFits, IdleTask, Task, Time, Owning

\* A step that gives worker w the task t and lets rows and books stay in their sets.
LEMMA TypeStep ==
    ASSUME TypeInv, NEW w \in Workers, NEW t, Become(w, t),
           RowsTyped', LedgerTyped',
           Len(attempts) <= Len(attempts'), dlq # NULL => dlq' # NULL,
           TaskFits(t, Len(attempts'), dlq' # NULL)
    PROVE  TypeInv'
<1>1. /\ task' \in [Workers -> Task]
      /\ \A v \in Workers : task'[v] = IF v = w THEN t ELSE task[v]
    BY DEF TypeInv, TypeOK, TaskFits, Become
<1>2. Len(attempts) \in Nat /\ Len(attempts') \in Nat
    BY DEF TypeInv, TypeOK, RowsTyped
<1>3. ASSUME NEW v \in Workers, v # w
      PROVE  TaskFits(task'[v], Len(attempts'), dlq' # NULL)
    <2>1. TaskFits(task[v], Len(attempts), dlq # NULL) /\ task'[v] = task[v]
        BY <1>1, <1>3 DEF TypeInv
    <2> QED BY <1>2, <2>1 DEF TaskFits, Task
<1> QED BY <1>1, <1>3 DEF TypeInv, TypeOK

\* A step that changes one task, and neither rows nor books.
LEMMA TypeTaskStep ==
    ASSUME TypeInv, NEW w \in Workers, NEW t, Become(w, t),
           UNCHANGED <<rowVars, ledgerVars, clock, crashes>>,
           TaskFits(t, Len(attempts), dlq # NULL)
    PROVE  TypeInv'
<1>1. RowsTyped' /\ LedgerTyped'
    BY DEF TypeInv, TypeOK, RowsTyped, LedgerTyped, rowVars, ledgerVars
<1>2. Len(attempts') = Len(attempts) /\ Len(attempts) \in Nat /\ dlq' = dlq
    BY DEF TypeInv, TypeOK, RowsTyped, rowVars
<1> QED BY <1>1, <1>2, TypeStep

-------------------------------------------------------------------------------
\* One lemma per action.
LEMMA TypeDispatchGate ==
    ASSUME TypeInv, NEW w \in Workers, DispatchGate(w)
    PROVE  TypeInv'
<1> DEFINE t == [task[w] EXCEPT !.pc = "write", !.attempt_no = Len(attempts) + 1]
<1>1. Len(attempts) \in Nat /\ TaskFits(task[w], Len(attempts), dlq # NULL)
    BY DEF TypeInv, TypeOK, RowsTyped
<1>2. task[w].pc = "gate"
    BY DEF DispatchGate
<1>4. TaskFits(t, Len(attempts), dlq # NULL)
    <2>1. t \in Task
        <3>1. task[w] \in Task /\ Len(attempts) + 1 \in Nat
            BY <1>1 DEF TaskFits
        <3>2. [task[w] EXCEPT !.pc = "write"] \in Task
            BY <3>1 DEF Task
        <3> QED BY <3>1, <3>2 DEF Task
    <2>2. t.attempt_no = Len(attempts) + 1 /\ t.pc = "write"
        BY <1>1 DEF TaskFits, Task
    <2>3. t.endpoint \in Endpoints /\ t.job = task[w].job
        BY <1>1, <1>2 DEF TaskFits, Task
    <2> HIDE DEF t
    <2> QED BY <1>1, <2>1, <2>2, <2>3 DEF TaskFits, Owning
<1>3. Become(w, t) \/ Become(w, IdleTask)
    BY DEF DispatchGate, Finish
<1> QED BY <1>3, <1>4, TypeTaskStep, IdleTaskFits DEF DispatchGate

\* Transaction 2 adds the row of its number or gives up.
LEMMA TypeWriteAhead ==
    ASSUME TypeInv, NEW w \in Workers, WriteAhead(w)
    PROVE  TypeInv'
<1> DEFINE t == [task[w] EXCEPT !.pc = "post"]
<1>1. /\ Len(attempts) \in Nat /\ attempts \in Seq(PostingAttempt)
      /\ DOMAIN attempts = 1 .. Len(attempts)
      /\ TaskFits(task[w], Len(attempts), dlq # NULL)
    BY DEF TypeInv, TypeOK, RowsTyped
<1>2. CASE task[w].attempt_no \in DOMAIN attempts
    <2>1. Become(w, IdleTask) /\ UNCHANGED <<rowVars, ledgerVars, clock, crashes>>
        BY <1>2 DEF WriteAhead, Finish, rowVars
    <2> QED BY <2>1, TypeTaskStep, IdleTaskFits
<1>3. CASE task[w].attempt_no \notin DOMAIN attempts
    <2>1. written_row(w) \in PostingAttempt
        BY <1>1 DEF TaskFits, Task, written_row, PostingAttempt, WriteAhead, AttemptState
    <2>2. /\ attempts' \in Seq(PostingAttempt)
          /\ Len(attempts') = Len(attempts) + 1
          /\ DOMAIN attempts' = 1 .. Len(attempts) + 1
        BY <1>1, <1>3, <2>1, AppendProperties DEF WriteAhead
    <2>3. RowsTyped'
        BY <1>3, <2>2 DEF TypeInv, TypeOK, RowsTyped, WriteAhead, emit, AuditTool
    <2>4. LedgerTyped'
        BY <1>1, <1>3, <2>2
        DEF TypeInv, TypeOK, LedgerTyped, WriteAhead, ledgerVars
    <2>5. TaskFits(t, Len(attempts'), dlq' # NULL)
        BY <1>1, <1>3, <2>2 DEF TaskFits, Task, Owning, WriteAhead
    <2>6. Become(w, t) /\ dlq' = dlq
        BY <1>3 DEF WriteAhead, Goto
    <2> QED BY <1>1, <2>2, <2>3, <2>4, <2>5, <2>6, TypeStep
<1> QED BY <1>2, <1>3

\* Only a number that has its row enters the wire.
LEMMA TypeAdapterPost ==
    ASSUME TypeInv, NEW w \in Workers, AdapterPost(w)
    PROVE  TypeInv'
<1> DEFINE t == [task[w] EXCEPT !.pc = "await"]
<1>1. /\ Len(attempts) \in Nat /\ DOMAIN attempts = 1 .. Len(attempts)
      /\ TaskFits(task[w], Len(attempts), dlq # NULL)
    BY DEF TypeInv, TypeOK, RowsTyped
<1>2. attempts' = attempts /\ dlq' = dlq /\ RowsTyped'
    BY DEF TypeInv, TypeOK, RowsTyped, AdapterPost, rowVars
<1>3. task[w].attempt_no \in DOMAIN attempts
    BY <1>1 DEF TaskFits, Owning, AdapterPost
<1>4. LedgerTyped'
    BY <1>2, <1>3 DEF TypeInv, TypeOK, LedgerTyped, AdapterPost
<1>5. TaskFits(t, Len(attempts), dlq # NULL) /\ Become(w, t)
    BY <1>1 DEF TaskFits, Task, Owning, AdapterPost, Goto
<1> QED BY <1>1, <1>2, <1>4, <1>5, TypeStep

\* A failed connection keeps the number.
LEMMA TypeConnectFails ==
    ASSUME TypeInv, NEW w \in Workers, ConnectFails(w)
    PROVE  TypeInv'
<1> DEFINE t == [task[w] EXCEPT !.pc = "not_sent"]
<1>1. TaskFits(task[w], Len(attempts), dlq # NULL)
    BY DEF TypeInv
<1>2. TaskFits(t, Len(attempts), dlq # NULL)
    BY <1>1 DEF TaskFits, Task, Owning, ConnectFails
<1>3. Become(w, t) \/ Become(w, IdleTask)
    BY DEF ConnectFails, Finish, Goto
<1> QED BY <1>2, <1>3, TypeTaskStep, IdleTaskFits DEF ConnectFails

\* An answer of "unknown" is an outcome code.
LEMMA TypeAnswerUnknown ==
    ASSUME TypeInv, NEW w \in Workers, AnswerUnknown(w)
    PROVE  TypeInv'
<1> DEFINE t == [task[w] EXCEPT !.pc = "record", !.got = "unknown"]
<1>1. TaskFits(task[w], Len(attempts), dlq # NULL)
    BY DEF TypeInv
<1>2. TaskFits(t, Len(attempts), dlq # NULL)
    BY <1>1 DEF TaskFits, Task, Owning, OutcomeCode, AnswerUnknown
<1> QED BY <1>2, TypeTaskStep DEF AnswerUnknown

\* A raise ends the job.
LEMMA TypePostRaises ==
    ASSUME TypeInv, NEW w \in Workers, PostRaises(w)
    PROVE  TypeInv'
BY TypeTaskStep, IdleTaskFits DEF PostRaises, Finish

\* Transaction 3 writes an outcome code into a row that exists.
LEMMA TypeRecordOutcome ==
    ASSUME TypeInv, NEW w \in Workers, RecordOutcome(w)
    PROVE  TypeInv'
<1> DEFINE n == task[w].attempt_no
           next == after_outcome(task[w].job, task[w].got)
           t == IF next = "idle" THEN IdleTask ELSE [task[w] EXCEPT !.pc = next]
           ok == /\ OutboxPermits(recorded_outbox(w))
                 /\ AttemptPermits(n, recorded_attempt(w))
<1>1. /\ Len(attempts) \in Nat /\ attempts \in Seq(PostingAttempt)
      /\ DOMAIN attempts = 1 .. Len(attempts)
      /\ TaskFits(task[w], Len(attempts), dlq # NULL)
    BY DEF TypeInv, TypeOK, RowsTyped
<1>2. CASE ~ok
    <2>1. Become(w, IdleTask) /\ UNCHANGED <<rowVars, ledgerVars, clock, crashes>>
        BY <1>2 DEF RecordOutcome, Finish, rowVars
    <2> QED BY <2>1, TypeTaskStep, IdleTaskFits
<1>3. CASE ok
    <2>1. n \in 1 .. Len(attempts) /\ task[w].got \in OutcomeCode
        BY <1>1 DEF TaskFits, Owning, RecordOutcome
    <2>2. attempts[n] \in PostingAttempt
        BY <1>1, <2>1, ElementOfSeq
    <2>3. recorded_attempt(w) \in PostingAttempt
        BY <2>1, <2>2 DEF recorded_attempt, PostingAttempt, AttemptState
    <2>4. /\ attempts' \in Seq(PostingAttempt)
          /\ Len(attempts') = Len(attempts)
          /\ DOMAIN attempts' = DOMAIN attempts
        <3>1. attempts' = [attempts EXCEPT ![n] = recorded_attempt(w)]
            BY <1>3 DEF RecordOutcome
        <3> QED BY <1>1, <2>1, <2>3, <3>1, ExceptSeq
    <2>5. recorded_outbox(w) \in Outbox
        BY <1>1, <2>1 DEF TypeInv, TypeOK, RowsTyped, TaskFits, Task,
            recorded_outbox, Outbox, DispatchState
    <2>6. RowsTyped'
        <3>1. posting_ref' \in BOOLEAN
            BY <1>3, Zenon DEF RecordOutcome
        <3>2. trail' \in [AuditTool -> Nat]
            BY <1>3 DEF TypeInv, TypeOK, RowsTyped, RecordOutcome, emit, AuditTool
        <3>3. outbox' \in Outbox /\ UNCHANGED <<dlq, queries, recovery>>
            BY <1>3, <2>5 DEF RecordOutcome
        <3> QED BY <2>4, <3>1, <3>2, <3>3 DEF TypeInv, TypeOK, RowsTyped
    <2>7. LedgerTyped' /\ dlq' = dlq
        BY <2>4 DEF TypeInv, TypeOK, LedgerTyped, RecordOutcome, ledgerVars
    <2>8. \/ next \in {"idle", "bury", "budget"}
          \/ next = "close" /\ task[w].job = "replay"
        <3>1. next = "close" => task[w].job = "replay"
            BY Zenon DEF after_outcome
        <3>2. next \in {"idle", "bury", "budget", "close"}
            BY Zenon DEF after_outcome
        <3> QED BY <3>1, <3>2
    <2>9. TaskFits(t, Len(attempts), dlq # NULL)
        BY <1>1, <2>8, IdleTaskFits DEF TaskFits, Task, Owning, RecordOutcome
    <2>10. Become(w, t)
        <3>1. IF next = "idle" THEN Finish(w) ELSE Goto(w, next)
            BY <1>3 DEF RecordOutcome
        <3>2. CASE next = "idle"
            BY <3>1, <3>2 DEF Finish
        <3>3. CASE next # "idle"
            BY <3>1, <3>3 DEF Goto
        <3> QED BY <3>2, <3>3
    <2> HIDE DEF t
    <2> QED BY <1>1, <2>4, <2>6, <2>7, <2>9, <2>10, TypeStep
<1> QED BY <1>2, <1>3

\* A job starts with no number and nothing in hand.
LEMMA StartFits ==
    ASSUME TypeInv, NEW ep \in Endpoints,
           NEW job \in {"retry", "replay", "reconcile"},
           NEW p \in {"claimed", "gate", "close"},
           (job = "replay" \/ p = "close") => dlq # NULL
    PROVE  TaskFits(Start(job, p, ep), Len(attempts), dlq # NULL)
<1>1. clock \in Time
    BY DEF TypeInv, TypeOK, LedgerTyped
<1>2. Start(job, p, ep) \in Task
    BY <1>1, ModelAssumption DEF Start, IdleTask, Task
<1>3. /\ Start(job, p, ep).pc = p /\ Start(job, p, ep).job = job
      /\ Start(job, p, ep).endpoint = ep
    BY DEF Start, IdleTask
<1> QED BY <1>2, <1>3 DEF TaskFits, Owning

\* The claim starts a retry.
LEMMA Type_run_due_once ==
    ASSUME TypeInv, NEW w \in Workers, run_due_once(w)
    PROVE  TypeInv'
<1>1. PICK ep \in Endpoints : Become(w, Start("retry", "claimed", ep))
    BY DEF run_due_once
<1> QED BY <1>1, StartFits, TypeTaskStep DEF run_due_once

\* The snapshot lets the job go on or ends it.
LEMMA Type_attempt_one ==
    ASSUME TypeInv, NEW w \in Workers, attempt_one(w)
    PROVE  TypeInv'
<1> DEFINE t == [task[w] EXCEPT !.pc = "gate"]
<1>1. TaskFits(task[w], Len(attempts), dlq # NULL) /\ task[w].pc = "claimed"
    BY DEF TypeInv, attempt_one
<1>2. TaskFits(t, Len(attempts), dlq # NULL)
    BY <1>1 DEF TaskFits, Task, Owning
<1>3. Become(w, t) \/ Become(w, IdleTask)
    BY DEF attempt_one, Finish, Goto
<1> QED BY <1>2, <1>3, TypeTaskStep, IdleTaskFits DEF attempt_one

\* The row resolve_not_sent closes is a row in flight.
LEMMA InFlightChoice ==
    ASSUME TypeInv, Cardinality(InFlight) = 1
    PROVE  /\ (CHOOSE m \in InFlight : TRUE) \in InFlight
           /\ \A m \in InFlight : m = CHOOSE k \in InFlight : TRUE
           /\ InFlight \subseteq 1 .. Len(attempts)
<1>1. InFlight \subseteq 1 .. Len(attempts) /\ Len(attempts) \in Int
    BY DEF TypeInv, TypeOK, RowsTyped, InFlight
<1>2. IsFiniteSet(InFlight)
    <2>1. IsFiniteSet(1 .. Len(attempts))
        BY <1>1, FS_Interval
    <2> QED BY <1>1, <2>1, FS_Subset
<1>3. \E x : InFlight = {x}
    BY <1>2, FS_Singleton
<1> QED BY <1>1, <1>3

\* _resolve_not_sent writes an outcome code into a row that exists.
LEMMA Type_resolve_not_sent ==
    ASSUME TypeInv, NEW w \in Workers, resolve_not_sent(w)
    PROVE  TypeInv'
<1> DEFINE n == CHOOSE m \in InFlight : TRUE
           row == [attempts[n] EXCEPT !.state = "resolved", !.outcome = "not_sent"]
           intent == [outbox EXCEPT !.last_outcome = "not_sent",
                                    !.attempt_count = MaxOf(@, n)]
           ok == Cardinality(InFlight) = 1 /\ OutboxPermits(intent)
           t == IF task[w].job = "retry"
                THEN [task[w] EXCEPT !.pc = "budget", !.attempt_no = n,
                                     !.got = "not_sent"]
                ELSE IdleTask
<1>1. /\ Len(attempts) \in Nat /\ attempts \in Seq(PostingAttempt)
      /\ DOMAIN attempts = 1 .. Len(attempts)
      /\ TaskFits(task[w], Len(attempts), dlq # NULL)
    BY DEF TypeInv, TypeOK, RowsTyped
<1>2. CASE ~ok
    <2>1. Become(w, IdleTask) /\ UNCHANGED <<rowVars, ledgerVars, clock, crashes>>
        BY <1>2 DEF resolve_not_sent, Finish, rowVars
    <2> QED BY <2>1, TypeTaskStep, IdleTaskFits
<1>3. CASE ok
    <2>1. n \in 1 .. Len(attempts)
        BY <1>3, InFlightChoice
    <2>2. attempts[n] \in PostingAttempt
        BY <1>1, <2>1
    <2>3. row \in PostingAttempt
        BY <2>2 DEF PostingAttempt, AttemptState, OutcomeCode
    <2>4. /\ attempts' \in Seq(PostingAttempt)
          /\ Len(attempts') = Len(attempts)
          /\ DOMAIN attempts' = DOMAIN attempts
        <3>1. attempts' = [attempts EXCEPT ![n] = row]
            BY <1>3 DEF resolve_not_sent
        <3> QED BY <1>1, <2>1, <2>3, <3>1, ExceptSeq
    <2>5. intent \in Outbox
        <3>1. MaxOf(outbox.attempt_count, n) \in Nat
            BY <2>1 DEF TypeInv, TypeOK, RowsTyped, Outbox, MaxOf
        <3> QED BY <3>1 DEF TypeInv, TypeOK, RowsTyped, Outbox, OutcomeCode
    <2>6. RowsTyped'
        BY <1>3, <2>4, <2>5
        DEF TypeInv, TypeOK, RowsTyped, resolve_not_sent, emit, AuditTool
    <2>7. LedgerTyped' /\ dlq' = dlq
        BY <2>4 DEF TypeInv, TypeOK, LedgerTyped, resolve_not_sent, ledgerVars
    <2>8. TaskFits(t, Len(attempts), dlq # NULL)
        <3>1. CASE task[w].job = "retry"
            <4>1. task[w] \in Task /\ task[w].pc = "not_sent" /\ n \in Nat
                BY <1>1, <2>1 DEF TaskFits, resolve_not_sent
            <4> HIDE DEF n
            <4>2. [task[w] EXCEPT !.pc = "budget", !.attempt_no = n] \in Task
                BY <4>1 DEF Task
            <4>3. t = [[task[w] EXCEPT !.pc = "budget", !.attempt_no = n]
                        EXCEPT !.got = "not_sent"]
                BY <3>1, <4>1 DEF Task
            <4>4. t \in Task
                BY <4>2, <4>3 DEF Task, OutcomeCode
            <4>5. t.pc = "budget" /\ t.job = "retry" /\ t.endpoint = task[w].endpoint
                BY <3>1, <4>1 DEF Task
            <4> QED BY <1>1, <4>1, <4>4, <4>5 DEF TaskFits, Owning
        <3> QED BY <3>1, IdleTaskFits
    <2>9. Become(w, t)
        <3>1. CASE task[w].job = "retry"
            BY <1>3, <3>1 DEF resolve_not_sent
        <3>2. CASE task[w].job # "retry"
            BY <1>3, <3>2 DEF resolve_not_sent, Finish
        <3> QED BY <3>1, <3>2
    <2> HIDE DEF t
    <2> QED BY <1>1, <2>4, <2>6, <2>7, <2>8, <2>9, TypeStep
<1> QED BY <1>2, <1>3

\* A dead letter and its mark are rows of their types.
LEMMA Type_dead_letter ==
    ASSUME TypeInv, NEW reason \in DeadLetterReason, NEW mark \in BOOLEAN,
           dead_letter(reason, mark),
           UNCHANGED <<posting_ref, attempts, queries, recovery>>
    PROVE  RowsTyped' /\ (dlq # NULL => dlq' # NULL)
<1>1. outbox' \in Outbox
    BY DEF TypeInv, TypeOK, RowsTyped, dead_letter, Outbox, DispatchState
<1>2. dlq' \in DeadLetter \cup {NULL}
    BY DEF TypeInv, TypeOK, RowsTyped, dead_letter, DeadLetter, ReplayState
<1>3. trail' \in [AuditTool -> Nat]
    <2>1. emit("dlq") \/ UNCHANGED trail
        BY DEF dead_letter
    <2> QED BY <2>1 DEF TypeInv, TypeOK, RowsTyped, emit, AuditTool
<1>4. dlq # NULL => dlq' # NULL
    BY DEF dead_letter
<1> QED BY <1>1, <1>2, <1>3, <1>4 DEF TypeInv, TypeOK, RowsTyped

\* The next attempt is scheduled at a natural instant, or a letter is written.
LEMMA Type_retry_or_dead_letter ==
    ASSUME TypeInv, NEW w \in Workers, retry_or_dead_letter(w)
    PROVE  TypeInv'
<1>1. PICK delay \in Delays(w) :
        \/ dead_letter("attempts_exhausted", TRUE)
        \/ dead_letter("time_budget_exhausted", TRUE)
        \/ /\ outbox' = [outbox EXCEPT !.next_attempt_at = task[w].now + delay]
           /\ emit("retry")
           /\ UNCHANGED dlq
    BY DEF retry_or_dead_letter
<1>2. UNCHANGED <<posting_ref, attempts, queries, recovery>>
    BY DEF retry_or_dead_letter
<1>3. delay \in Nat
    <2>1. \A k : backoff_delay(k) \subseteq Nat
        BY DEF backoff_delay
    <2>2. \A after \in RetryAfter, d \in Nat : MaxOf(after, d) \in Nat
        BY LedgerAssumption DEF MaxOf
    <2> QED BY <2>1, <2>2 DEF Delays
<1>4. RowsTyped' /\ (dlq # NULL => dlq' # NULL)
    <2>1. CASE \/ dead_letter("attempts_exhausted", TRUE)
               \/ dead_letter("time_budget_exhausted", TRUE)
        BY <1>2, <2>1, Type_dead_letter DEF DeadLetterReason
    <2>2. CASE /\ outbox' = [outbox EXCEPT !.next_attempt_at = task[w].now + delay]
               /\ emit("retry")
               /\ UNCHANGED dlq
        <3>1. task[w].now + delay \in Nat
            BY <1>3, ModelAssumption DEF TypeInv, TaskFits, Task, Time
        <3>2. outbox' \in Outbox
            BY <2>2, <3>1 DEF TypeInv, TypeOK, RowsTyped, Outbox
        <3>3. trail' \in [AuditTool -> Nat]
            BY <2>2 DEF TypeInv, TypeOK, RowsTyped, emit, AuditTool
        <3> QED BY <1>2, <2>2, <3>2, <3>3 DEF TypeInv, TypeOK, RowsTyped
    <2> QED BY <1>1, <2>1, <2>2
<1>5. LedgerTyped' /\ attempts' = attempts /\ Len(attempts) \in Nat
    BY DEF TypeInv, TypeOK, RowsTyped, LedgerTyped, retry_or_dead_letter, ledgerVars
<1>6. Become(w, IdleTask)
    BY DEF retry_or_dead_letter, Finish
<1> QED BY <1>4, <1>5, <1>6, TypeStep, IdleTaskFits

\* A rejection writes a letter.
LEMMA Type_dead_letter_rejection ==
    ASSUME TypeInv, NEW w \in Workers, dead_letter_rejection(w)
    PROVE  TypeInv'
<1>1. RowsTyped' /\ (dlq # NULL => dlq' # NULL)
    BY Type_dead_letter DEF dead_letter_rejection, DeadLetterReason
<1>2. LedgerTyped' /\ attempts' = attempts /\ Len(attempts) \in Nat
    BY DEF TypeInv, TypeOK, RowsTyped, LedgerTyped, dead_letter_rejection, ledgerVars
<1>3. Become(w, IdleTask)
    BY DEF dead_letter_rejection, Finish
<1> QED BY <1>1, <1>2, <1>3, TypeStep, IdleTaskFits

\* A replay starts as a dispatch or as a closing.
LEMMA Type_replay_dead_letter ==
    ASSUME TypeInv, NEW w \in Workers, replay_dead_letter(w)
    PROVE  TypeInv'
<1>1. PICK ep \in Endpoints :
        Become(w, Start("replay", "close", ep)) \/ Become(w, Start("replay", "gate", ep))
    BY DEF replay_dead_letter
<1> QED BY <1>1, StartFits, TypeTaskStep DEF replay_dead_letter

\* Closing an entry presupposes the entry.
LEMMA Type_close_entry ==
    ASSUME TypeInv, NEW w \in Workers, close_entry(w)
    PROVE  TypeInv'
<1>1. dlq \in DeadLetter
    BY DEF TypeInv, TypeOK, RowsTyped, TaskFits, close_entry
<1>2. dlq' \in DeadLetter /\ dlq' # NULL
    BY <1>1, NullAssumption DEF close_entry, DeadLetter, ReplayState
<1>3. RowsTyped'
    BY <1>2 DEF TypeInv, TypeOK, RowsTyped, close_entry, emit, AuditTool
<1>4. LedgerTyped' /\ attempts' = attempts /\ Len(attempts) \in Nat
    BY DEF TypeInv, TypeOK, RowsTyped, LedgerTyped, close_entry, ledgerVars
<1>5. Become(w, IdleTask)
    BY DEF close_entry, Finish
<1> QED BY <1>2, <1>3, <1>4, <1>5, TypeStep, IdleTaskFits

\* What a pass reads as the last send is an instant or NULL.
LEMMA LastSentAtTyped ==
    ASSUME TypeInv
    PROVE  last_sent_at \in Time \cup {NULL}
<1>1. attempts \in Seq(PostingAttempt) /\ DOMAIN attempts = 1 .. Len(attempts)
    BY DEF TypeInv, TypeOK, RowsTyped
<1> DEFINE S == {attempts[n].sent_at : n \in DOMAIN attempts}
<1>2. CASE attempts # <<>>
    <2>1. S \subseteq Time
        <3>1. \A n \in DOMAIN attempts : attempts[n] \in PostingAttempt
            BY <1>1, ElementOfSeq
        <3> QED BY <3>1 DEF PostingAttempt
    <2>2. S # {}
        <3>1. 1 \in DOMAIN attempts
            BY <1>1, <1>2
        <3> QED BY <3>1
    <2>3. Max(S) \in S
        BY <2>1, <2>2, MaxExists, ModelAssumption DEF Time
    <2> QED BY <1>2, <2>1, <2>3 DEF last_sent_at
<1> QED BY <1>2 DEF last_sent_at

\* Every branch of a pass is a task that holds no number.
LEMMA BranchFits ==
    ASSUME TypeInv, NEW ep \in Endpoints
    PROVE  TaskFits(branch(ep), Len(attempts), dlq # NULL)
<1> DEFINE begin == [Start("reconcile", "recover", ep) EXCEPT
                        !.queries_made = Len(queries), !.last_sent_at = last_sent_at]
<1>1. clock \in Time /\ Len(queries) \in Nat
    BY DEF TypeInv, TypeOK, RowsTyped, LedgerTyped
<1>2. begin \in Task
    BY <1>1, LastSentAtTyped, ModelAssumption DEF Start, IdleTask, Task
<1>3. begin.pc = "recover" /\ begin.job = "reconcile" /\ begin.endpoint = ep
    BY DEF Start, IdleTask
<1>4. \/ \E reason \in RecoveryReason : branch(ep) = [begin EXCEPT !.reason = reason]
      \/ \E p \in {"query", "gate"} : branch(ep) = [begin EXCEPT !.pc = p]
    BY DEF branch, RecoveryReason
<1> HIDE DEF begin
<1>5. ASSUME NEW reason \in RecoveryReason, branch(ep) = [begin EXCEPT !.reason = reason]
      PROVE  TaskFits(branch(ep), Len(attempts), dlq # NULL)
    BY <1>2, <1>3, <1>5 DEF TaskFits, Task, Owning
<1>6. ASSUME NEW p \in {"query", "gate"}, branch(ep) = [begin EXCEPT !.pc = p]
      PROVE  TaskFits(branch(ep), Len(attempts), dlq # NULL)
    BY <1>2, <1>3, <1>6 DEF TaskFits, Task, Owning
<1> QED BY <1>4, <1>5, <1>6

\* A pass starts on one of its branches.
LEMMA Type_reconcile_once ==
    ASSUME TypeInv, NEW w \in Workers, reconcile_once(w)
    PROVE  TypeInv'
<1>1. PICK ep \in Endpoints : Become(w, branch(ep))
    BY DEF reconcile_once
<1> QED BY <1>1, BranchFits, TypeTaskStep DEF reconcile_once

\* The query brings a query answer.
LEMMA Type_get_by_operation_id ==
    ASSUME TypeInv, NEW w \in Workers, get_by_operation_id(w)
    PROVE  TypeInv'
<1>1. PICK x \in QueryAnswer : Become(w, [task[w] EXCEPT !.pc = "queried", !.got = x])
    BY DEF get_by_operation_id, QueryAnswers
<1> DEFINE t == [task[w] EXCEPT !.pc = "queried", !.got = x]
<1>2. TaskFits(task[w], Len(attempts), dlq # NULL) /\ task[w].pc = "query"
    BY DEF TypeInv, get_by_operation_id
<1>3. TaskFits(t, Len(attempts), dlq # NULL)
    BY <1>2 DEF TaskFits, Task, Owning
<1> QED BY <1>1, <1>3, TypeTaskStep DEF get_by_operation_id

\* The answer is appended, the outcome it settles is an outcome code.
LEMMA Type_reconcile_by_query ==
    ASSUME TypeInv, NEW w \in Workers, reconcile_by_query(w)
    PROVE  TypeInv'
<1> DEFINE verdict_ == conclusion(w)
           settled == [outbox EXCEPT !.last_outcome = verdict_, !.state = "settled"]
           t == [task[w] EXCEPT !.pc = "recover", !.reason = "reconciliation_exhausted"]
<1>1. TaskFits(task[w], Len(attempts), dlq # NULL) /\ task[w].pc = "queried"
    BY DEF TypeInv, reconcile_by_query
<1>2. verdict_ \in {"confirmed", "rejected", NULL}
    BY DEF conclusion
<1>3. settled \in Outbox
    BY <1>2 DEF TypeInv, TypeOK, RowsTyped, Outbox, DispatchState, OutcomeCode
<1>4. outbox' = outbox \/ outbox' = settled
    BY DEF reconcile_by_query
<1>5. queries' \in Seq(QueryAnswer)
    <2>1. task[w].got \in QueryAnswer
        BY <1>1 DEF TaskFits
    <2>2. queries' = queries \/ queries' = Append(queries, task[w].got)
        BY DEF reconcile_by_query
    <2>3. queries \in Seq(QueryAnswer)
        BY DEF TypeInv, TypeOK, RowsTyped
    <2> QED BY <2>1, <2>2, <2>3, AppendProperties
<1>6. posting_ref' \in BOOLEAN
    <2>1. \/ UNCHANGED posting_ref
          \/ posting_ref' = (posting_ref \/ verdict_ = "confirmed")
        BY DEF reconcile_by_query
    <2> QED BY <2>1, Zenon DEF TypeInv, TypeOK, RowsTyped
<1>7. trail' \in [AuditTool -> Nat]
    <2>1. \/ UNCHANGED trail
          \/ emit("reconcile")
          \/ trail' = [trail EXCEPT !["reconcile"] = @ + 2]
        BY DEF reconcile_by_query
    <2> QED BY <2>1 DEF TypeInv, TypeOK, RowsTyped, emit, AuditTool
<1>8. RowsTyped'
    BY <1>3, <1>4, <1>5, <1>6, <1>7 DEF TypeInv, TypeOK, RowsTyped, reconcile_by_query
<1>9. LedgerTyped' /\ attempts' = attempts /\ dlq' = dlq /\ Len(attempts) \in Nat
    BY DEF TypeInv, TypeOK, RowsTyped, LedgerTyped, reconcile_by_query, ledgerVars
<1>10. Become(w, t) \/ Become(w, IdleTask)
    BY DEF reconcile_by_query, Finish
<1>11. TaskFits(t, Len(attempts), dlq # NULL)
    BY <1>1 DEF TaskFits, Task, Owning, RecoveryReason
<1> QED BY <1>8, <1>9, <1>10, <1>11, TypeStep, IdleTaskFits

\* An item is opened with the reason its pass carries.
LEMMA Type_open_item ==
    ASSUME TypeInv, NEW w \in Workers, open_item(w)
    PROVE  TypeInv'
<1> DEFINE item == [reason |-> task[w].reason, state |-> "open",
                    resolution |-> NULL, resolved_by |-> NULL]
<1>1. item \in RecoveryItem
    BY DEF TypeInv, TaskFits, RecoveryItem, open_item
<1>2. recovery' \in Seq(RecoveryItem)
    <2>1. recovery' = recovery \/ recovery' = Append(recovery, item)
        BY DEF open_item
    <2>2. recovery \in Seq(RecoveryItem)
        BY DEF TypeInv, TypeOK, RowsTyped
    <2> QED BY <1>1, <2>1, <2>2, AppendProperties
<1>3. trail' \in [AuditTool -> Nat]
    <2>1. UNCHANGED trail \/ emit("recover")
        BY DEF open_item
    <2> QED BY <2>1 DEF TypeInv, TypeOK, RowsTyped, emit, AuditTool
<1>4. RowsTyped'
    BY <1>2, <1>3 DEF TypeInv, TypeOK, RowsTyped, open_item
<1>5. LedgerTyped' /\ attempts' = attempts /\ dlq' = dlq /\ Len(attempts) \in Nat
    BY DEF TypeInv, TypeOK, RowsTyped, LedgerTyped, open_item, ledgerVars
<1>6. Become(w, IdleTask)
    BY DEF open_item, Finish
<1> QED BY <1>4, <1>5, <1>6, TypeStep, IdleTaskFits

\* A process that dies holds nothing.
LEMMA TypeCrash ==
    ASSUME TypeInv, NEW w \in Workers, Crash(w)
    PROVE  TypeInv'
<1>1. RowsTyped' /\ attempts' = attempts /\ dlq' = dlq /\ Len(attempts) \in Nat
    BY DEF TypeInv, TypeOK, RowsTyped, Crash, rowVars
<1>2. LedgerTyped'
    BY <1>1 DEF TypeInv, TypeOK, LedgerTyped, Crash, ledgerVars
<1>3. Become(w, IdleTask)
    BY DEF Crash, Finish
<1> QED BY <1>1, <1>2, <1>3, TypeStep, IdleTaskFits

\* A resolution is a row of its type.
LEMMA Type_resolve_item ==
    ASSUME TypeInv, NEW i \in DOMAIN recovery, NEW p \in Operators,
           NEW r \in RecoveryResolution, resolve_item(i, p, r)
    PROVE  TypeInv'
<1> DEFINE intent == [outbox EXCEPT
                        !.state = "settled",
                        !.last_outcome = IF r = "confirmed_by_evidence"
                                         THEN "confirmed" ELSE "rejected"]
           item == [recovery[i] EXCEPT !.state = "resolved", !.resolution = r,
                                       !.resolved_by = p]
<1>1. /\ recovery \in Seq(RecoveryItem) /\ i \in 1 .. Len(recovery)
      /\ recovery[i] \in RecoveryItem
    BY ElementOfSeq DEF TypeInv, TypeOK, RowsTyped
<1>2. item \in RecoveryItem
    BY <1>1 DEF RecoveryItem
<1>3. recovery' \in Seq(RecoveryItem)
    <2>1. recovery' = [recovery EXCEPT ![i] = item]
        BY DEF resolve_item
    <2> QED BY <1>1, <1>2, <2>1, ExceptSeq
<1>4. outbox' \in Outbox
    <2>1. intent \in Outbox
        BY DEF TypeInv, TypeOK, RowsTyped, Outbox, DispatchState, OutcomeCode
    <2>2. outbox' = outbox \/ outbox' = intent
        BY DEF resolve_item
    <2> QED BY <2>1, <2>2 DEF TypeInv, TypeOK, RowsTyped
<1>5. posting_ref' \in BOOLEAN
    <2>1. \/ UNCHANGED posting_ref
          \/ posting_ref' = (posting_ref \/ r = "confirmed_by_evidence")
        BY DEF resolve_item
    <2> QED BY <2>1, Zenon DEF TypeInv, TypeOK, RowsTyped
<1>6. trail' \in [AuditTool -> Nat]
    BY DEF TypeInv, TypeOK, RowsTyped, resolve_item, emit, AuditTool
<1>7. UNCHANGED <<attempts, dlq, queries, task, ledgerVars, clock, crashes>>
    BY DEF resolve_item
<1>8. TypeOK'
    BY <1>3, <1>4, <1>5, <1>6, <1>7
    DEF TypeInv, TypeOK, RowsTyped, LedgerTyped, ledgerVars
<1> QED BY <1>7, <1>8 DEF TypeInv

\* The answer delivered is an outcome code.
LEMMA TypeLedgerTakes ==
    ASSUME TypeInv, NEW n \in wire, NEW answer \in Answers, LedgerTakes(n, answer)
    PROVE  TypeInv'
<1>1. RowsTyped' /\ attempts' = attempts /\ dlq' = dlq
    BY DEF TypeInv, TypeOK, RowsTyped, LedgerTakes, rowVars
<1>2. n \in DOMAIN attempts /\ attempts[n].endpoint \in Endpoints
    <2>1. n \in 1 .. Len(attempts) /\ attempts \in Seq(PostingAttempt)
        BY DEF TypeInv, TypeOK, RowsTyped, LedgerTyped
    <2>2. attempts[n] \in PostingAttempt
        BY <2>1, ElementOfSeq
    <2> QED BY <2>1, <2>2 DEF PostingAttempt
<1>3. LedgerTyped'
    BY <1>1, <1>2 DEF TypeInv, TypeOK, LedgerTyped, LedgerTakes
<1>4. answer \in OutcomeCode
    BY LedgerAssumption DEF OutcomeCode
<1>5. ASSUME NEW v \in Workers
      PROVE  TaskFits(task'[v], Len(attempts), dlq # NULL)
    <2> DEFINE t == [task[v] EXCEPT !.pc = "record", !.got = answer]
    <2>1. TaskFits(task[v], Len(attempts), dlq # NULL)
        BY DEF TypeInv
    <2>2. task[v].pc = "await" => TaskFits(t, Len(attempts), dlq # NULL)
        BY <1>4, <2>1 DEF TaskFits, Task, Owning
    <2>3. \/ task'[v] = task[v]
          \/ task[v].pc = "await" /\ task'[v] = t
        BY DEF LedgerTakes, Deliver
    <2> QED BY <2>1, <2>2, <2>3
<1>6. task' \in [Workers -> Task]
    <2>1. \A v \in Workers : task'[v] \in Task
        BY <1>5 DEF TaskFits
    <2> QED BY <2>1 DEF LedgerTakes, Deliver
<1> QED BY <1>1, <1>3, <1>5, <1>6 DEF TypeInv, TypeOK

\* A lost request changes no type.
LEMMA TypeDropRequest ==
    ASSUME TypeInv, NEW n \in wire, DropRequest(n)
    PROVE  TypeInv'
BY DEF TypeInv, TypeOK, RowsTyped, LedgerTyped, DropRequest, rowVars

\* Time stays within its bound.
LEMMA TypeTick ==
    ASSUME TypeInv, Tick
    PROVE  TypeInv'
<1>1. clock' \in Time
    BY ModelAssumption DEF TypeInv, TypeOK, LedgerTyped, Tick, Time
<1> QED BY <1>1 DEF TypeInv, TypeOK, RowsTyped, LedgerTyped, Tick, rowVars, ledgerVars

-------------------------------------------------------------------------------

\* The initial state is typed.
LEMMA TypeInit == Init => TypeInv
<1> SUFFICES ASSUME Init PROVE TypeInv
    OBVIOUS
<1>1. RowsTyped
    <2>1. outbox \in Outbox
        BY DEF Init, Outbox, DispatchState
    <2>2. \A S : <<>> \in Seq(S)
        OBVIOUS
    <2> QED BY <2>1, <2>2 DEF Init, RowsTyped
<1>2. LedgerTyped
    BY ModelAssumption DEF Init, LedgerTyped, Time
<1>3. \A w \in Workers : TaskFits(task[w], Len(attempts), dlq # NULL)
    BY IdleTaskFits DEF Init
<1>4. task \in [Workers -> Task]
    BY IdleTaskFits DEF Init, TaskFits
<1> QED BY <1>1, <1>2, <1>3, <1>4 DEF TypeInv, TypeOK

\* Every step preserves TypeInv.
LEMMA TypeNext == TypeInv /\ [Next]_vars => TypeInv'
<1> SUFFICES ASSUME TypeInv, [Next]_vars PROVE TypeInv'
    OBVIOUS
<1>1. ASSUME NEW w \in Workers, Dispatch(w) PROVE TypeInv'
    BY <1>1, TypeDispatchGate, TypeWriteAhead, TypeAdapterPost, TypeConnectFails,
       TypeAnswerUnknown, TypePostRaises, TypeRecordOutcome DEF Dispatch
<1>2. ASSUME NEW w \in Workers, RetryPass(w) PROVE TypeInv'
    BY <1>2, Type_run_due_once, Type_attempt_one, Type_resolve_not_sent,
       Type_retry_or_dead_letter, Type_dead_letter_rejection DEF RetryPass
<1>3. ASSUME NEW w \in Workers, Replay(w) PROVE TypeInv'
    BY <1>3, Type_replay_dead_letter, Type_close_entry DEF Replay
<1>4. ASSUME NEW w \in Workers, ReconcilePass(w) PROVE TypeInv'
    BY <1>4, Type_reconcile_once, Type_get_by_operation_id, Type_reconcile_by_query,
       Type_open_item DEF ReconcilePass
<1>5. CASE Operator
    BY <1>5, Type_resolve_item DEF Operator
<1>6. CASE Ledger
    BY <1>6, TypeLedgerTakes, TypeDropRequest DEF Ledger
<1>7. CASE UNCHANGED vars
    BY <1>7 DEF TypeInv, TypeOK, RowsTyped, LedgerTyped, vars, rowVars, ledgerVars
<1> QED BY <1>1, <1>2, <1>3, <1>4, <1>5, <1>6, <1>7, TypeCrash, TypeTick DEF Next

\* The rows, tasks and books of every reachable state are in their sets, and every
\* worker holds the locals its next step uses.
THEOREM TypeInvariant == Spec => []TypeInv
BY TypeInit, TypeNext, PTL DEF Spec

\* Type correctness of the control plane for any ledger, policy and set of workers.
THEOREM TypeCorrect == Spec => []TypeOK
<1>1. TypeInv => TypeOK
    BY DEF TypeInv
<1> QED BY <1>1, TypeInvariant, PTL
===============================================================================
