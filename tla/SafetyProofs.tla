----------------------------- MODULE SafetyProofs -----------------------------
(***************************************************************************)
(* What the write-ahead protocol guarantees for every value of the         *)
(* constants: the recorded evidence is true against any ledger, and        *)
(* against a ledger that does not suppress duplicates the books move at    *)
(* most once.                                                              *)
(***************************************************************************)
EXTENDS TypeProofs

\* Outcomes of a request that was turned away in front of the books, and the same
\* with a rejection by them.
Retryable == {"not_sent", "throttled"}
Turned    == Retryable \cup {"rejected"}

\* The check constraint that relates an attempt's state to its outcome.
RowsResolved ==
    \A n \in DOMAIN attempts : attempts[n].state = "resolved" <=> attempts[n].outcome # NULL

\* A worker that works for an attempt row owns it, alone, and it is in flight.
Owned ==
    /\ \A w \in Workers : task[w].pc \in Owning =>
            attempts[task[w].attempt_no].state = "in_flight"
    /\ \A v, w \in Workers :
            /\ task[v].pc \in Owning /\ task[w].pc \in Owning
            /\ task[v].attempt_no = task[w].attempt_no
            => v = w

\* Before the socket write, and after a connection that failed, nothing of the
\* attempt is on the wire or on the books.
Unsent ==
    \A w \in Workers : task[w].pc \in {"post", "not_sent"} =>
        task[w].attempt_no \notin wire \cup Effects

\* A request is under way, applied or partially applied, never two of these.
RequestOnce ==
    /\ wire \cap Effects = {}
    /\ \A a \in applied : a.no \notin partial
    /\ \A a, b \in applied : a.no = b.no => a = b

\* The answer a worker is about to record is true.
AnswerTrue ==
    \A w \in Workers : task[w].pc = "record" =>
        /\ task[w].got \in Turned => task[w].attempt_no \notin wire \cup Effects
        /\ task[w].got = "confirmed" => Effects # {}
        /\ task[w].got = "partially_applied" => task[w].attempt_no \in partial

FlightInv == RowsResolved /\ Owned /\ Unsent /\ RequestOnce /\ AnswerTrue
                /\ EvidenceTruthful

\* Every attempt but the newest was turned away before the books.
OnlyLast ==
    \A n \in DOMAIN attempts : n < Len(attempts) => attempts[n].outcome \in Retryable

\* What the gate reads on the outbox row is what the newest attempt ended with,
\* unless a reconciliation or an operator has settled the operation.
LastAgrees ==
    (/\ attempts # <<>>
     /\ attempts[Len(attempts)].outcome # NULL
     /\ outbox.last_outcome \notin TERMINAL)
    => attempts[Len(attempts)].outcome = outbox.last_outcome

\* A worker the gate let through, and whose number is still free, follows only
\* attempts that were turned away.
WriteFresh ==
    \A w \in Workers :
        task[w].pc = "write" /\ task[w].attempt_no = Len(attempts) + 1 =>
            \A n \in DOMAIN attempts : attempts[n].outcome \in Retryable

SerialInv == OnlyLast /\ LastAgrees /\ WriteFresh

-------------------------------------------------------------------------------
\* FlightInv is inductive, whatever the ledger.

\* A worker's new task as a function of the workers.
LEMMA BecomeTask ==
    ASSUME TypeInv, NEW w \in Workers, NEW t, Become(w, t)
    PROVE  \A v \in Workers : task'[v] = IF v = w THEN t ELSE task[v]
BY DEF TypeInv, TypeOK, Become

\* A step that touches neither attempts nor books, and after which its worker works
\* for no row, or for the row it worked for without an answer but "unknown".
LEMMA FlightQuiet ==
    ASSUME TypeInv, FlightInv, NEW w \in Workers, NEW t, Become(w, t),
           UNCHANGED <<attempts, wire, applied, partial>>,
           t.pc \in Owning =>
                /\ t.pc \in {"record", "not_sent"}
                /\ task[w].pc \in Owning /\ t.attempt_no = task[w].attempt_no
                /\ t.pc = "not_sent" => task[w].pc = "post"
                /\ t.pc = "record" => t.got = "unknown"
    PROVE  FlightInv'
<1>1. \A v \in Workers : task'[v] = IF v = w THEN t ELSE task[v]
    BY BecomeTask
<1>2. Effects' = Effects
    BY DEF Effects
<1>3. RowsResolved' /\ RequestOnce' /\ EvidenceTruthful'
    BY <1>2 DEF FlightInv, RowsResolved, RequestOnce, EvidenceTruthful
<1>4. Owned'
    BY <1>1 DEF FlightInv, Owned, Owning
<1>5. Unsent'
    BY <1>1, <1>2 DEF FlightInv, Unsent, Owning
<1>6. AnswerTrue'
    BY <1>1, <1>2 DEF FlightInv, AnswerTrue, Owning, Turned, Retryable
<1> QED BY <1>3, <1>4, <1>5, <1>6 DEF FlightInv

\* A worker that gives up what it was doing changes nothing else.
LEMMA FlightIdle ==
    ASSUME TypeInv, FlightInv, NEW w \in Workers, Finish(w),
           UNCHANGED <<attempts, wire, applied, partial>>
    PROVE  FlightInv'
<1>1. IdleTask.pc \notin Owning
    BY DEF IdleTask, Owning
<1> QED BY <1>1, FlightQuiet DEF Finish

\* A step that changes neither tasks, attempts nor books.
LEMMA FlightSame ==
    ASSUME FlightInv, UNCHANGED <<attempts, task, wire, applied, partial>>
    PROVE  FlightInv'
<1>1. Effects' = Effects
    BY DEF Effects
<1> QED BY <1>1 DEF FlightInv, RowsResolved, Owned, Unsent, RequestOnce,
        AnswerTrue, EvidenceTruthful

\* Transaction 1 hands its worker a number, or sends it home.
LEMMA FlightDispatchGate ==
    ASSUME TypeInv, FlightInv, NEW w \in Workers, DispatchGate(w)
    PROVE  FlightInv'
<1> DEFINE t == [task[w] EXCEPT !.pc = "write", !.attempt_no = Len(attempts) + 1]
<1>1. t.pc \notin Owning
    BY DEF TypeInv, TaskFits, Task, Owning
<1>2. Become(w, t) \/ Finish(w)
    BY DEF DispatchGate
<1>3. UNCHANGED <<attempts, wire, applied, partial>>
    BY DEF DispatchGate, rowVars, ledgerVars
<1> QED BY <1>1, <1>2, <1>3, FlightQuiet, FlightIdle

\* The rows an insertion leaves alone and the row it adds.
LEMMA InsertedRow ==
    ASSUME TypeInv, NEW w \in Workers, WriteAhead(w),
           task[w].attempt_no \notin DOMAIN attempts
    PROVE  /\ Len(attempts) \in Nat /\ DOMAIN attempts = 1 .. Len(attempts)
           /\ task[w].attempt_no = Len(attempts) + 1
           /\ Len(attempts') = Len(attempts) + 1
           /\ DOMAIN attempts' = 1 .. Len(attempts) + 1
           /\ \A n \in DOMAIN attempts : attempts'[n] = attempts[n]
           /\ attempts'[Len(attempts) + 1] = written_row(w)
<1>1. /\ Len(attempts) \in Nat /\ attempts \in Seq(PostingAttempt)
      /\ DOMAIN attempts = 1 .. Len(attempts)
      /\ TaskFits(task[w], Len(attempts), dlq # NULL)
    BY DEF TypeInv, TypeOK, RowsTyped
<1>2. written_row(w) \in PostingAttempt
    BY <1>1 DEF TaskFits, Task, written_row, PostingAttempt, WriteAhead, AttemptState
<1>3. attempts' = Append(attempts, written_row(w))
    BY DEF WriteAhead
<1>4. task[w].attempt_no = Len(attempts) + 1
    BY <1>1 DEF TaskFits, WriteAhead
<1>5. /\ attempts' \in Seq(PostingAttempt)
      /\ Len(attempts') = Len(attempts) + 1
      /\ \A n \in 1 .. Len(attempts) : attempts'[n] = attempts[n]
      /\ attempts'[Len(attempts) + 1] = written_row(w)
    BY <1>1, <1>2, <1>3, AppendProperties
<1> QED BY <1>1, <1>4, <1>5

\* What an owner's number is bounded by, and where the ledger's numbers lie.
LEMMA NumbersInRange ==
    ASSUME TypeInv
    PROVE  /\ Len(attempts) \in Nat /\ DOMAIN attempts = 1 .. Len(attempts)
           /\ \A v \in Workers : task[v].pc \in Owning =>
                task[v].attempt_no \in 1 .. Len(attempts)
           /\ wire \subseteq 1 .. Len(attempts)
           /\ Effects \subseteq 1 .. Len(attempts)
BY DEF TypeInv, TypeOK, RowsTyped, LedgerTyped, TaskFits, Effects

\* The write-ahead row comes into being with its one owner and no request.
LEMMA FlightWriteAhead ==
    ASSUME TypeInv, FlightInv, NEW w \in Workers, WriteAhead(w)
    PROVE  FlightInv'
<1> DEFINE t == [task[w] EXCEPT !.pc = "post"]
<1>1. CASE task[w].attempt_no \in DOMAIN attempts
    BY <1>1, FlightIdle DEF WriteAhead, ledgerVars
<1>2. CASE task[w].attempt_no \notin DOMAIN attempts
    <2> DEFINE new == Len(attempts) + 1
    <2>1. /\ Len(attempts) \in Nat /\ DOMAIN attempts = 1 .. Len(attempts)
          /\ task[w].attempt_no = new
          /\ DOMAIN attempts' = 1 .. new
          /\ \A n \in DOMAIN attempts : attempts'[n] = attempts[n]
          /\ attempts'[new] = written_row(w)
        BY <1>2, InsertedRow
    <2>2. /\ attempts'[new].state = "in_flight"
          /\ attempts'[new].outcome = NULL
        BY <2>1 DEF written_row
    <2>3. UNCHANGED <<wire, applied, partial>> /\ Effects' = Effects
        BY DEF WriteAhead, ledgerVars, Effects
    <2>4. /\ new \notin wire /\ new \notin Effects
          /\ \A v \in Workers : task[v].pc \in Owning =>
                task[v].attempt_no \in 1 .. Len(attempts)
        BY <2>1, NumbersInRange
    <2>5. /\ \A v \in Workers : v # w => task'[v] = task[v]
          /\ task'[w].pc = "post" /\ task'[w].attempt_no = new
        <3>1. Become(w, t)
            BY <1>2 DEF WriteAhead, Goto
        <3>2. t.pc = "post" /\ t.attempt_no = new
            BY <2>1 DEF TypeInv, TaskFits, Task
        <3> QED BY <3>1, <3>2, BecomeTask
    <2>6. RowsResolved'
        BY <2>1, <2>2 DEF FlightInv, RowsResolved
    <2>7. Owned'
        <3>1. \A v \in Workers : task'[v].pc \in Owning =>
                attempts'[task'[v].attempt_no].state = "in_flight"
            BY <2>1, <2>2, <2>4, <2>5 DEF FlightInv, Owned
        <3>2. \A v \in Workers : v # w /\ task'[v].pc \in Owning =>
                task'[v].attempt_no # new
            BY <2>1, <2>4, <2>5
        <3> QED BY <2>5, <3>1, <3>2 DEF FlightInv, Owned
    <2>8. Unsent'
        BY <2>3, <2>4, <2>5 DEF FlightInv, Unsent
    <2>9. RequestOnce' /\ AnswerTrue'
        BY <2>3, <2>5 DEF FlightInv, RequestOnce, AnswerTrue
    <2>10. EvidenceTruthful'
        BY <2>1, <2>2, <2>3, NullAssumption DEF FlightInv, EvidenceTruthful, OutcomeCode
    <2> QED BY <2>6, <2>7, <2>8, <2>9, <2>10 DEF FlightInv
<1> QED BY <1>1, <1>2

\* The request enters the wire once, behind a row that has had none.
LEMMA FlightAdapterPost ==
    ASSUME TypeInv, FlightInv, NEW w \in Workers, AdapterPost(w)
    PROVE  FlightInv'
<1> DEFINE t == [task[w] EXCEPT !.pc = "await"]
           n == task[w].attempt_no
<1>1. UNCHANGED <<attempts, applied, partial>> /\ Effects' = Effects
    BY DEF AdapterPost, rowVars, Effects
<1>2. wire' = wire \cup {n} /\ task[w].pc = "post" /\ n \notin Effects
    BY DEF AdapterPost, FlightInv, Unsent
<1>3. /\ \A v \in Workers : v # w => task'[v] = task[v]
      /\ task'[w].pc = "await" /\ task'[w].attempt_no = n
    <2>1. Become(w, t)
        BY DEF AdapterPost, Goto
    <2>2. t.pc = "await" /\ t.attempt_no = n
        BY DEF TypeInv, TaskFits, Task
    <2> QED BY <2>1, <2>2, BecomeTask
<1>4. \A v \in Workers : v # w /\ task[v].pc \in Owning => task[v].attempt_no # n
    BY <1>2 DEF FlightInv, Owned, Owning
<1>5. n \in DOMAIN attempts /\ attempts[n].outcome = NULL
    BY <1>2, NumbersInRange, NullAssumption DEF FlightInv, Owned, RowsResolved, Owning
<1>6. RowsResolved' /\ Owned'
    BY <1>1, <1>2, <1>3 DEF FlightInv, RowsResolved, Owned, Owning
<1>7. Unsent'
    BY <1>1, <1>2, <1>3, <1>4 DEF FlightInv, Unsent, Owning
<1>8. RequestOnce'
    BY <1>1, <1>2 DEF FlightInv, RequestOnce
<1>9. AnswerTrue'
    BY <1>1, <1>2, <1>3, <1>4 DEF FlightInv, AnswerTrue, Owning
<1>10. EvidenceTruthful'
    BY <1>1, <1>2, <1>5, NullAssumption DEF FlightInv, EvidenceTruthful, OutcomeCode
<1> QED BY <1>6, <1>7, <1>8, <1>9, <1>10 DEF FlightInv

\* A send that failed before its first byte leaves no request behind.
LEMMA FlightConnectFails ==
    ASSUME TypeInv, FlightInv, NEW w \in Workers, ConnectFails(w)
    PROVE  FlightInv'
<1> DEFINE t == [task[w] EXCEPT !.pc = "not_sent"]
<1>1. t.pc = "not_sent" /\ t.attempt_no = task[w].attempt_no /\ task[w].pc = "post"
    BY DEF TypeInv, TaskFits, Task, ConnectFails
<1>2. Become(w, t) \/ Finish(w)
    BY DEF ConnectFails, Goto
<1>3. UNCHANGED <<attempts, wire, applied, partial>>
    BY DEF ConnectFails, rowVars, ledgerVars
<1> HIDE DEF t
<1> QED BY <1>1, <1>2, <1>3, FlightQuiet, FlightIdle DEF Owning

\* An answer of "unknown" claims nothing about the books.
LEMMA FlightAnswerUnknown ==
    ASSUME TypeInv, FlightInv, NEW w \in Workers, AnswerUnknown(w)
    PROVE  FlightInv'
<1> DEFINE t == [task[w] EXCEPT !.pc = "record", !.got = "unknown"]
<1>1. /\ t.pc = "record" /\ t.got = "unknown"
      /\ t.attempt_no = task[w].attempt_no /\ task[w].pc = "await"
    BY DEF TypeInv, TaskFits, Task, AnswerUnknown
<1>2. Become(w, t)
    BY DEF AnswerUnknown
<1>3. UNCHANGED <<attempts, wire, applied, partial>>
    BY DEF AnswerUnknown, rowVars, ledgerVars
<1> HIDE DEF t
<1> QED BY <1>1, <1>2, <1>3, FlightQuiet DEF Owning

\* An owner closes its row with a true outcome and lets go of it.
LEMMA FlightResolve ==
    ASSUME TypeInv, FlightInv, NEW w \in Workers, NEW t, Become(w, t),
           t.pc \notin Owning, task[w].pc \in Owning,
           NEW n \in DOMAIN attempts, n = task[w].attempt_no,
           NEW row, row.state = "resolved", row.outcome \in OutcomeCode,
           attempts' = [attempts EXCEPT ![n] = row],
           UNCHANGED <<wire, applied, partial>>,
           row.outcome \in Turned => n \notin wire \cup Effects,
           row.outcome = "confirmed" => Effects # {},
           row.outcome = "partially_applied" => n \in partial
    PROVE  FlightInv'
<1>1. \A v \in Workers : task'[v] = IF v = w THEN t ELSE task[v]
    BY BecomeTask
<1>2. Effects' = Effects
    BY DEF Effects
<1>3. /\ DOMAIN attempts' = DOMAIN attempts
      /\ attempts'[n] = row
      /\ \A m \in DOMAIN attempts : m # n => attempts'[m] = attempts[m]
    BY DEF TypeInv, TypeOK, RowsTyped
<1>4. RowsResolved' /\ RequestOnce'
    BY <1>2, <1>3, NullAssumption DEF FlightInv, RowsResolved, RequestOnce
<1>5. Owned'
    <2>1. ASSUME NEW v \in Workers, task'[v].pc \in Owning
          PROVE  /\ v # w /\ task'[v] = task[v] /\ task[v].pc \in Owning
                 /\ task[v].attempt_no # n /\ task[v].attempt_no \in DOMAIN attempts
        BY <1>1, <2>1, NumbersInRange DEF FlightInv, Owned
    <2> QED BY <1>3, <2>1 DEF FlightInv, Owned
<1>6. Unsent' /\ AnswerTrue'
    BY <1>1, <1>2 DEF FlightInv, Unsent, AnswerTrue, Owning
<1>7. EvidenceTruthful'
    <2>1. ASSUME NEW m \in DOMAIN attempts
          PROVE  /\ attempts'[m].outcome \in Turned => m \notin wire \cup Effects
                 /\ attempts'[m].outcome = "confirmed" => Effects # {}
                 /\ attempts'[m].outcome = "partially_applied" => m \in partial
        <3>1. CASE m = n
            BY <1>3, <3>1
        <3>2. CASE m # n
            BY <1>3, <3>2 DEF FlightInv, EvidenceTruthful, Turned, Retryable
        <3> QED BY <3>1, <3>2
    <2> QED BY <1>2, <1>3, <2>1 DEF EvidenceTruthful, Turned, Retryable
<1> QED BY <1>4, <1>5, <1>6, <1>7 DEF FlightInv

\* Transaction 3 either writes its attempt row and its outcome or changes nothing.
LEMMA RecordSplit ==
    ASSUME TypeInv, NEW w \in Workers, RecordOutcome(w)
    PROVE  \/ Finish(w) /\ UNCHANGED <<attempts, outbox>>
           \/ /\ attempts' = [attempts EXCEPT ![task[w].attempt_no] = recorded_attempt(w)]
              /\ outbox' = recorded_outbox(w)
              /\ OutboxPermits(recorded_outbox(w))
              /\ AttemptPermits(task[w].attempt_no, recorded_attempt(w))
              /\ \E t : /\ Become(w, t)
                        /\ t.pc \in {"idle", "bury", "budget", "close"}
<1> DEFINE next == after_outcome(task[w].job, task[w].got)
           ok == /\ OutboxPermits(recorded_outbox(w))
                 /\ AttemptPermits(task[w].attempt_no, recorded_attempt(w))
<1>1. CASE ~ok
    BY <1>1 DEF RecordOutcome
<1>2. CASE ok
    <2>1. next \in {"idle", "bury", "budget", "close"}
        BY Zenon DEF after_outcome
    <2>2. IF next = "idle" THEN Finish(w) ELSE Goto(w, next)
        BY <1>2 DEF RecordOutcome
    <2>3. task[w] \in Task /\ IdleTask.pc = "idle"
        BY DEF TypeInv, TaskFits, IdleTask
    <2>4. \E t : Become(w, t) /\ t.pc \in {"idle", "bury", "budget", "close"}
        <3>1. CASE next = "idle"
            BY <2>2, <2>3, <3>1 DEF Finish
        <3>2. CASE next # "idle"
            <4> DEFINE t == [task[w] EXCEPT !.pc = next]
            <4>1. Become(w, t)
                BY <2>2, <3>2 DEF Goto
            <4>2. t.pc = next
                BY <2>3 DEF Task
            <4> HIDE DEF t
            <4> QED BY <2>1, <4>1, <4>2
        <3> QED BY <3>1, <3>2
    <2> QED BY <1>2, <2>4 DEF RecordOutcome
<1> QED BY <1>1, <1>2

\* Transaction 3 records what its owner was answered.
LEMMA FlightRecordOutcome ==
    ASSUME TypeInv, FlightInv, NEW w \in Workers, RecordOutcome(w)
    PROVE  FlightInv'
<1>1. UNCHANGED <<wire, applied, partial>>
    BY DEF RecordOutcome, ledgerVars
<1>2. CASE Finish(w) /\ UNCHANGED <<attempts, outbox>>
    BY <1>1, <1>2, FlightIdle
<1>3. CASE /\ attempts' = [attempts EXCEPT ![task[w].attempt_no] = recorded_attempt(w)]
           /\ \E t : Become(w, t) /\ t.pc \in {"idle", "bury", "budget", "close"}
    <2>1. PICK t : Become(w, t) /\ t.pc \notin Owning
        BY <1>3 DEF Owning
    <2>2. task[w].pc = "record" /\ task[w].pc \in Owning /\ task[w].got \in OutcomeCode
        BY DEF RecordOutcome, Owning, TypeInv, TaskFits
    <2>3. task[w].attempt_no \in DOMAIN attempts
        BY <2>2, NumbersInRange
    <2>4. attempts[task[w].attempt_no] \in PostingAttempt
        BY <2>3 DEF TypeInv, TypeOK, RowsTyped
    <2>5. /\ recorded_attempt(w).state = "resolved"
          /\ recorded_attempt(w).outcome = task[w].got
        BY <2>4 DEF recorded_attempt, PostingAttempt
    <2>6. /\ task[w].got \in Turned => task[w].attempt_no \notin wire \cup Effects
          /\ task[w].got = "confirmed" => Effects # {}
          /\ task[w].got = "partially_applied" => task[w].attempt_no \in partial
        BY <2>2 DEF FlightInv, AnswerTrue
    <2> QED BY <1>1, <1>3, <2>1, <2>2, <2>3, <2>5, <2>6, FlightResolve
<1> QED BY <1>2, <1>3, RecordSplit

\* The row resolve_not_sent finds alone in flight is its own.
LEMMA NotSentSplit ==
    ASSUME TypeInv, FlightInv, NEW w \in Workers, resolve_not_sent(w)
    PROVE  \/ Finish(w) /\ UNCHANGED <<attempts, outbox>>
           \/ \E row, t :
                /\ task[w].attempt_no \in DOMAIN attempts
                /\ row.state = "resolved" /\ row.outcome = "not_sent"
                /\ attempts' = [attempts EXCEPT ![task[w].attempt_no] = row]
                /\ outbox' = [outbox EXCEPT !.last_outcome = "not_sent",
                                !.attempt_count = MaxOf(@, task[w].attempt_no)]
                /\ OutboxPermits(outbox')
                /\ row.sent_at = attempts[task[w].attempt_no].sent_at
                /\ row.endpoint = attempts[task[w].attempt_no].endpoint
                /\ Become(w, t) /\ t.pc \in {"idle", "budget"}
<1> DEFINE n == CHOOSE m \in InFlight : TRUE
           row == [attempts[n] EXCEPT !.state = "resolved", !.outcome = "not_sent"]
           intent == [outbox EXCEPT !.last_outcome = "not_sent",
                                    !.attempt_count = MaxOf(@, n)]
           ok == Cardinality(InFlight) = 1 /\ OutboxPermits(intent)
           t == [task[w] EXCEPT !.pc = "budget", !.attempt_no = n, !.got = "not_sent"]
<1>1. CASE ~ok
    BY <1>1 DEF resolve_not_sent
<1>2. CASE ok
    <2>1. task[w].pc = "not_sent" /\ task[w].attempt_no \in DOMAIN attempts
        BY NumbersInRange DEF resolve_not_sent, Owning
    <2>2. task[w].attempt_no \in InFlight
        BY <2>1 DEF FlightInv, Owned, Owning, InFlight
    <2>3. n = task[w].attempt_no
        BY <1>2, <2>2, InFlightChoice
    <2>4. /\ attempts' = [attempts EXCEPT ![n] = row]
          /\ outbox' = intent
        BY <1>2 DEF resolve_not_sent
    <2>5. /\ row.state = "resolved" /\ row.outcome = "not_sent"
          /\ row.sent_at = attempts[n].sent_at /\ row.endpoint = attempts[n].endpoint
        <3>1. attempts[task[w].attempt_no] \in PostingAttempt
            BY <2>1 DEF TypeInv, TypeOK, RowsTyped
        <3>2. attempts[n] \in PostingAttempt
            BY <2>3, <3>1
        <3> QED BY <3>2 DEF PostingAttempt
    <2>6. \E u : Become(w, u) /\ u.pc \in {"idle", "budget"}
        <3>1. t.pc = "budget" /\ IdleTask.pc = "idle"
            BY DEF TypeInv, TaskFits, Task, IdleTask
        <3>2. Become(w, t) \/ Become(w, IdleTask)
            BY <1>2 DEF resolve_not_sent, Finish
        <3> HIDE DEF t
        <3> QED BY <3>1, <3>2
    <2> HIDE DEF row, n
    <2> QED BY <1>2, <2>1, <2>3, <2>4, <2>5, <2>6
<1> QED BY <1>1, <1>2

\* _resolve_not_sent records "not_sent" over a row whose request never existed.
LEMMA Flight_resolve_not_sent ==
    ASSUME TypeInv, FlightInv, NEW w \in Workers, resolve_not_sent(w)
    PROVE  FlightInv'
<1>1. UNCHANGED <<wire, applied, partial>>
    BY DEF resolve_not_sent, ledgerVars
<1>2. CASE Finish(w) /\ UNCHANGED <<attempts, outbox>>
    BY <1>1, <1>2, FlightIdle
<1>3. CASE \E row, t :
                /\ task[w].attempt_no \in DOMAIN attempts
                /\ row.state = "resolved" /\ row.outcome = "not_sent"
                /\ attempts' = [attempts EXCEPT ![task[w].attempt_no] = row]
                /\ Become(w, t) /\ t.pc \in {"idle", "budget"}
    <2>1. task[w].pc = "not_sent" /\ task[w].attempt_no \notin wire \cup Effects
        BY DEF FlightInv, Unsent, resolve_not_sent
    <2> QED BY <1>1, <1>3, <2>1, FlightResolve DEF OutcomeCode, Owning
<1> QED BY <1>2, <1>3, NotSentSplit

\* The ledger takes a request once and tells only its owner.
LEMMA FlightLedgerTakes ==
    ASSUME TypeInv, FlightInv, NEW n \in wire, NEW answer \in Answers,
           LedgerTakes(n, answer)
    PROVE  FlightInv'
<1> DEFINE held == KeyHeld(attempts[n].endpoint)
           posting == [no |-> n, at |-> clock, endpoint |-> attempts[n].endpoint]
           taken == /\ answer = "confirmed" /\ ~held
<1>1. /\ attempts' = attempts /\ wire' = wire \ {n}
      /\ applied' = IF taken THEN applied \cup {posting} ELSE applied
      /\ partial' = IF answer = "partially_applied" THEN partial \cup {n} ELSE partial
    BY DEF LedgerTakes, rowVars
<1>2. \A v \in Workers :
        \/ task'[v] = task[v]
        \/ /\ task[v].pc = "await" /\ task[v].attempt_no = n
           /\ task'[v].pc = "record" /\ task'[v].got = answer
           /\ task'[v].attempt_no = n
    <2>1. ASSUME NEW v \in Workers
          PROVE  task'[v] = IF task[v].pc = "await" /\ task[v].attempt_no = n
                            THEN [task[v] EXCEPT !.pc = "record", !.got = answer]
                            ELSE task[v]
        BY DEF LedgerTakes, Deliver
    <2> QED BY <2>1 DEF TypeInv, TaskFits, Task
<1>3. n \notin Effects /\ n \notin partial /\ \A a \in applied : a.no # n
    BY DEF FlightInv, RequestOnce, Effects
<1>4. /\ Effects \subseteq Effects' /\ Effects' \subseteq Effects \cup {n}
      /\ partial \subseteq partial'
    BY <1>1 DEF Effects
<1>5. answer \in Turned => Effects' = Effects
    <2>1. answer \in Turned => applied' = applied /\ partial' = partial
        BY <1>1 DEF Turned, Retryable
    <2> QED BY <2>1 DEF Effects
<1>6. answer = "confirmed" => Effects' # {}
    <2>1. CASE answer = "confirmed" /\ ~held
        BY <1>1, <2>1 DEF Effects
    <2>2. CASE held
        BY <1>4, <2>2 DEF KeyHeld, Effects
    <2> QED BY <2>1, <2>2
<1>7. n \in DOMAIN attempts
    BY NumbersInRange
<1>8. RowsResolved' /\ Owned'
    BY <1>1, <1>2 DEF FlightInv, RowsResolved, Owned, Owning
<1>9. \A v \in Workers : task[v].pc \in {"post", "not_sent"} => task[v].attempt_no # n
    BY DEF FlightInv, Unsent
<1>10. Unsent'
    BY <1>1, <1>2, <1>4, <1>9 DEF FlightInv, Unsent
<1>11. RequestOnce'
    <2>1. wire' \cap Effects' = {}
        BY <1>1, <1>4 DEF FlightInv, RequestOnce
    <2>2. \A a \in applied' : a.no \notin partial'
        <3>1. \A a \in applied : a.no \notin partial'
            BY <1>1, <1>3 DEF FlightInv, RequestOnce
        <3>2. CASE taken
            BY <1>1, <1>3, <3>1, <3>2
        <3>3. CASE ~taken
            BY <1>1, <3>1, <3>3
        <3> QED BY <3>2, <3>3
    <2>3. \A a, b \in applied' : a.no = b.no => a = b
        BY <1>1, <1>3 DEF FlightInv, RequestOnce
    <2> QED BY <2>1, <2>2, <2>3 DEF RequestOnce
<1>12. AnswerTrue'
    <2> SUFFICES ASSUME NEW v \in Workers, task'[v].pc = "record"
                 PROVE  /\ task'[v].got \in Turned =>
                                task'[v].attempt_no \notin wire' \cup Effects'
                        /\ task'[v].got = "confirmed" => Effects' # {}
                        /\ task'[v].got = "partially_applied" =>
                                task'[v].attempt_no \in partial'
        BY DEF AnswerTrue
    <2>1. CASE task'[v] = task[v]
        <3>1. task[v].attempt_no = n => task[v].got \notin Turned
            BY <2>1 DEF FlightInv, AnswerTrue
        <3> QED BY <1>1, <1>4, <2>1, <3>1 DEF FlightInv, AnswerTrue
    <2>2. CASE task'[v].got = answer /\ task'[v].attempt_no = n
        BY <1>1, <1>3, <1>5, <1>6, <2>2 DEF Turned
    <2> QED BY <1>2, <2>1, <2>2
<1>13. EvidenceTruthful'
    <2> SUFFICES ASSUME NEW m \in DOMAIN attempts
                 PROVE  /\ attempts[m].outcome \in Turned => m \notin wire' \cup Effects'
                        /\ attempts[m].outcome = "confirmed" => Effects' # {}
                        /\ attempts[m].outcome = "partially_applied" => m \in partial'
        BY <1>1 DEF EvidenceTruthful, Turned, Retryable
    <2>1. m = n => attempts[m].outcome \notin Turned
        BY DEF FlightInv, EvidenceTruthful, Turned, Retryable
    <2> QED BY <1>1, <1>4, <2>1 DEF FlightInv, EvidenceTruthful, Turned, Retryable
<1> QED BY <1>8, <1>10, <1>11, <1>12, <1>13 DEF FlightInv

\* A lost request changes no claim about the books.
LEMMA FlightDropRequest ==
    ASSUME TypeInv, FlightInv, NEW n \in wire, DropRequest(n)
    PROVE  FlightInv'
<1>1. UNCHANGED <<attempts, task, applied, partial>> /\ wire' = wire \ {n}
    BY DEF DropRequest, rowVars
<1>2. Effects' = Effects
    BY <1>1 DEF Effects
<1> QED BY <1>1, <1>2 DEF FlightInv, RowsResolved, Owned, Unsent, RequestOnce,
        AnswerTrue, EvidenceTruthful

\* The steps that begin or end a job, or move it between database transactions.
LEMMA FlightJobSteps ==
    ASSUME TypeInv, FlightInv, NEW w \in Workers,
           \/ PostRaises(w) \/ run_due_once(w) \/ attempt_one(w)
           \/ retry_or_dead_letter(w) \/ dead_letter_rejection(w)
           \/ replay_dead_letter(w) \/ close_entry(w)
           \/ reconcile_once(w) \/ get_by_operation_id(w) \/ reconcile_by_query(w)
           \/ open_item(w) \/ Crash(w)
    PROVE  FlightInv'
<1>1. UNCHANGED <<attempts, wire, applied, partial>>
    BY DEF PostRaises, run_due_once, attempt_one, retry_or_dead_letter,
        dead_letter_rejection, replay_dead_letter, close_entry, reconcile_once,
        get_by_operation_id, reconcile_by_query, open_item, Crash, rowVars, ledgerVars
<1>2. CASE \/ PostRaises(w) \/ retry_or_dead_letter(w) \/ dead_letter_rejection(w)
           \/ close_entry(w) \/ open_item(w) \/ Crash(w)
    <2>1. Finish(w)
        BY <1>2 DEF PostRaises, retry_or_dead_letter, dead_letter_rejection,
            close_entry, open_item, Crash
    <2> QED BY <1>1, <2>1, FlightIdle
<1>3. CASE run_due_once(w) \/ replay_dead_letter(w)
    <2>1. PICK job, p, ep : /\ Become(w, Start(job, p, ep))
                            /\ p \in {"claimed", "close", "gate"}
        BY <1>3 DEF run_due_once, replay_dead_letter
    <2>2. Start(job, p, ep).pc = p
        BY DEF Start, IdleTask
    <2> QED BY <1>1, <2>1, <2>2, FlightQuiet DEF Owning
<1>4. CASE attempt_one(w) \/ get_by_operation_id(w) \/ reconcile_by_query(w)
    <2>1. \/ Finish(w)
          \/ \E p \in {"gate", "queried", "recover"} : \E x, r :
                \/ Become(w, [task[w] EXCEPT !.pc = p])
                \/ Become(w, [task[w] EXCEPT !.pc = p, !.got = x])
                \/ Become(w, [task[w] EXCEPT !.pc = p, !.reason = r])
        BY <1>4 DEF attempt_one, get_by_operation_id, reconcile_by_query, Goto
    <2>2. ASSUME NEW p, NEW x, NEW r
          PROVE  /\ [task[w] EXCEPT !.pc = p].pc = p
                 /\ [task[w] EXCEPT !.pc = p, !.got = x].pc = p
                 /\ [task[w] EXCEPT !.pc = p, !.reason = r].pc = p
        BY DEF TypeInv, TaskFits, Task
    <2> QED BY <1>1, <2>1, <2>2, FlightQuiet, FlightIdle DEF Owning
<1>5. CASE reconcile_once(w)
    <2>1. PICK ep \in Endpoints : Become(w, branch(ep))
        BY <1>5 DEF reconcile_once
    <2>2. branch(ep).pc \in {"recover", "query", "gate"}
        BY DEF branch, Start, IdleTask
    <2> QED BY <1>1, <2>1, <2>2, FlightQuiet DEF Owning
<1> QED BY <1>2, <1>3, <1>4, <1>5

\* Initially there is nothing to be wrong about.
LEMMA FlightInit == Init => FlightInv
BY DEF Init, FlightInv, RowsResolved, Owned, Owning, Unsent, RequestOnce, AnswerTrue,
    EvidenceTruthful, Effects, IdleTask

\* Every step preserves FlightInv.
LEMMA FlightNext == TypeInv /\ FlightInv /\ [Next]_vars => FlightInv'
<1> SUFFICES ASSUME TypeInv, FlightInv, [Next]_vars PROVE FlightInv'
    OBVIOUS
<1>1. ASSUME NEW w \in Workers, Dispatch(w) PROVE FlightInv'
    BY <1>1, FlightDispatchGate, FlightWriteAhead, FlightAdapterPost,
       FlightConnectFails, FlightAnswerUnknown, FlightRecordOutcome, FlightJobSteps
    DEF Dispatch
<1>2. ASSUME NEW w \in Workers,
             RetryPass(w) \/ Replay(w) \/ ReconcilePass(w) \/ Crash(w)
      PROVE  FlightInv'
    BY <1>2, FlightJobSteps, Flight_resolve_not_sent DEF RetryPass, Replay, ReconcilePass
<1>3. CASE Operator \/ Tick \/ UNCHANGED vars
    <2>1. UNCHANGED <<attempts, task, wire, applied, partial>>
        BY <1>3 DEF Operator, resolve_item, Tick, vars, rowVars, ledgerVars
    <2> QED BY <2>1, FlightSame
<1>4. CASE Ledger
    BY <1>4, FlightLedgerTakes, FlightDropRequest DEF Ledger
<1> QED BY <1>1, <1>2, <1>3, <1>4 DEF Next

\* Who owns which attempt, which requests exist and what was answered: the invariant
\* behind every claim about evidence, against any ledger (FlightInv above).
THEOREM FlightInvariant == Spec => []FlightInv
BY TypeInvariant, FlightInit, FlightNext, PTL DEF Spec

\* The recorded evidence is true: an attempt recorded as never applied is neither on
\* the books nor under way, against any ledger and any number of workers, and
\* _resolve_not_sent closes only the row of its own send.
THEOREM EvidenceIsTruthful == Spec => []EvidenceTruthful
<1>1. FlightInv => EvidenceTruthful
    BY DEF FlightInv
<1> QED BY <1>1, FlightInvariant, PTL

-------------------------------------------------------------------------------
\* SerialInv is inductive against a ledger that does not suppress duplicates.

\* A step that leaves the attempts alone, settles the operation or keeps its
\* outcome, and lets its worker through the gate only behind turned-away attempts.
LEMMA SerialQuiet ==
    ASSUME TypeInv, SerialInv, NEW w \in Workers, NEW t, Become(w, t),
           UNCHANGED attempts,
           outbox'.last_outcome \in TERMINAL \cup {outbox.last_outcome},
           t.pc = "write" =>
                \/ task[w].pc = "write" /\ t.attempt_no = task[w].attempt_no
                \/ \A n \in DOMAIN attempts : attempts[n].outcome \in Retryable
    PROVE  SerialInv'
<1>1. \A v \in Workers : task'[v] = IF v = w THEN t ELSE task[v]
    BY BecomeTask
<1>2. OnlyLast' /\ LastAgrees'
    BY DEF SerialInv, OnlyLast, LastAgrees
<1>3. WriteFresh'
    BY <1>1 DEF SerialInv, WriteFresh
<1> QED BY <1>2, <1>3 DEF SerialInv

\* A worker that gives up what it was doing changes nothing else.
LEMMA SerialIdle ==
    ASSUME TypeInv, SerialInv, NEW w \in Workers, Finish(w), UNCHANGED attempts,
           outbox'.last_outcome \in TERMINAL \cup {outbox.last_outcome}
    PROVE  SerialInv'
<1>1. IdleTask.pc # "write"
    BY DEF IdleTask
<1> QED BY <1>1, SerialQuiet DEF Finish

\* Without key enforcement the gate opens only behind turned-away attempts.
LEMMA GateSerial ==
    ASSUME TypeInv, FlightInv, SerialInv, ~suppresses_duplicates,
           NEW w \in Workers, gate_permits(w)
    PROVE  \A n \in DOMAIN attempts : attempts[n].outcome \in Retryable
<1>1. Len(attempts) \in Nat /\ DOMAIN attempts = 1 .. Len(attempts)
    BY NumbersInRange
<1>2. ~is_ambiguous /\ outbox.last_outcome \notin TERMINAL
    BY DEF gate_permits, resend_decision
<1>3. \A n \in DOMAIN attempts :
        attempts[n] \in PostingAttempt /\ attempts[n].state # "in_flight"
    <2>1. \A n \in DOMAIN attempts : attempts[n] \in PostingAttempt
        BY <1>1 DEF TypeInv, TypeOK, RowsTyped
    <2> QED BY <1>2, <2>1 DEF is_ambiguous, InFlight
<1>4. \A n \in DOMAIN attempts : attempts[n].outcome \in OutcomeCode
    BY <1>3 DEF FlightInv, RowsResolved, PostingAttempt, AttemptState
<1> SUFFICES ASSUME NEW n \in DOMAIN attempts
             PROVE  attempts[n].outcome \in Retryable
    OBVIOUS
<1>5. CASE n < Len(attempts)
    BY <1>5 DEF SerialInv, OnlyLast
<1>6. CASE n = Len(attempts)
    <2>1. attempts # <<>> /\ attempts[Len(attempts)].outcome # NULL
        BY <1>1, <1>4, <1>6, NullAssumption
    <2>2. attempts[n].outcome = outbox.last_outcome
        BY <1>2, <1>6, <2>1 DEF SerialInv, LastAgrees
    <2> QED BY <1>2, <1>4, <2>2
            DEF is_ambiguous, AMBIGUOUS, TERMINAL, OutcomeCode, Retryable
<1> QED BY <1>1, <1>5, <1>6

\* A number is handed out only behind turned-away attempts.
LEMMA SerialDispatchGate ==
    ASSUME TypeInv, FlightInv, SerialInv, ~suppresses_duplicates,
           NEW w \in Workers, DispatchGate(w)
    PROVE  SerialInv'
<1>1. UNCHANGED <<attempts, outbox>>
    BY DEF DispatchGate, rowVars
<1>2. CASE gate_permits(w)
    BY <1>1, <1>2, GateSerial, SerialQuiet DEF DispatchGate
<1>3. CASE ~gate_permits(w)
    BY <1>1, <1>3, SerialIdle DEF DispatchGate
<1> QED BY <1>2, <1>3

\* The new newest attempt stands behind turned-away attempts.
LEMMA SerialWriteAhead ==
    ASSUME TypeInv, SerialInv, NEW w \in Workers, WriteAhead(w)
    PROVE  SerialInv'
<1>1. outbox' = outbox
    BY DEF WriteAhead
<1>2. CASE task[w].attempt_no \in DOMAIN attempts
    BY <1>1, <1>2, SerialIdle DEF WriteAhead
<1>3. CASE task[w].attempt_no \notin DOMAIN attempts
    <2> DEFINE new == Len(attempts) + 1
    <2>1. /\ Len(attempts) \in Nat /\ DOMAIN attempts = 1 .. Len(attempts)
          /\ task[w].attempt_no = new
          /\ Len(attempts') = new /\ DOMAIN attempts' = 1 .. new
          /\ \A n \in DOMAIN attempts : attempts'[n] = attempts[n]
          /\ attempts'[new] = written_row(w)
        BY <1>3, InsertedRow
    <2>2. \A n \in DOMAIN attempts : attempts[n].outcome \in Retryable
        BY <2>1 DEF SerialInv, WriteFresh, WriteAhead
    <2>3. OnlyLast'
        BY <2>1, <2>2 DEF OnlyLast
    <2>4. LastAgrees'
        BY <2>1 DEF LastAgrees, written_row
    <2>5. WriteFresh'
        <3>1. Become(w, [task[w] EXCEPT !.pc = "post"])
            BY <1>3 DEF WriteAhead, Goto
        <3>2. [task[w] EXCEPT !.pc = "post"].pc = "post"
            BY DEF TypeInv, TaskFits, Task
        <3>3. \A v \in Workers : task'[v].pc = "write" => task'[v] = task[v]
            BY <3>1, <3>2, BecomeTask
        <3>4. \A v \in Workers : task[v].pc = "write" => task[v].attempt_no \in 1 .. new
            BY <2>1 DEF TypeInv, TaskFits
        <3> QED BY <2>1, <3>3, <3>4 DEF WriteFresh
    <2> QED BY <2>3, <2>4, <2>5 DEF SerialInv
<1> QED BY <1>2, <1>3

\* An owner closes its row, which is the newest, with the outcome the outbox gets.
LEMMA SerialResolve ==
    ASSUME TypeInv, FlightInv, SerialInv, NEW w \in Workers, NEW t, Become(w, t),
           t.pc # "write", task[w].pc \in Owning,
           NEW n \in DOMAIN attempts, n = task[w].attempt_no,
           NEW row, attempts' = [attempts EXCEPT ![n] = row],
           outbox'.last_outcome = row.outcome
    PROVE  SerialInv'
<1>1. Len(attempts) \in Nat /\ DOMAIN attempts = 1 .. Len(attempts)
    BY NumbersInRange
<1>2. /\ DOMAIN attempts' = DOMAIN attempts /\ Len(attempts') = Len(attempts)
      /\ attempts'[n] = row
      /\ \A m \in DOMAIN attempts : m # n => attempts'[m] = attempts[m]
    BY DEF TypeInv, TypeOK, RowsTyped
<1>3. attempts[n].outcome = NULL
    BY DEF FlightInv, Owned, RowsResolved
<1>4. attempts[n].outcome \notin Retryable
    BY <1>3, NullAssumption DEF Retryable, OutcomeCode
<1>5. n = Len(attempts)
    BY <1>1, <1>4 DEF SerialInv, OnlyLast
<1>6. OnlyLast'
    BY <1>1, <1>2, <1>5 DEF SerialInv, OnlyLast
<1>7. LastAgrees'
    BY <1>2, <1>5 DEF LastAgrees
<1>8. WriteFresh'
    <2>1. \A v \in Workers : task'[v].pc = "write" => task'[v] = task[v]
        BY BecomeTask
    <2> QED BY <1>2, <1>4, <2>1 DEF SerialInv, WriteFresh
<1> QED BY <1>6, <1>7, <1>8 DEF SerialInv

\* Transaction 3 closes the newest attempt.
LEMMA SerialRecordOutcome ==
    ASSUME TypeInv, FlightInv, SerialInv, NEW w \in Workers, RecordOutcome(w)
    PROVE  SerialInv'
<1>1. CASE Finish(w) /\ UNCHANGED <<attempts, outbox>>
    BY <1>1, SerialIdle
<1>2. CASE /\ attempts' = [attempts EXCEPT ![task[w].attempt_no] = recorded_attempt(w)]
           /\ outbox' = recorded_outbox(w)
           /\ \E t : Become(w, t) /\ t.pc \in {"idle", "bury", "budget", "close"}
    <2>1. PICK t : Become(w, t) /\ t.pc # "write"
        BY <1>2
    <2>2. task[w].pc \in Owning /\ task[w].attempt_no \in DOMAIN attempts
        BY NumbersInRange DEF RecordOutcome, Owning
    <2>3. attempts[task[w].attempt_no] \in PostingAttempt
        BY <2>2 DEF TypeInv, TypeOK, RowsTyped
    <2>4. recorded_attempt(w).outcome = task[w].got
        BY <2>3 DEF recorded_attempt, PostingAttempt
    <2>5. recorded_outbox(w).last_outcome = task[w].got
        BY DEF TypeInv, TypeOK, RowsTyped, Outbox, recorded_outbox
    <2> QED BY <1>2, <2>1, <2>2, <2>4, <2>5, SerialResolve
<1> QED BY <1>1, <1>2, RecordSplit

\* _resolve_not_sent closes the newest attempt.
LEMMA Serial_resolve_not_sent ==
    ASSUME TypeInv, FlightInv, SerialInv, NEW w \in Workers, resolve_not_sent(w)
    PROVE  SerialInv'
<1>1. CASE Finish(w) /\ UNCHANGED <<attempts, outbox>>
    BY <1>1, SerialIdle
<1>2. CASE \E row, t :
                /\ task[w].attempt_no \in DOMAIN attempts
                /\ row.outcome = "not_sent"
                /\ attempts' = [attempts EXCEPT ![task[w].attempt_no] = row]
                /\ outbox'.last_outcome = "not_sent"
                /\ Become(w, t) /\ t.pc \in {"idle", "budget"}
    <2>1. task[w].pc \in Owning
        BY DEF resolve_not_sent, Owning
    <2>2. PICK row, t :
                /\ task[w].attempt_no \in DOMAIN attempts
                /\ row.outcome = "not_sent"
                /\ attempts' = [attempts EXCEPT ![task[w].attempt_no] = row]
                /\ outbox'.last_outcome = "not_sent"
                /\ Become(w, t) /\ t.pc \in {"idle", "budget"}
        BY <1>2
    <2>3. t.pc # "write"
        BY <2>2
    <2> QED BY <2>1, <2>2, <2>3, SerialResolve
<1>3. ASSUME NEW n, outbox' = [outbox EXCEPT !.last_outcome = "not_sent",
                                             !.attempt_count = MaxOf(@, n)]
      PROVE  outbox'.last_outcome = "not_sent"
    BY <1>3 DEF TypeInv, TypeOK, RowsTyped, Outbox
<1> QED BY <1>1, <1>2, <1>3, NotSentSplit

\* What the other steps may write into the outbox row.
LEMMA LastOutcomeKept ==
    ASSUME TypeInv, NEW w \in Workers,
           \/ retry_or_dead_letter(w) \/ dead_letter_rejection(w)
           \/ reconcile_by_query(w)
    PROVE  outbox'.last_outcome \in TERMINAL \cup {outbox.last_outcome}
<1>1. outbox \in Outbox
    BY DEF TypeInv, TypeOK, RowsTyped
<1>2. ASSUME NEW reason, NEW mark, dead_letter(reason, mark)
      PROVE  outbox'.last_outcome = outbox.last_outcome
    <2>1. outbox' = outbox \/ outbox' = [outbox EXCEPT !.state = "dead_lettered"]
        BY <1>2 DEF dead_letter
    <2> QED BY <1>1, <2>1 DEF Outbox
<1>3. CASE retry_or_dead_letter(w)
    <2>1. \/ \E reason, mark : dead_letter(reason, mark)
          \/ \E at : outbox' = [outbox EXCEPT !.next_attempt_at = at]
        BY <1>3 DEF retry_or_dead_letter
    <2> QED BY <1>1, <1>2, <2>1 DEF Outbox
<1>4. CASE dead_letter_rejection(w)
    BY <1>2, <1>4 DEF dead_letter_rejection
<1>5. CASE reconcile_by_query(w)
    <2>1. \/ outbox' = outbox
          \/ /\ conclusion(w) # NULL
             /\ outbox' = [outbox EXCEPT !.last_outcome = conclusion(w),
                                         !.state = "settled"]
        BY <1>5 DEF reconcile_by_query
    <2>2. conclusion(w) \in TERMINAL \cup {NULL}
        BY DEF conclusion, TERMINAL
    <2> QED BY <1>1, <2>1, <2>2 DEF Outbox
<1> QED BY <1>3, <1>4, <1>5

\* The steps that leave the attempts and the gate alone.
LEMMA SerialJobSteps ==
    ASSUME TypeInv, SerialInv, NEW w \in Workers,
           \/ AdapterPost(w) \/ ConnectFails(w) \/ AnswerUnknown(w)
           \/ PostRaises(w) \/ run_due_once(w) \/ attempt_one(w)
           \/ retry_or_dead_letter(w) \/ dead_letter_rejection(w)
           \/ replay_dead_letter(w) \/ close_entry(w)
           \/ reconcile_once(w) \/ get_by_operation_id(w) \/ reconcile_by_query(w)
           \/ open_item(w) \/ Crash(w)
    PROVE  SerialInv'
<1>1. UNCHANGED attempts
    BY DEF AdapterPost, ConnectFails, AnswerUnknown, PostRaises, run_due_once,
        attempt_one, retry_or_dead_letter, dead_letter_rejection, replay_dead_letter,
        close_entry, reconcile_once, get_by_operation_id, reconcile_by_query,
        open_item, Crash, rowVars
<1>2. outbox'.last_outcome \in TERMINAL \cup {outbox.last_outcome}
    <2>1. CASE \/ retry_or_dead_letter(w) \/ dead_letter_rejection(w)
               \/ reconcile_by_query(w)
        BY <2>1, LastOutcomeKept
    <2>2. CASE \/ AdapterPost(w) \/ ConnectFails(w) \/ AnswerUnknown(w)
               \/ PostRaises(w) \/ run_due_once(w) \/ attempt_one(w)
               \/ replay_dead_letter(w) \/ close_entry(w) \/ reconcile_once(w)
               \/ get_by_operation_id(w) \/ open_item(w) \/ Crash(w)
        BY <2>2 DEF AdapterPost, ConnectFails, AnswerUnknown, PostRaises,
            run_due_once, attempt_one, replay_dead_letter, close_entry,
            reconcile_once, get_by_operation_id, open_item, Crash, rowVars
    <2> QED BY <2>1, <2>2
<1>3. \/ Finish(w)
      \/ \E t : Become(w, t) /\ t.pc # "write"
    <2>1. CASE \/ PostRaises(w) \/ retry_or_dead_letter(w) \/ dead_letter_rejection(w)
               \/ close_entry(w) \/ open_item(w) \/ Crash(w)
        BY <2>1 DEF PostRaises, retry_or_dead_letter, dead_letter_rejection,
            close_entry, open_item, Crash
    <2>2. CASE run_due_once(w) \/ replay_dead_letter(w)
        <3>1. PICK job, p, ep : /\ Become(w, Start(job, p, ep))
                                /\ p \in {"claimed", "close", "gate"}
            BY <2>2 DEF run_due_once, replay_dead_letter
        <3>2. Start(job, p, ep).pc = p
            BY DEF Start, IdleTask
        <3> QED BY <3>1, <3>2
    <2>3. CASE \/ AdapterPost(w) \/ ConnectFails(w) \/ AnswerUnknown(w)
               \/ attempt_one(w) \/ get_by_operation_id(w) \/ reconcile_by_query(w)
        <3>1. \/ Finish(w)
              \/ \E p \in {"await", "not_sent", "record", "gate", "queried", "recover"} :
                 \E x, r :
                    \/ Become(w, [task[w] EXCEPT !.pc = p])
                    \/ Become(w, [task[w] EXCEPT !.pc = p, !.got = x])
                    \/ Become(w, [task[w] EXCEPT !.pc = p, !.reason = r])
            BY <2>3 DEF AdapterPost, ConnectFails, AnswerUnknown, attempt_one,
                get_by_operation_id, reconcile_by_query, Goto
        <3>2. ASSUME NEW p, NEW x, NEW r
              PROVE  /\ [task[w] EXCEPT !.pc = p].pc = p
                     /\ [task[w] EXCEPT !.pc = p, !.got = x].pc = p
                     /\ [task[w] EXCEPT !.pc = p, !.reason = r].pc = p
            BY DEF TypeInv, TaskFits, Task
        <3> QED BY <3>1, <3>2
    <2>4. CASE reconcile_once(w)
        <3>1. PICK ep \in Endpoints : Become(w, branch(ep))
            BY <2>4 DEF reconcile_once
        <3>2. branch(ep).pc \in {"recover", "query", "gate"}
            BY DEF branch, Start, IdleTask
        <3> QED BY <3>1, <3>2
    <2> QED BY <2>1, <2>2, <2>3, <2>4
<1> QED BY <1>1, <1>2, <1>3, SerialQuiet, SerialIdle

\* Initially there is no attempt.
LEMMA SerialInit == Init => SerialInv
BY DEF Init, SerialInv, OnlyLast, LastAgrees, WriteFresh

\* Without key enforcement every step preserves SerialInv.
LEMMA SerialNext ==
    ASSUME ~suppresses_duplicates
    PROVE  TypeInv /\ FlightInv /\ SerialInv /\ [Next]_vars => SerialInv'
<1> SUFFICES ASSUME TypeInv, FlightInv, SerialInv, [Next]_vars PROVE SerialInv'
    OBVIOUS
<1>1. ASSUME NEW w \in Workers, Dispatch(w) PROVE SerialInv'
    BY <1>1, SerialDispatchGate, SerialWriteAhead, SerialRecordOutcome, SerialJobSteps
    DEF Dispatch
<1>2. ASSUME NEW w \in Workers,
             RetryPass(w) \/ Replay(w) \/ ReconcilePass(w) \/ Crash(w)
      PROVE  SerialInv'
    BY <1>2, SerialJobSteps, Serial_resolve_not_sent DEF RetryPass, Replay, ReconcilePass
<1>3. ASSUME UNCHANGED <<attempts, task>>,
             outbox'.last_outcome \in TERMINAL \cup {outbox.last_outcome}
      PROVE  SerialInv'
    BY <1>3 DEF SerialInv, OnlyLast, LastAgrees, WriteFresh
<1>4. CASE Operator
    <2>1. UNCHANGED <<attempts, task>>
        BY <1>4 DEF Operator, resolve_item
    <2>2. outbox'.last_outcome \in TERMINAL \cup {outbox.last_outcome}
        <3>1. PICK i \in DOMAIN recovery, p \in Operators, r \in RecoveryResolution :
                resolve_item(i, p, r)
            BY <1>4 DEF Operator
        <3>2. \/ outbox' = outbox
              \/ \E x \in TERMINAL : outbox' = [outbox EXCEPT !.state = "settled",
                                                              !.last_outcome = x]
            BY <3>1 DEF resolve_item, TERMINAL
        <3> QED BY <3>2 DEF TypeInv, TypeOK, RowsTyped, Outbox
    <2> QED BY <1>3, <2>1, <2>2
<1>5. CASE Tick \/ UNCHANGED vars
    BY <1>3, <1>5 DEF Tick, vars, rowVars
<1>6. CASE Ledger
    <2>1. CASE \E n \in wire : DropRequest(n)
        BY <1>3, <2>1 DEF DropRequest, rowVars
    <2>2. CASE \E n \in wire, answer \in Answers : LedgerTakes(n, answer)
        <3>1. UNCHANGED <<attempts, outbox>>
            BY <2>2 DEF LedgerTakes, rowVars
        <3>2. \A v \in Workers : task'[v].pc = "write" => task'[v] = task[v]
            <4>1. PICK n, answer : Deliver(n, answer)
                BY <2>2 DEF LedgerTakes
            <4>2. ASSUME NEW v \in Workers
                  PROVE  \/ task'[v] = task[v]
                         \/ task'[v] = [task[v] EXCEPT !.pc = "record", !.got = answer]
                BY <4>1 DEF Deliver
            <4> QED BY <4>2 DEF TypeInv, TaskFits, Task
        <3> QED BY <3>1, <3>2 DEF SerialInv, OnlyLast, LastAgrees, WriteFresh
    <2> QED BY <1>6, <2>1, <2>2 DEF Ledger
<1> QED BY <1>1, <1>2, <1>4, <1>5, <1>6 DEF Next

\* Without key enforcement attempts to post are serial, although no lock is held across
\* the gate, the insertion and the send (SerialInv above).
THEOREM SerialInvariant ==
    ASSUME ~suppresses_duplicates
    PROVE  Spec => []SerialInv
<1>1. TypeInv /\ FlightInv /\ SerialInv /\ [Next]_vars => SerialInv'
    BY SerialNext
<1> QED BY <1>1, TypeInvariant, FlightInvariant, SerialInit, PTL DEF Spec

\* Without key enforcement only the newest attempt can still have an effect, for any
\* number of workers, attempts and crashes.
THEOREM OnlyLastAttemptIsLive ==
    ASSUME ~suppresses_duplicates
    PROVE  Spec => []OnlyLastAttemptLive
<1>1. SerialInv => OnlyLastAttemptLive
    BY DEF SerialInv, OnlyLast, OnlyLastAttemptLive, Retryable
<1> QED BY <1>1, SerialInvariant, PTL

\* Against a ledger that suppresses nothing the books move at most once for an
\* operation, whatever is retried, replayed, reconciled, lost or killed.
THEOREM AtMostOnce ==
    ASSUME ~suppresses_duplicates
    PROVE  Spec => []AtMostOneEffect
<1>1. TypeInv /\ FlightInv /\ SerialInv => AtMostOneEffect
    <2> SUFFICES ASSUME TypeInv, FlightInv, SerialInv PROVE AtMostOneEffect
        OBVIOUS
    <2>1. \A n \in Effects : n = Len(attempts)
        <3> SUFFICES ASSUME NEW n \in Effects, n # Len(attempts) PROVE FALSE
            OBVIOUS
        <3>1. n \in DOMAIN attempts /\ n < Len(attempts)
            BY NumbersInRange
        <3>2. attempts[n].outcome \in Retryable
            BY <3>1 DEF SerialInv, OnlyLast
        <3> QED BY <3>1, <3>2 DEF FlightInv, EvidenceTruthful, Retryable
    <2>2. \A a \in applied : a.no \in Effects
        BY DEF Effects
    <2> QED BY <2>1, <2>2 DEF FlightInv, RequestOnce, AtMostOneEffect
<1> QED BY <1>1, TypeInvariant, FlightInvariant, SerialInvariant, PTL
===============================================================================
