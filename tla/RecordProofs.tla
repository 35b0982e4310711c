------------------------------ MODULE RecordProofs ------------------------------
(***************************************************************************)
(* What can be read off the record, for every value of the constants: the  *)
(* audit trail is complete, a rejection has its evidence and its letter,   *)
(* attempts stay within their budget, and against a ledger that suppresses *)
(* no duplicates the supersession interlock releases only operations whose *)
(* effect is known, as the life of an operation has it.                    *)
(***************************************************************************)
EXTENDS VerdictProofs, SendBudget

-------------------------------------------------------------------------------
\* A count over the rows of a table, where one more row qualifies or none.
LEMMA CountOneMore ==
    ASSUME NEW b \in Nat, NEW S \in SUBSET (1 .. b), NEW x, x \notin S
    PROVE  Cardinality(S) \in Nat /\ Cardinality(S \cup {x}) = Cardinality(S) + 1
<1>1. IsFiniteSet(1 .. b)
    BY FS_Interval
<1>2. IsFiniteSet(S)
    BY <1>1, FS_Subset
<1> QED BY <1>2, FS_AddElement, FS_CardinalityType

\* The rows the trail counts twice: an attempt once sent and once ended, an item once
\* opened and once resolved.
Ended  == DOMAIN attempts \ InFlight
Judged == {i \in DOMAIN recovery : recovery[i].state = "resolved"}

\* The trail keeps its counts where rows, letter and trail do not change.
LEMMA TrailSame ==
    ASSUME TrailComplete, UNCHANGED <<attempts, dlq, queries, recovery, trail>>
    PROVE  TrailComplete'
BY DEF TrailComplete, InFlight

\* A sequence is indexed from one, and so is the sequence an append makes of it.
LEMMA TrailTypes ==
    ASSUME TypeInv
    PROVE  /\ Len(attempts) \in Nat /\ DOMAIN attempts = 1 .. Len(attempts)
           /\ Len(recovery) \in Nat /\ DOMAIN recovery = 1 .. Len(recovery)
           /\ Len(queries) \in Nat /\ DOMAIN queries = 1 .. Len(queries)
           /\ trail \in [AuditTool -> Nat]
           /\ Ended \in SUBSET (1 .. Len(attempts))
           /\ Judged \in SUBSET (1 .. Len(recovery))
           /\ Cardinality(Ended) \in Nat /\ Cardinality(Judged) \in Nat
<1>1. /\ Len(attempts) \in Nat /\ DOMAIN attempts = 1 .. Len(attempts)
      /\ Len(recovery) \in Nat /\ DOMAIN recovery = 1 .. Len(recovery)
      /\ Len(queries) \in Nat /\ DOMAIN queries = 1 .. Len(queries)
      /\ trail \in [AuditTool -> Nat]
    BY DEF TypeInv, TypeOK, RowsTyped
<1>2. /\ Ended \in SUBSET (1 .. Len(attempts))
      /\ Judged \in SUBSET (1 .. Len(recovery))
    BY <1>1 DEF Ended, Judged
<1>3. Cardinality(Ended) \in Nat
    BY <1>1, <1>2, CountOneMore, Len(attempts) + 1 \notin Ended
<1>4. Cardinality(Judged) \in Nat
    BY <1>1, <1>2, CountOneMore, Len(recovery) + 1 \notin Judged
<1> QED BY <1>1, <1>2, <1>3, <1>4

\* The write-ahead row and its event.
LEMMA TrailWriteAhead ==
    ASSUME TypeInv, TrailComplete, NEW w \in Workers, WriteAhead(w)
    PROVE  TrailComplete'
<1>1. UNCHANGED <<dlq, queries, recovery>>
    BY DEF WriteAhead
<1>2. CASE task[w].attempt_no \in DOMAIN attempts
    <2>1. UNCHANGED <<attempts, trail>>
        BY <1>2 DEF WriteAhead
    <2> QED BY <1>1, <2>1, TrailSame
<1>3. CASE task[w].attempt_no \notin DOMAIN attempts
    <2>1. trail' = [trail EXCEPT !["post"] = @ + 1]
        BY <1>3 DEF WriteAhead, emit
    <2>2. /\ Len(attempts') = Len(attempts) + 1
          /\ DOMAIN attempts = 1 .. Len(attempts)
          /\ DOMAIN attempts' = 1 .. Len(attempts) + 1
          /\ \A n \in DOMAIN attempts : attempts'[n] = attempts[n]
          /\ attempts'[Len(attempts) + 1].state = "in_flight"
        <3>1. written_row(w).state = "in_flight"
            BY DEF written_row
        <3> QED BY <1>3, <3>1, InsertedRow
    <2>3. Ended' = Ended
        <3>1. \A n : n \in Ended' <=> n \in Ended
            BY <2>2, TrailTypes DEF Ended, InFlight
        <3> QED BY <3>1
    <2>4. /\ trail'["post"] = trail["post"] + 1
          /\ \A t \in AuditTool : t # "post" => trail'[t] = trail[t]
        BY <2>1, TrailTypes DEF AuditTool
    <2>5. trail'["post"] = Len(attempts') + Cardinality(Ended')
        <3>1. trail["post"] = Len(attempts) + Cardinality(Ended)
            BY DEF TrailComplete, Ended
        <3>2. Cardinality(Ended') = Cardinality(Ended)
            BY <2>3
        <3> QED BY <2>2, <2>4, <3>1, <3>2, TrailTypes
    <2> QED BY <1>1, <2>4, <2>5 DEF TrailComplete, AuditTool, Ended
<1> QED BY <1>2, <1>3

\* A row in flight is closed, with its event.
LEMMA TrailClose ==
    ASSUME TypeInv, TrailComplete, NEW n \in InFlight, NEW row, row.state = "resolved",
           attempts' = [attempts EXCEPT ![n] = row], emit("post"),
           UNCHANGED <<dlq, queries, recovery>>
    PROVE  TrailComplete'
<1>1. /\ Len(attempts') = Len(attempts) /\ DOMAIN attempts' = DOMAIN attempts
      /\ n \in DOMAIN attempts /\ attempts'[n] = row
      /\ \A m \in DOMAIN attempts : m # n => attempts'[m] = attempts[m]
    BY DEF InFlight, TypeInv, TypeOK, RowsTyped
<1>2. Ended' = Ended \cup {n} /\ n \notin Ended
    BY <1>1 DEF Ended, InFlight
<1>3. Cardinality(Ended') = Cardinality(Ended) + 1
    BY <1>2, TrailTypes, CountOneMore
<1>4. /\ trail'["post"] = trail["post"] + 1
      /\ \A t \in AuditTool : t # "post" => trail'[t] = trail[t]
    BY TrailTypes DEF emit, AuditTool
<1>5. trail'["post"] = Len(attempts') + Cardinality(Ended')
    BY <1>1, <1>3, <1>4, TrailTypes DEF TrailComplete, Ended
<1> QED BY <1>4, <1>5 DEF TrailComplete, AuditTool, Ended

\* Transaction 3 writes outcome and event together.
LEMMA TrailRecordOutcome ==
    ASSUME TypeInv, FlightInv, TrailComplete, NEW w \in Workers, RecordOutcome(w)
    PROVE  TrailComplete'
<1> DEFINE n == task[w].attempt_no
<1>1. UNCHANGED <<dlq, queries, recovery>> /\ task[w].pc \in Owning
    BY DEF RecordOutcome, Owning
<1>2. n \in DOMAIN attempts /\ n \in InFlight
    BY <1>1, NumbersInRange DEF FlightInv, Owned, InFlight
<1>3. recorded_attempt(w).state = "resolved"
    BY <1>2 DEF recorded_attempt, TypeInv, TypeOK, RowsTyped, PostingAttempt
<1>4. \/ UNCHANGED <<attempts, trail>>
      \/ attempts' = [attempts EXCEPT ![n] = recorded_attempt(w)] /\ emit("post")
    BY DEF RecordOutcome
<1> QED BY <1>1, <1>2, <1>3, <1>4, TrailSame, TrailClose

\* _resolve_not_sent writes outcome and event together.
LEMMA Trail_resolve_not_sent ==
    ASSUME TypeInv, TrailComplete, NEW w \in Workers, resolve_not_sent(w)
    PROVE  TrailComplete'
<1> DEFINE n == CHOOSE m \in InFlight : TRUE
           row == [attempts[n] EXCEPT !.state = "resolved", !.outcome = "not_sent"]
<1>1. UNCHANGED <<dlq, queries, recovery>>
    BY DEF resolve_not_sent
<1>2. \/ UNCHANGED <<attempts, trail>>
      \/ /\ Cardinality(InFlight) = 1
         /\ attempts' = [attempts EXCEPT ![n] = row] /\ emit("post")
    BY DEF resolve_not_sent
<1>3. CASE /\ Cardinality(InFlight) = 1
           /\ attempts' = [attempts EXCEPT ![n] = row] /\ emit("post")
    <2>1. n \in InFlight /\ n \in DOMAIN attempts
        BY <1>3, InFlightChoice DEF InFlight
    <2>2. row.state = "resolved"
        <3>1. attempts[n] \in PostingAttempt
            BY <2>1 DEF TypeInv, TypeOK, RowsTyped
        <3> QED BY <3>1 DEF PostingAttempt
    <2> HIDE DEF n, row
    <2> QED BY <1>1, <1>3, <2>1, <2>2, TrailClose
<1> QED BY <1>1, <1>2, <1>3, TrailSame

\* A dead letter is written with its event, or neither is; a delay has its own.
LEMMA TrailDeadLetter ==
    ASSUME TypeInv, TrailComplete, NEW w \in Workers,
           retry_or_dead_letter(w) \/ dead_letter_rejection(w)
    PROVE  TrailComplete'
<1>1. UNCHANGED <<attempts, queries, recovery>>
    BY DEF retry_or_dead_letter, dead_letter_rejection
<1>2. \/ \E reason \in DeadLetterReason : \E mark : dead_letter(reason, mark)
      \/ emit("retry") /\ UNCHANGED dlq
    BY DEF retry_or_dead_letter, dead_letter_rejection, DeadLetterReason
<1>3. CASE emit("retry") /\ UNCHANGED dlq
    <2>1. \A t \in AuditTool : t # "retry" => trail'[t] = trail[t]
        BY <1>3, TrailTypes DEF emit, AuditTool
    <2> QED BY <1>1, <1>3, <2>1 DEF TrailComplete, InFlight, AuditTool
<1>4. ASSUME NEW reason \in DeadLetterReason, NEW mark, dead_letter(reason, mark) PROVE TrailComplete'
    <2>1. CASE UNCHANGED <<dlq, trail>>
        BY <1>1, <2>1, TrailSame
    <2>2. CASE dlq = NULL /\ dlq' # NULL /\ emit("dlq")
        <3>1. /\ trail'["dlq"] = trail["dlq"] + 1
              /\ \A t \in AuditTool : t # "dlq" => trail'[t] = trail[t]
            BY <2>2, TrailTypes DEF emit, AuditTool
        <3> QED BY <1>1, <2>2, <3>1 DEF TrailComplete, InFlight, AuditTool
    <2>3. ASSUME dlq' = [reason |-> reason, replay_state |-> "pending"]
          PROVE  dlq' # NULL
        BY <2>3, NullAssumption DEF DeadLetter, ReplayState
    <2> QED BY <1>4, <2>1, <2>2, <2>3 DEF dead_letter
<1> QED BY <1>2, <1>3, <1>4
\* The closing of a letter has an event of its own and takes none away.
LEMMA TrailCloseEntry ==
    ASSUME TypeInv, TrailComplete, NEW w \in Workers, close_entry(w)
    PROVE  TrailComplete'
<1>1. UNCHANGED <<attempts, queries, recovery>>
    BY DEF close_entry
<1>2. dlq # NULL /\ dlq' # NULL
    <2>1. dlq # NULL /\ dlq \in DeadLetter
        BY DEF close_entry, TypeInv, TypeOK, RowsTyped, TaskFits
    <2>2. dlq' \in DeadLetter
        BY <2>1 DEF close_entry, DeadLetter, ReplayState
    <2> QED BY <2>1, <2>2, NullAssumption
<1>3. \A t \in AuditTool : t # "replay" => trail'[t] = trail[t]
    BY TrailTypes DEF close_entry, emit, AuditTool
<1> QED BY <1>1, <1>2, <1>3 DEF TrailComplete, InFlight, AuditTool

\* An answer and its event, or its two where it settles the operation.
LEMMA TrailQuery ==
    ASSUME TypeInv, TrailComplete, NEW w \in Workers, reconcile_by_query(w)
    PROVE  TrailComplete'
<1>1. UNCHANGED <<attempts, dlq, recovery>>
    BY DEF reconcile_by_query
<1>2. CASE UNCHANGED <<queries, trail>>
    BY <1>1, <1>2, TrailSame
<1>3. CASE /\ queries' = Append(queries, task[w].got)
           /\ \/ emit("reconcile")
              \/ trail' = [trail EXCEPT !["reconcile"] = @ + 2]
    <2>1. queries \in Seq(QueryAnswer) /\ task[w].got \in QueryAnswer
        BY DEF TypeInv, TypeOK, RowsTyped, TaskFits, reconcile_by_query
    <2>2. Len(queries') = Len(queries) + 1
        BY <1>3, <2>1, AppendProperties
    <2>3. /\ \A t \in AuditTool : t # "reconcile" => trail'[t] = trail[t]
          /\ trail'["reconcile"] >= trail["reconcile"] + 1
          /\ trail["reconcile"] \in Nat /\ trail'["reconcile"] \in Nat
        <3>1. /\ trail \in [AuditTool -> Nat] /\ "reconcile" \in AuditTool
              /\ trail["reconcile"] \in Nat
            BY TrailTypes DEF AuditTool
        <3>2. CASE emit("reconcile")
            BY <3>1, <3>2 DEF emit
        <3>3. CASE trail' = [trail EXCEPT !["reconcile"] = @ + 2]
            BY <3>1, <3>3
        <3> QED BY <1>3, <3>2, <3>3
    <2>4. trail'["reconcile"] >= Len(queries')
        BY <2>2, <2>3, TrailTypes DEF TrailComplete
    <2> QED BY <1>1, <2>3, <2>4 DEF TrailComplete, InFlight, AuditTool
<1> QED BY <1>2, <1>3 DEF reconcile_by_query

\* An item is opened with its event, or neither is.
LEMMA TrailOpenItem ==
    ASSUME TypeInv, TrailComplete, NEW w \in Workers, open_item(w)
    PROVE  TrailComplete'
<1> DEFINE new == [reason |-> task[w].reason, state |-> "open",
                   resolution |-> NULL, resolved_by |-> NULL]
<1>1. UNCHANGED <<attempts, dlq, queries>>
    BY DEF open_item
<1>2. CASE UNCHANGED <<recovery, trail>>
    BY <1>1, <1>2, TrailSame
<1>3. CASE recovery' = Append(recovery, new) /\ emit("recover")
    <2>1. recovery \in Seq(RecoveryItem) /\ new \in RecoveryItem
        BY DEF TypeInv, TypeOK, RowsTyped, TaskFits, open_item, RecoveryItem
    <2>2. new.state = "open"
        OBVIOUS
    <2> HIDE DEF new
    <2>3. /\ Len(recovery') = Len(recovery) + 1
          /\ DOMAIN recovery' = 1 .. Len(recovery) + 1
          /\ \A i \in 1 .. Len(recovery) : recovery'[i] = recovery[i]
          /\ recovery'[Len(recovery) + 1] = new
        BY <1>3, <2>1, AppendProperties
    <2>4. Judged' = Judged
        <3>1. \A i : i \in Judged' <=> i \in Judged
            BY <2>2, <2>3, TrailTypes DEF Judged
        <3> QED BY <3>1
    <2>5. /\ trail'["recover"] = trail["recover"] + 1
          /\ \A t \in AuditTool : t # "recover" => trail'[t] = trail[t]
        BY <1>3, TrailTypes DEF emit, AuditTool
    <2>6. trail'["recover"] = Len(recovery') + Cardinality(Judged')
        <3>1. trail["recover"] = Len(recovery) + Cardinality(Judged)
            BY DEF TrailComplete, Judged
        <3>2. Cardinality(Judged') = Cardinality(Judged)
            BY <2>4
        <3> QED BY <2>3, <2>5, <3>1, <3>2, TrailTypes
    <2> QED BY <1>1, <2>5, <2>6 DEF TrailComplete, InFlight, AuditTool, Judged
<1> QED BY <1>2, <1>3 DEF open_item

\* What a judgement does to its item: an open one is resolved, the others stay.
LEMMA JudgedItem ==
    ASSUME TypeInv, NEW i \in DOMAIN recovery, NEW p \in Operators,
           NEW r \in RecoveryResolution, resolve_item(i, p, r)
    PROVE  /\ Len(recovery') = Len(recovery) /\ DOMAIN recovery' = DOMAIN recovery
           /\ recovery[i].state = "open"
           /\ recovery'[i].state = "resolved" /\ recovery'[i].resolution = r
           /\ \A j \in DOMAIN recovery : j # i => recovery'[j] = recovery[j]
<1>1. recovery \in Seq(RecoveryItem) /\ recovery[i] \in RecoveryItem
    BY DEF TypeInv, TypeOK, RowsTyped
<1>2. /\ recovery[i].state = "open"
      /\ recovery' = [recovery EXCEPT ![i].state = "resolved",
                                      ![i].resolution = r, ![i].resolved_by = p]
    BY DEF resolve_item
<1> DEFINE row == [recovery[i] EXCEPT !.state = "resolved", !.resolution = r,
                                      !.resolved_by = p]
<1>3. recovery' = [recovery EXCEPT ![i] = row]
    BY <1>2
<1>4. row.state = "resolved" /\ row.resolution = r
    BY <1>1 DEF RecoveryItem
<1> HIDE DEF row
<1> QED BY <1>1, <1>2, <1>3, <1>4

\* An item is resolved with its event.
LEMMA Trail_resolve_item ==
    ASSUME TypeInv, TrailComplete, NEW i \in DOMAIN recovery, NEW p \in Operators,
           NEW r \in RecoveryResolution, resolve_item(i, p, r)
    PROVE  TrailComplete'
<1>1. UNCHANGED <<attempts, dlq, queries>> /\ emit("recover")
    BY DEF resolve_item
<1>2. /\ Len(recovery') = Len(recovery) /\ DOMAIN recovery' = DOMAIN recovery
      /\ recovery[i].state = "open" /\ recovery'[i].state = "resolved"
      /\ \A j \in DOMAIN recovery : j # i => recovery'[j] = recovery[j]
    BY JudgedItem
<1>3. Judged' = Judged \cup {i} /\ i \notin Judged
    BY <1>2 DEF Judged
<1>4. Cardinality(Judged') = Cardinality(Judged) + 1
    BY <1>3, TrailTypes, CountOneMore
<1>5. /\ trail'["recover"] = trail["recover"] + 1
      /\ \A t \in AuditTool : t # "recover" => trail'[t] = trail[t]
    BY <1>1, TrailTypes DEF emit, AuditTool
<1>6. trail'["recover"] = Len(recovery') + Cardinality(Judged')
    <2>1. trail["recover"] = Len(recovery) + Cardinality(Judged)
        BY DEF TrailComplete, Judged
    <2> QED BY <1>2, <1>4, <1>5, <2>1, TrailTypes
<1> QED BY <1>1, <1>5, <1>6 DEF TrailComplete, InFlight, AuditTool, Judged

\* Every step writes its events with its rows.
LEMMA TrailNext == TypeInv /\ FlightInv /\ TrailComplete /\ [Next]_vars => TrailComplete'
<1> SUFFICES ASSUME TypeInv, FlightInv, TrailComplete, [Next]_vars
             PROVE  TrailComplete'
    OBVIOUS
<1>1. ASSUME NEW w \in Workers, Dispatch(w) PROVE TrailComplete'
    BY <1>1, TrailSame, TrailWriteAhead, TrailRecordOutcome DEF Dispatch, DispatchGate,
        AdapterPost, ConnectFails, AnswerUnknown, PostRaises, rowVars
<1>2. ASSUME NEW w \in Workers, RetryPass(w) PROVE TrailComplete'
    BY <1>2, TrailSame, Trail_resolve_not_sent, TrailDeadLetter DEF RetryPass,
        run_due_once, attempt_one, rowVars
<1>3. ASSUME NEW w \in Workers, Replay(w) \/ Crash(w) PROVE TrailComplete'
    BY <1>3, TrailSame, TrailCloseEntry DEF Replay, replay_dead_letter, Crash, rowVars
<1>4. ASSUME NEW w \in Workers, ReconcilePass(w) PROVE TrailComplete'
    BY <1>4, TrailSame, TrailQuery, TrailOpenItem DEF ReconcilePass, reconcile_once,
        get_by_operation_id, rowVars
<1>5. CASE Operator
    BY <1>5, Trail_resolve_item DEF Operator
<1>6. CASE Ledger \/ Tick \/ UNCHANGED vars
    BY <1>6, TrailSame DEF Ledger, LedgerTakes, DropRequest, Tick, vars, rowVars
<1> QED BY <1>1, <1>2, <1>3, <1>4, <1>5, <1>6 DEF Next

\* Every send, every ending, every dead letter, query and recovery step is in the audit
\* trail, whatever dies or races: each is written in the transaction of its event.
THEOREM TrailIsComplete == Spec => []TrailComplete
<1>1. Init => TrailComplete
    <2> SUFFICES ASSUME Init PROVE TrailComplete
        OBVIOUS
    <2>1. /\ DOMAIN attempts = {} /\ DOMAIN recovery = {} /\ Len(attempts) = 0
          /\ Len(recovery) = 0 /\ Len(queries) = 0 /\ dlq = NULL
          /\ \A t \in AuditTool : trail[t] = 0
        BY DEF Init
    <2>2. /\ DOMAIN attempts \ InFlight = {}
          /\ {i \in DOMAIN recovery : recovery[i].state = "resolved"} = {}
        BY <2>1
    <2>3. Cardinality({}) = 0
        BY FS_EmptySet
    <2> QED BY <2>1, <2>2, <2>3 DEF TrailComplete, AuditTool
<1>2. TypeInv /\ FlightInv /\ TrailComplete /\ [Next]_vars => TrailComplete'
    BY TrailNext
<1> QED BY <1>1, <1>2, TypeInvariant, FlightInvariant, PTL DEF Spec
-------------------------------------------------------------------------------
\* What a rejection may rest on.
RunAt(answers, i) ==
    /\ i \in DOMAIN answers /\ i + ConsecutiveNotFound - 1 \in DOMAIN answers
    /\ \A j \in i .. i + ConsecutiveNotFound - 1 : answers[j] = "not_found"
Evidenced ==
    \/ \E n \in DOMAIN attempts : attempts[n].outcome = "rejected"
    \/ \E i \in DOMAIN recovery : recovery[i].resolution = "rejected_by_evidence"
    \/ \E i \in DOMAIN queries : RunAt(queries, i)

\* Only a resolved item has a resolution, which no later judgement replaces.
ItemsResolved ==
    \A i \in DOMAIN recovery :
        recovery[i].resolution # NULL => recovery[i].state = "resolved"

\* What a step may do to the recovery queue: items are added unresolved and judged once.
ItemsKept ==
    /\ \A i \in DOMAIN recovery :
        /\ i \in DOMAIN recovery'
        /\ recovery[i].resolution # NULL => recovery'[i] = recovery[i]
    /\ ItemsResolved'

\* A run of not_found answers of the length the policy asks for, where the pass counts
\* one (_consecutive_not_found).
LEMMA RunCounted ==
    ASSUME NEW answers \in Seq(QueryAnswer),
           consecutive_not_found(answers) >= ConsecutiveNotFound
    PROVE  \E i \in DOMAIN answers : RunAt(answers, i)
<1> DEFINE others == {j \in DOMAIN answers : answers[j] # "not_found"}
           last == Max({0} \cup others)
           first == Len(answers) - ConsecutiveNotFound + 1
<1>1. Len(answers) \in Nat /\ DOMAIN answers = 1 .. Len(answers)
    OBVIOUS
<1>2. last \in {0} \cup others /\ \A j \in {0} \cup others : last >= j
    <2>1. {0} \cup others \in SUBSET (0 .. Len(answers)) /\ {0} \cup others # {}
        BY <1>1
    <2> HIDE DEF others
    <2> QED BY <1>1, <2>1, MaxExists
<1>3. last \in Nat /\ ConsecutiveNotFound \in Nat /\ ConsecutiveNotFound >= 1
    BY <1>1, <1>2, PolicyAssumption
<1>4. Len(answers) - last >= ConsecutiveNotFound
    BY DEF consecutive_not_found
<1>5. \A j \in DOMAIN answers : j > last => answers[j] = "not_found"
    <2> SUFFICES ASSUME NEW j \in DOMAIN answers, j > last, answers[j] # "not_found"
                 PROVE  FALSE
        OBVIOUS
    <2>1. last >= j
        BY <1>2
    <2> HIDE DEF last
    <2> QED BY <1>1, <1>3, <2>1
<1> HIDE DEF last
<1>6. first \in Int /\ first >= 1 /\ first <= Len(answers) /\ first > last
    BY <1>1, <1>3, <1>4
<1>7. first + ConsecutiveNotFound - 1 = Len(answers)
    BY <1>1, <1>3
<1> HIDE DEF first
<1>8. \A j \in first .. Len(answers) : answers[j] = "not_found"
    BY <1>1, <1>3, <1>5, <1>6
<1>9. first \in DOMAIN answers /\ Len(answers) \in DOMAIN answers
    BY <1>1, <1>6
<1> QED BY <1>7, <1>8, <1>9 DEF RunAt

\* Every step keeps the judgements.
LEMMA ItemsKeptNext == TypeInv /\ ItemsResolved /\ [Next]_vars => ItemsKept
<1> SUFFICES ASSUME TypeInv, ItemsResolved, [Next]_vars PROVE ItemsKept
    OBVIOUS
<1>1. CASE UNCHANGED recovery
    BY <1>1 DEF ItemsKept, ItemsResolved
<1>2. ASSUME NEW w \in Workers, open_item(w) PROVE ItemsKept
    <2> DEFINE new == [reason |-> task[w].reason, state |-> "open",
                       resolution |-> NULL, resolved_by |-> NULL]
    <2>1. recovery \in Seq(RecoveryItem) /\ new \in RecoveryItem
        BY <1>2 DEF TypeInv, TypeOK, RowsTyped, TaskFits, open_item, RecoveryItem
    <2>2. new.resolution = NULL
        OBVIOUS
    <2>3. UNCHANGED recovery \/ recovery' = Append(recovery, new)
        BY <1>2 DEF open_item
    <2> HIDE DEF new
    <2>4. CASE recovery' = Append(recovery, new)
        <3>1. /\ DOMAIN recovery = 1 .. Len(recovery) /\ Len(recovery) \in Nat
              /\ DOMAIN recovery' = 1 .. Len(recovery) + 1
              /\ \A i \in 1 .. Len(recovery) : recovery'[i] = recovery[i]
              /\ recovery'[Len(recovery) + 1] = new
            BY <2>1, <2>4, AppendProperties
        <3> QED BY <2>2, <3>1 DEF ItemsKept, ItemsResolved
    <2> QED BY <1>1, <2>3, <2>4
<1>3. CASE Operator
    <2>1. PICK i \in DOMAIN recovery, p \in Operators, r \in RecoveryResolution :
            resolve_item(i, p, r)
        BY <1>3 DEF Operator
    <2>2. /\ DOMAIN recovery' = DOMAIN recovery
          /\ recovery[i].state = "open" /\ recovery'[i].state = "resolved"
          /\ \A j \in DOMAIN recovery : j # i => recovery'[j] = recovery[j]
        BY <2>1, JudgedItem
    <2>3. recovery[i].resolution = NULL
        BY <2>2 DEF ItemsResolved
    <2> QED BY <2>2, <2>3 DEF ItemsKept, ItemsResolved
<1>4. ASSUME NEW w \in Workers, Dispatch(w) \/ RetryPass(w) PROVE ItemsKept
    BY <1>1, <1>4 DEF Dispatch, DispatchGate, WriteAhead, AdapterPost, ConnectFails,
        AnswerUnknown, PostRaises, RecordOutcome, RetryPass, run_due_once, attempt_one,
        resolve_not_sent, retry_or_dead_letter, dead_letter_rejection, rowVars
<1>5. ASSUME NEW w \in Workers, Replay(w) \/ ReconcilePass(w) \/ Crash(w)
      PROVE  ItemsKept
    BY <1>1, <1>2, <1>5 DEF Replay, ReconcilePass, replay_dead_letter, close_entry,
        reconcile_once, get_by_operation_id, reconcile_by_query, Crash, rowVars
<1>6. CASE Ledger \/ Tick \/ UNCHANGED vars
    BY <1>1, <1>6 DEF Ledger, LedgerTakes, DropRequest, Tick, vars, rowVars
<1> QED BY <1>3, <1>4, <1>5, <1>6 DEF Next

\* Evidence once there stays.
LEMMA EvidencedKept ==
    ASSUME TypeInv, Evidenced, AttemptsKept, QueriesKept, ItemsKept
    PROVE  Evidenced'
<1>1. CASE \E n \in DOMAIN attempts : attempts[n].outcome = "rejected"
    <2>1. PICK n \in DOMAIN attempts : attempts[n].outcome = "rejected"
        BY <1>1
    <2>2. attempts[n].outcome # NULL
        BY <2>1, NullAssumption DEF OutcomeCode
    <2>3. n \in DOMAIN attempts' /\ attempts'[n].outcome = "rejected"
        BY <2>1, <2>2 DEF AttemptsKept
    <2> QED BY <2>3 DEF Evidenced
<1>2. CASE \E i \in DOMAIN recovery : recovery[i].resolution = "rejected_by_evidence"
    <2>1. PICK i \in DOMAIN recovery : recovery[i].resolution = "rejected_by_evidence"
        BY <1>2
    <2>2. recovery[i].resolution # NULL
        BY <2>1, NullAssumption DEF RecoveryResolution
    <2> QED BY <2>1, <2>2 DEF ItemsKept, Evidenced
<1>3. CASE \E i \in DOMAIN queries : RunAt(queries, i)
    <2>1. PICK i \in DOMAIN queries : RunAt(queries, i)
        BY <1>3
    <2>2. /\ DOMAIN queries = 1 .. Len(queries) /\ Len(queries) \in Nat
          /\ ConsecutiveNotFound \in Nat
        BY PolicyAssumption, TrailTypes
    <2>3. i .. i + ConsecutiveNotFound - 1 \subseteq DOMAIN queries
        BY <2>1, <2>2 DEF RunAt
    <2>4. RunAt(queries', i)
        BY <2>1, <2>3 DEF RunAt, QueriesKept
    <2> QED BY <2>4 DEF Evidenced, RunAt
<1> QED BY <1>1, <1>2, <1>3 DEF Evidenced
\* A step that gives a rejection has its evidence, the attempt's, the operator's or the
\* run of answers.
LEMMA RejectionNext ==
    ASSUME TypeInv, FlightInv, ItemsResolved, [Next]_vars,
           outbox'.last_outcome = "rejected", outbox.last_outcome # "rejected"
    PROVE  Evidenced'
<1>1. ASSUME NEW w \in Workers, RecordOutcome(w) PROVE Evidenced'
    <2> DEFINE n == task[w].attempt_no
    <2>1. /\ attempts' = [attempts EXCEPT ![n] = recorded_attempt(w)]
          /\ outbox' = recorded_outbox(w)
        BY <1>1, RecordSplit
    <2>2. n \in DOMAIN attempts
        BY <1>1, NumbersInRange DEF RecordOutcome, Owning
    <2>3. recorded_outbox(w).last_outcome = task[w].got
        BY DEF recorded_outbox, TypeInv, TypeOK, RowsTyped, Outbox
    <2>4. recorded_attempt(w).outcome = task[w].got
        BY <2>2 DEF recorded_attempt, TypeInv, TypeOK, RowsTyped, PostingAttempt
    <2>5. n \in DOMAIN attempts' /\ attempts'[n].outcome = "rejected"
        BY <2>1, <2>2, <2>3, <2>4
    <2> QED BY <2>5 DEF Evidenced
<1>2. ASSUME NEW w \in Workers, resolve_not_sent(w) PROVE FALSE
    <2>1. outbox' = [outbox EXCEPT !.last_outcome = "not_sent",
                                   !.attempt_count = MaxOf(@, task[w].attempt_no)]
        BY <1>2, NotSentSplit
    <2> QED BY <2>1 DEF TypeInv, TypeOK, RowsTyped, Outbox
<1>3. ASSUME NEW w \in Workers, reconcile_by_query(w) PROVE Evidenced'
    <2> DEFINE settled == [outbox EXCEPT !.last_outcome = conclusion(w),
                                         !.state = "settled"]
    <2>1. /\ outbox' = settled
          /\ queries' = Append(queries, task[w].got)
        BY <1>3 DEF reconcile_by_query
    <2>2. settled.last_outcome = conclusion(w)
        BY DEF TypeInv, TypeOK, RowsTyped, Outbox
    <2>3. conclusion(w) = "rejected"
        BY <2>1, <2>2
    <2>4. consecutive_not_found(queries') >= ConsecutiveNotFound
        <3>1. consecutive_not_found(Append(queries, task[w].got)) >= ConsecutiveNotFound
            BY <2>3, NullAssumption DEF conclusion, OutcomeCode
        <3> QED BY <2>1, <3>1 DEF consecutive_not_found
    <2>5. queries' \in Seq(QueryAnswer)
        BY <1>3, <2>1, AppendProperties
        DEF TypeInv, TypeOK, RowsTyped, TaskFits, reconcile_by_query
    <2>6. \E i \in DOMAIN queries' : RunAt(queries', i)
        BY <2>4, <2>5, RunCounted
    <2> QED BY <2>6 DEF Evidenced, RunAt
<1>4. CASE Operator
    <2>1. PICK i \in DOMAIN recovery, p \in Operators, r \in RecoveryResolution :
            resolve_item(i, p, r)
        BY <1>4 DEF Operator
    <2> DEFINE code == IF r = "confirmed_by_evidence" THEN "confirmed" ELSE "rejected"
               intent == [outbox EXCEPT !.state = "settled", !.last_outcome = code]
    <2>2. r # "resolved_unverified" /\ outbox' = intent
        BY <2>1 DEF resolve_item
    <2>3. intent.last_outcome = code
        BY DEF TypeInv, TypeOK, RowsTyped, Outbox
    <2>4. r = "rejected_by_evidence"
        BY <2>2, <2>3 DEF RecoveryResolution
    <2>5. i \in DOMAIN recovery' /\ recovery'[i].resolution = r
        BY <2>1, JudgedItem
    <2> QED BY <2>4, <2>5 DEF Evidenced
<1>5. ASSUME NEW w \in Workers, Dispatch(w) PROVE Evidenced'
    BY <1>1, <1>5, OutcomeKept DEF Dispatch
<1>6. ASSUME NEW w \in Workers, RetryPass(w) PROVE Evidenced'
    BY <1>2, <1>6, OutcomeKept DEF RetryPass
<1>7. ASSUME NEW w \in Workers, Replay(w) \/ ReconcilePass(w) \/ Crash(w)
      PROVE  Evidenced'
    BY <1>3, <1>7, OutcomeKept DEF Replay, ReconcilePass
<1>8. CASE Ledger \/ Tick \/ UNCHANGED vars
    BY <1>8 DEF Ledger, LedgerTakes, DropRequest, Tick, vars, rowVars
<1> QED BY <1>4, <1>5, <1>6, <1>7, <1>8 DEF Next

\* A rejection rests on the ledger's own answer, an operator's evidence or a full run of
\* consecutive not_found answers, for any ledger, policy and number of workers.
THEOREM RejectionIsEvidenced == Spec => []RejectionEvidenced
<1> DEFINE Inv == ItemsResolved /\ RejectionEvidenced
<1>1. RejectionEvidenced <=> (outbox.last_outcome = "rejected" => Evidenced)
    BY DEF RejectionEvidenced, Evidenced, RunAt
<1>2. RejectionEvidenced' <=> (outbox'.last_outcome = "rejected" => Evidenced')
    BY DEF RejectionEvidenced, Evidenced, RunAt
<1>3. Init => Inv
    <2> SUFFICES ASSUME Init PROVE Inv
        OBVIOUS
    <2>1. DOMAIN recovery = {} /\ outbox.last_outcome = NULL
        BY DEF Init
    <2> QED BY <2>1, NullAssumption DEF ItemsResolved, RejectionEvidenced, OutcomeCode
<1>4. TypeInv /\ FlightInv /\ Inv /\ [Next]_vars => Inv'
    <2> SUFFICES ASSUME TypeInv, FlightInv, Inv, [Next]_vars PROVE Inv'
        OBVIOUS
    <2>1. ItemsKept /\ AttemptsKept /\ QueriesKept
        BY ItemsKeptNext, AttemptsKeptNext, QueriesKeptNext
    <2>2. ItemsResolved'
        BY <2>1 DEF ItemsKept
    <2>3. outbox'.last_outcome = "rejected" => Evidenced'
        <3>1. CASE Evidenced
            BY <2>1, <3>1, EvidencedKept
        <3>2. CASE outbox.last_outcome # "rejected"
            BY <3>2, RejectionNext
        <3> QED BY <1>1, <3>1, <3>2
    <2> QED BY <1>2, <2>2, <2>3
<1>5. Inv => RejectionEvidenced
    OBVIOUS
<1> HIDE DEF Inv
<1> QED BY <1>3, <1>4, <1>5, TypeInvariant, FlightInvariant, PTL DEF Spec

-------------------------------------------------------------------------------
\* The attempts of an operation the interlock does not block are all ended, and the
\* outbox row says how the newest did.
LEMMA UnblockedIsEnded ==
    ASSUME TypeInv, FlightInv, SerialInv, InFlight = {},
           outbox.last_outcome \notin TERMINAL \cup AMBIGUOUS
    PROVE  wire = {} /\ Effects = {}
<1>1. /\ Len(attempts) \in Nat /\ DOMAIN attempts = 1 .. Len(attempts)
      /\ wire \subseteq 1 .. Len(attempts) /\ Effects \subseteq 1 .. Len(attempts)
    BY NumbersInRange
<1>2. ASSUME NEW n \in wire \cup Effects PROVE FALSE
    <2>1. /\ n \in DOMAIN attempts /\ n = Len(attempts) /\ attempts # <<>>
          /\ attempts[n].outcome \notin Retryable
        <3>1. n \in 1 .. Len(attempts) /\ n = Len(attempts)
            BY <1>1, <1>2, OnlyNewestLives
        <3>2. attempts # <<>>
            BY <1>1, <3>1
        <3>3. attempts[n].outcome \notin Retryable
            BY <1>1, <1>2, <3>1, OnlyNewestLives
        <3> QED BY <1>1, <3>1, <3>2, <3>3
    <2>2. attempts[n] \in PostingAttempt /\ attempts[n].state # "in_flight"
        BY <2>1 DEF TypeInv, TypeOK, RowsTyped, InFlight
    <2>3. attempts[n].outcome \in OutcomeCode /\ attempts[n].outcome # NULL
        BY <2>1, <2>2 DEF FlightInv, RowsResolved, PostingAttempt, AttemptState
    <2>4. attempts[n].outcome = outbox.last_outcome
        BY <2>1, <2>3 DEF SerialInv, LastAgrees
    <2> QED BY <2>1, <2>3, <2>4 DEF OutcomeCode, TERMINAL, AMBIGUOUS, Retryable
<1> QED BY <1>2

\* What the interlock does not block, and no operator has judged, has its effect known.
LEMMA SettledInterlock ==
    ASSUME TypeInv, FlightInv, SerialInv, SettledInv
    PROVE  InterlockSound
<1> SUFFICES ASSUME ~Seen!blocked(life), recovery = <<>>
             PROVE  books # "wire" /\ (books = "moved" <=>
                        outbox.last_outcome = "confirmed")
    BY DEF InterlockSound
<1>1. item = "none"
    BY DEF item, open_recovery
<1>2. /\ life.in_flight = (InFlight # {}) /\ life.outcome = outbox.last_outcome
      /\ life.item = "none"
    BY <1>1 DEF life
<1>3. InFlight = {} /\ outbox.last_outcome \notin AMBIGUOUS
    BY <1>2 DEF Seen!blocked, Seen!AMBIGUOUS, AMBIGUOUS
<1>4. CASE outbox.last_outcome = "confirmed"
    BY <1>4 DEF SettledInv, VerdictTrue, books
<1>5. CASE outbox.last_outcome = "rejected"
    BY <1>5 DEF SettledInv, VerdictTrue, books
<1>6. CASE outbox.last_outcome \notin TERMINAL
    BY <1>3, <1>6, UnblockedIsEnded DEF books, TERMINAL
<1> QED BY <1>4, <1>5, <1>6 DEF TERMINAL

\* Against a ledger that proves nothing an operation that a later resolution may
\* supersede has no request under way, and moved the books exactly if it is confirmed.
THEOREM InterlockIsSound ==
    ASSUME ~suppresses_duplicates, ~queryable_by_operation_id, RunnersPaused
    PROVE  Spec => []InterlockSound
BY SettledInterlock, SettledInvariant, SerialInvariant, TypeInvariant, FlightInvariant, PTL

\* So it has against a ledger that can be asked, where the windows fit and no rejection
\* is concluded from a reading that went stale.
THEOREM QueriedInterlockIsSound ==
    ASSUME ~suppresses_duplicates, RunnersPaused, QueryFits
    PROVE  Spec /\ [][~StaleRejection]_vars => []InterlockSound
BY SettledInterlock, FreshSettled, SerialInvariant, TypeInvariant, FlightInvariant, PTL
-------------------------------------------------------------------------------
\* At most one recovery item is open, and an undetermined outcome is an attempt's.
LifeInv ==
    /\ \A i, j \in DOMAIN recovery :
        recovery[i].state = "open" /\ recovery[j].state = "open" => i = j
    /\ outbox.last_outcome \in AMBIGUOUS => attempts # <<>>

\* A step that neither opens an item nor records an undetermined outcome.
LEMMA LifeInvQuiet ==
    ASSUME LifeInv, UNCHANGED recovery,
           outbox'.last_outcome \in AMBIGUOUS =>
                outbox.last_outcome \in AMBIGUOUS \/ attempts' # <<>>,
           attempts # <<>> => attempts' # <<>>
    PROVE  LifeInv'
BY DEF LifeInv

\* Every step keeps the recovery queue single and the undetermined outcome founded.
LEMMA LifeInvNext == TypeInv /\ FlightInv /\ LifeInv /\ [Next]_vars => LifeInv'
<1> SUFFICES ASSUME TypeInv, FlightInv, LifeInv, [Next]_vars PROVE LifeInv'
    OBVIOUS
<1>1. attempts # <<>> => attempts' # <<>>
    <2> SUFFICES ASSUME attempts # <<>> PROVE attempts' # <<>>
        OBVIOUS
    <2>1. 1 \in DOMAIN attempts
        BY TrailTypes, EmptySeq DEF TypeInv, TypeOK, RowsTyped
    <2>2. 1 \in DOMAIN attempts'
        BY <2>1, AttemptsKeptNext DEF AttemptsKept
    <2> QED BY <2>2
<1>2. ASSUME NEW w \in Workers, RecordOutcome(w) PROVE LifeInv'
    <2>1. recovery' = recovery
        BY <1>2 DEF RecordOutcome
    <2>2. attempts # <<>>
        BY <1>2, NumbersInRange DEF RecordOutcome, Owning
    <2> QED BY <1>1, <2>1, <2>2, LifeInvQuiet
<1>3. ASSUME NEW w \in Workers, resolve_not_sent(w) PROVE LifeInv'
    <2>1. recovery' = recovery
        BY <1>3 DEF resolve_not_sent
    <2>2. attempts # <<>>
        BY <1>3, NumbersInRange DEF resolve_not_sent, Owning
    <2> QED BY <1>1, <2>1, <2>2, LifeInvQuiet
<1>4. ASSUME NEW w \in Workers, reconcile_by_query(w) PROVE LifeInv'
    <2> DEFINE settled == [outbox EXCEPT !.last_outcome = conclusion(w),
                                         !.state = "settled"]
    <2>1. /\ recovery' = recovery
          /\ outbox' = outbox \/ (outbox' = settled /\ conclusion(w) # NULL)
        BY <1>4 DEF reconcile_by_query
    <2>2. settled.last_outcome = conclusion(w)
        BY DEF TypeInv, TypeOK, RowsTyped, Outbox
    <2>3. conclusion(w) # NULL => conclusion(w) \notin AMBIGUOUS
        BY DEF conclusion, AMBIGUOUS
    <2> HIDE DEF settled
    <2> QED BY <1>1, <2>1, <2>2, <2>3, LifeInvQuiet
<1>5. ASSUME NEW w \in Workers, open_item(w) PROVE LifeInv'
    <2> DEFINE new == [reason |-> task[w].reason, state |-> "open",
                       resolution |-> NULL, resolved_by |-> NULL]
    <2>1. recovery \in Seq(RecoveryItem) /\ new \in RecoveryItem
        BY <1>5 DEF TypeInv, TypeOK, RowsTyped, TaskFits, open_item, RecoveryItem
    <2>2. UNCHANGED <<outbox, attempts>>
        BY <1>5 DEF open_item
    <2>3. CASE open_recovery
        BY <1>5, <2>2, <2>3, LifeInvQuiet DEF open_item
    <2>4. CASE ~open_recovery
        <3>1. recovery' = Append(recovery, new)
            BY <1>5, <2>4 DEF open_item
        <3> HIDE DEF new
        <3>2. /\ DOMAIN recovery = 1 .. Len(recovery) /\ Len(recovery) \in Nat
              /\ DOMAIN recovery' = 1 .. Len(recovery) + 1
              /\ \A i \in 1 .. Len(recovery) : recovery'[i] = recovery[i]
            BY <2>1, <3>1, AppendProperties
        <3>3. \A i \in DOMAIN recovery' :
                recovery'[i].state = "open" => i = Len(recovery) + 1
            BY <2>4, <3>2 DEF open_recovery
        <3> QED BY <2>2, <3>3 DEF LifeInv
    <2> QED BY <2>3, <2>4
<1>6. CASE Operator
    <2>1. PICK i \in DOMAIN recovery, p \in Operators, r \in RecoveryResolution :
            resolve_item(i, p, r)
        BY <1>6 DEF Operator
    <2> DEFINE code == IF r = "confirmed_by_evidence" THEN "confirmed" ELSE "rejected"
               intent == [outbox EXCEPT !.state = "settled", !.last_outcome = code]
    <2>2. (outbox' = outbox \/ outbox' = intent) /\ attempts' = attempts
        BY <2>1 DEF resolve_item
    <2>3. intent.last_outcome \notin AMBIGUOUS
        BY DEF TypeInv, TypeOK, RowsTyped, Outbox, AMBIGUOUS
    <2> HIDE DEF intent
    <2>4. \A j \in DOMAIN recovery' :
            j \in DOMAIN recovery /\ (recovery'[j].state = "open" =>
                                        recovery[j].state = "open")
        BY <2>1, JudgedItem
    <2> QED BY <2>2, <2>3, <2>4 DEF LifeInv
<1>7. ASSUME NEW w \in Workers, Dispatch(w) \/ RetryPass(w) \/ Replay(w)
                                \/ ReconcilePass(w) \/ Crash(w)
      PROVE  LifeInv'
    <2>1. CASE \/ DispatchGate(w) \/ WriteAhead(w) \/ AdapterPost(w) \/ ConnectFails(w)
               \/ AnswerUnknown(w) \/ PostRaises(w) \/ run_due_once(w) \/ attempt_one(w)
               \/ retry_or_dead_letter(w) \/ dead_letter_rejection(w)
               \/ replay_dead_letter(w) \/ close_entry(w) \/ reconcile_once(w)
               \/ get_by_operation_id(w) \/ Crash(w)
        <3>1. recovery' = recovery
            BY <2>1 DEF DispatchGate, WriteAhead, AdapterPost, ConnectFails,
                AnswerUnknown, PostRaises, run_due_once, attempt_one,
                retry_or_dead_letter, dead_letter_rejection, replay_dead_letter,
                close_entry, reconcile_once, get_by_operation_id, Crash, rowVars
        <3>2. outbox'.last_outcome = outbox.last_outcome
            BY <2>1, OutcomeKept
        <3> QED BY <1>1, <3>1, <3>2, LifeInvQuiet
    <2> QED BY <1>2, <1>3, <1>4, <1>5, <1>7, <2>1
            DEF Dispatch, RetryPass, Replay, ReconcilePass
<1>8. CASE Ledger \/ Tick \/ UNCHANGED vars
    <2>1. UNCHANGED <<recovery, outbox, attempts>>
        BY <1>8 DEF Ledger, LedgerTakes, DropRequest, Tick, vars, rowVars
    <2> QED BY <2>1, LifeInvQuiet
<1> QED BY <1>6, <1>7, <1>8 DEF Next
\* The life of the operation from the parts of it that change.
flight == InFlight # {}
Lived(f, o, i, b) == [in_flight |-> f, outcome |-> o, item |-> i, books |-> b]

LEMMA LifeParts ==
    /\ life = Lived(flight, outbox.last_outcome, item, books)
    /\ life' = Lived(flight', outbox'.last_outcome, item', books')
BY DEF life, flight, Lived

LEMMA LivedFields ==
    ASSUME NEW f, NEW o, NEW i, NEW b
    PROVE  /\ Lived(f, o, i, b).in_flight = f /\ Lived(f, o, i, b).outcome = o
           /\ Lived(f, o, i, b).item = i      /\ Lived(f, o, i, b).books = b
BY DEF Lived

\* A row is written ahead: the constants stand in for TRUE and FALSE, which the
\* prover does not take for the value of a field.
LEMMA LivedWrite ==
    ASSUME NEW o, NEW i, NEW b, o \notin TERMINAL \cup AMBIGUOUS
    PROVE  Lived(TRUE, o, i, b) \in Seen!WriteRow(Lived(FALSE, o, i, b))
<1>1. PICK t, f : t = TRUE /\ f = FALSE
    OBVIOUS
<1>2. ASSUME NEW g, NEW h PROVE [Lived(g, o, i, b) EXCEPT !.in_flight = h] = Lived(h, o, i, b)
    BY DEF Lived
<1>3. [Lived(f, o, i, b) EXCEPT !.in_flight = t] = Lived(t, o, i, b)
    BY <1>2
<1>4. [Lived(FALSE, o, i, b) EXCEPT !.in_flight = TRUE] = Lived(TRUE, o, i, b)
    BY <1>1, <1>3, Zenon
<1>5. Lived(f, o, i, b).in_flight = f
    BY LivedFields
<1>6. Lived(FALSE, o, i, b).in_flight = FALSE
    BY <1>1, <1>5, Zenon
<1>7. Lived(FALSE, o, i, b).outcome = o
    BY DEF Lived
<1> QED BY <1>4, <1>6, <1>7
        DEF Seen!WriteRow, Seen!TERMINAL, Seen!AMBIGUOUS, TERMINAL, AMBIGUOUS

\* The attempt in flight ends with what its sender learnt.
LEMMA LivedRecord ==
    ASSUME NEW o, NEW i, NEW b, NEW p \in OutcomeCode, Seen!Truthful(p, b),
           o \in TERMINAL => p = o
    PROVE  Lived(FALSE, p, i, b) \in Seen!Record(Lived(TRUE, o, i, b))
<1>1. PICK t, f : t = TRUE /\ f = FALSE
    OBVIOUS
<1>2. [Lived(t, o, i, b) EXCEPT !.in_flight = f, !.outcome = p] = Lived(f, p, i, b)
    <2> DEFINE m == [Lived(t, o, i, b) EXCEPT !.in_flight = f]
    <2>1. m = Lived(f, o, i, b)
        BY DEF Lived
    <2>2. [m EXCEPT !.outcome = p] = Lived(f, p, i, b)
        <3> HIDE DEF m
        <3> QED BY <2>1 DEF Lived
    <2> QED BY <2>2
<1>3. [Lived(TRUE, o, i, b) EXCEPT !.in_flight = FALSE, !.outcome = p]
        = Lived(FALSE, p, i, b)
    BY <1>1, <1>2, Zenon
<1>4. Lived(t, o, i, b).in_flight = t
    BY LivedFields
<1>5. Lived(TRUE, o, i, b).in_flight = TRUE
    BY <1>1, <1>4, Zenon
<1>6. Lived(TRUE, o, i, b).outcome = o /\ Lived(TRUE, o, i, b).books = b
    BY DEF Lived
<1>7. p \in {x \in OutcomeCode :
                /\ Lived(TRUE, o, i, b).in_flight
                /\ Seen!Truthful(x, Lived(TRUE, o, i, b).books)
                /\ Lived(TRUE, o, i, b).outcome \in Seen!TERMINAL
                    => x = Lived(TRUE, o, i, b).outcome}
    BY <1>5, <1>6 DEF TERMINAL, Seen!TERMINAL
<1> HIDE DEF Lived
<1> QED BY <1>3, <1>7 DEF Seen!Record

\* The request reaches the wire, and leaves it.
LEMMA LivedWire ==
    ASSUME NEW f, NEW o, NEW i
    PROVE  /\ f = TRUE => Lived(f, o, i, "wire") \in Seen!OnTheWire(Lived(f, o, i, "none"))
           /\ \A c \in {"none", "moved"} :
                Lived(f, o, i, c) \in Seen!OnTheWire(Lived(f, o, i, "wire"))
<1>1. ASSUME NEW c, NEW d
      PROVE  [Lived(f, o, i, c) EXCEPT !.books = d] = Lived(f, o, i, d)
    BY DEF Lived
<1>2. \A c : Lived(f, o, i, c).in_flight = f /\ Lived(f, o, i, c).books = c
    BY DEF Lived
<1> QED BY <1>1, <1>2 DEF Seen!OnTheWire

\* An item is opened, and judged.
LEMMA LivedOpened ==
    ASSUME NEW f, NEW o, NEW i, NEW b, i # "open"
    PROVE  Lived(f, o, "open", b) \in Seen!Recover(Lived(f, o, i, b))
<1>1. [Lived(f, o, i, b) EXCEPT !.item = "open"] = Lived(f, o, "open", b)
    BY DEF Lived
<1>2. Lived(f, o, i, b).item = i
    BY DEF Lived
<1> QED BY <1>1, <1>2 DEF Seen!Recover

LEMMA LivedJudged ==
    ASSUME NEW f, NEW o, NEW b, NEW p \in TERMINAL \cup {o},
           p # o => o \notin TERMINAL /\ Seen!Truthful(p, b)
    PROVE  Lived(f, p, "resolved", b) \in Seen!Recover(Lived(f, o, "open", b))
<1>1. PICK l : l = Lived(f, o, "open", b)
    OBVIOUS
<1>2. [l EXCEPT !.item = "resolved", !.outcome = p] = Lived(f, p, "resolved", b)
    <2> DEFINE m == [l EXCEPT !.item = "resolved"]
    <2>1. m = Lived(f, o, "resolved", b)
        BY <1>1 DEF Lived
    <2>2. [m EXCEPT !.outcome = p] = Lived(f, p, "resolved", b)
        <3> HIDE DEF m
        <3> QED BY <2>1 DEF Lived
    <2> QED BY <2>2
<1>3. l.item = "open" /\ l.outcome = o /\ l.books = b
    BY <1>1 DEF Lived
<1>4. p \in {x \in (Seen!TERMINAL \cap OutcomeCode) \cup {l.outcome} :
                /\ l.item = "open"
                /\ x # l.outcome =>
                    l.outcome \notin Seen!TERMINAL /\ Seen!Truthful(x, l.books)}
    BY <1>3 DEF TERMINAL, Seen!TERMINAL, OutcomeCode
<1>5. Lived(f, p, "resolved", b) \in Seen!Recover(l)
    BY <1>2, <1>4 DEF Seen!Recover
<1> QED BY <1>1, <1>5, Zenon

\* A step that shows in no part of the life.
LEMMA LifeSame ==
    ASSUME UNCHANGED <<attempts, recovery, wire>>, Effects' = Effects,
           outbox'.last_outcome = outbox.last_outcome
    PROVE  life' = life
BY DEF life, InFlight, item, open_recovery, books

\* The step of a life that an action is shown to take.
Living == life' = life \/ life' \in Seen!Successors(life)

\* A free number is taken only when nothing is undetermined or final.
LEMMA LifeWriteAhead ==
    ASSUME TypeInv, FlightInv, SerialInv, SettledInv, LifeInv,
           NEW w \in Workers, WriteAhead(w)
    PROVE  Living
<1>1. UNCHANGED <<outbox, recovery, wire, applied, partial>>
    BY DEF WriteAhead, ledgerVars
<1>2. Effects' = Effects
    BY <1>1 DEF Effects
<1>3. CASE task[w].attempt_no \in DOMAIN attempts
    <2>1. attempts' = attempts
        BY <1>3 DEF WriteAhead
    <2> QED BY <1>1, <1>2, <2>1, LifeSame DEF Living
<1>4. CASE task[w].attempt_no \notin DOMAIN attempts
    <2>1. task[w].pc = "write" /\ task[w].attempt_no = Len(attempts) + 1 /\ Sending(w)
        BY <1>4, InsertedRow DEF WriteAhead, Sending
    <2>2. \A n \in DOMAIN attempts : attempts[n].outcome \in Retryable
        BY <2>1 DEF SerialInv, WriteFresh
    <2>3. outbox.last_outcome \notin TERMINAL
        BY <2>1 DEF SettledInv
    <2>4. InFlight = {}
        <3>1. \A n \in DOMAIN attempts : attempts[n].state = "resolved"
            BY <2>2, NullAssumption DEF FlightInv, RowsResolved, Retryable, OutcomeCode
        <3> QED BY <3>1 DEF InFlight
    <2>5. outbox.last_outcome \notin AMBIGUOUS
        <3>1. CASE attempts = <<>>
            BY <3>1 DEF LifeInv
        <3>2. CASE attempts # <<>>
            <4>1. Len(attempts) \in DOMAIN attempts
                BY <3>2, TrailTypes, EmptySeq DEF TypeInv, TypeOK, RowsTyped
            <4>2. /\ attempts[Len(attempts)].outcome \in Retryable
                  /\ attempts[Len(attempts)].outcome # NULL
                BY <2>2, <4>1, NullAssumption DEF Retryable, OutcomeCode
            <4>3. attempts[Len(attempts)].outcome = outbox.last_outcome
                BY <2>3, <3>2, <4>2 DEF SerialInv, LastAgrees
            <4> QED BY <4>2, <4>3 DEF Retryable, AMBIGUOUS
        <3> QED BY <3>1, <3>2
    <2>6. InFlight' # {}
        <3>1. written_row(w).state = "in_flight"
            BY DEF written_row
        <3>2. /\ Len(attempts) + 1 \in DOMAIN attempts'
              /\ attempts'[Len(attempts) + 1].state = "in_flight"
            BY <1>4, <3>1, InsertedRow
        <3> QED BY <3>2 DEF InFlight
    <2>7. life = Lived(FALSE, outbox.last_outcome, item, books)
          /\ life' = Lived(TRUE, outbox.last_outcome, item, books)
        <3>1. flight = FALSE /\ flight' = TRUE
            BY <2>4, <2>6 DEF flight
        <3>2. item' = item /\ books' = books
            BY <1>1, <1>2 DEF item, open_recovery, books
        <3> QED BY <1>1, <3>1, <3>2, LifeParts, Zenon
    <2>8. life' \in Seen!WriteRow(life)
        BY <2>3, <2>5, <2>7, LivedWrite
    <2> QED BY <2>8 DEF Living, Seen!Successors
<1> QED BY <1>3, <1>4

\* Only an operation with a row in flight and no request yet is sent.
LEMMA LifeAdapterPost ==
    ASSUME TypeInv, FlightInv, SerialInv, NEW w \in Workers, AdapterPost(w)
    PROVE  Living
<1> DEFINE n == task[w].attempt_no
<1>1. /\ UNCHANGED <<outbox, attempts, recovery, applied, partial>>
      /\ wire' = wire \cup {n} /\ task[w].pc = "post"
    BY DEF AdapterPost, rowVars
<1>2. Effects' = Effects
    BY <1>1 DEF Effects
<1>3. n \in DOMAIN attempts /\ n \in InFlight /\ n \notin wire \cup Effects
    BY <1>1, NumbersInRange DEF Owning, FlightInv, Owned, Unsent, InFlight
<1>4. wire = {} /\ Effects = {}
    BY <1>1, <1>3, OnlyNewestLives DEF Owning
<1>5. flight = TRUE /\ flight' = flight /\ item' = item
    BY <1>1, <1>3 DEF item, open_recovery, InFlight, flight
<1>6. life = Lived(flight, outbox.last_outcome, item, "none")
      /\ life' = Lived(flight, outbox.last_outcome, item, "wire")
    <2>1. books = "none" /\ books' = "wire"
        BY <1>1, <1>2, <1>4 DEF books
    <2> QED BY <1>1, <1>5, <2>1, LifeParts, Zenon
<1>7. life' \in Seen!OnTheWire(life)
    BY <1>5, <1>6, LivedWire
<1> QED BY <1>7 DEF Living, Seen!Successors

\* A request that leaves the wire moved the books or did not.
LEMMA LifeLedger ==
    ASSUME TypeInv, FlightInv, SerialInv, Ledger
    PROVE  Living
<1>1. PICK n \in wire : DropRequest(n) \/ \E answer \in Answers : LedgerTakes(n, answer)
    BY DEF Ledger
<1>2. UNCHANGED <<outbox, attempts, recovery>> /\ wire' = wire \ {n}
    BY <1>1 DEF DropRequest, LedgerTakes, rowVars
<1>3. wire = {n} /\ Effects = {}
    BY <1>1, OnlyNewestLives DEF FlightInv, RequestOnce
<1>4. item' = item /\ flight' = flight
    BY <1>2 DEF item, open_recovery, InFlight, flight
<1>5. books = "wire" /\ books' \in {"none", "moved"}
    BY <1>2, <1>3 DEF books
<1>6. life = Lived(flight, outbox.last_outcome, item, "wire")
      /\ life' = Lived(flight, outbox.last_outcome, item, books')
    BY <1>2, <1>4, <1>5, LifeParts, Zenon
<1>7. life' \in Seen!OnTheWire(life)
    BY <1>5, <1>6, LivedWire
<1> QED BY <1>7 DEF Living, Seen!Successors

\* An owner ends its attempt, which is the only one in flight, with a true outcome.
LEMMA LifeClose ==
    ASSUME TypeInv, FlightInv, SerialInv, NEW n \in InFlight, NEW row,
           row.state = "resolved", attempts' = [attempts EXCEPT ![n] = row],
           outbox'.last_outcome \in OutcomeCode,
           outbox.last_outcome \in TERMINAL =>
                outbox'.last_outcome = outbox.last_outcome,
           outbox'.last_outcome \in {"confirmed", "partially_applied"} => Effects # {},
           outbox'.last_outcome \in Turned => n \notin wire \cup Effects,
           UNCHANGED <<recovery, wire, applied, partial>>
    PROVE  Living
<1> DEFINE code == outbox'.last_outcome
<1>1. n \in DOMAIN attempts /\ attempts[n].state = "in_flight"
    BY DEF InFlight
<1>2. /\ attempts[n].outcome = NULL
      /\ \A m \in InFlight : m = Len(attempts)
    <2>1. \A m \in InFlight : attempts[m].outcome = NULL /\ m \in DOMAIN attempts
        BY DEF FlightInv, RowsResolved, InFlight
    <2> QED BY <2>1, OnlyNewestLives, NullAssumption DEF Retryable, OutcomeCode
<1>3. InFlight' = {}
    <2>1. \A m \in DOMAIN attempts : attempts'[m] = IF m = n THEN row ELSE attempts[m]
        BY <1>1 DEF TypeInv, TypeOK, RowsTyped
    <2>2. DOMAIN attempts' = DOMAIN attempts
        BY DEF TypeInv, TypeOK, RowsTyped
    <2> QED BY <1>2, <2>1, <2>2 DEF InFlight
<1>4. Effects' = Effects /\ item' = item /\ books' = books
    BY DEF Effects, item, open_recovery, books
<1>5. Seen!Truthful(code, books)
    <2>1. CASE code = "unknown"
        BY <2>1 DEF Seen!Truthful
    <2>2. CASE code \in {"confirmed", "partially_applied"}
        BY <2>2 DEF Seen!Truthful, books
    <2>3. CASE code \in Turned
        <3>1. wire = {} /\ Effects = {}
            BY <1>2, <2>3, OnlyNewestLives
        <3> QED BY <2>3, <3>1 DEF Seen!Truthful, books, Turned, Retryable
    <2> QED BY <2>1, <2>2, <2>3 DEF OutcomeCode, Turned, Retryable
<1>6. life = Lived(TRUE, outbox.last_outcome, item, books)
      /\ life' = Lived(FALSE, code, item, books)
    <2>1. flight = TRUE /\ flight' = FALSE
        BY <1>3 DEF flight
    <2> QED BY <1>4, <2>1, LifeParts, Zenon
<1>7. life' \in Seen!Record(life)
    BY <1>5, <1>6, LivedRecord
<1> QED BY <1>7 DEF Living, Seen!Successors
\* Transaction 3 ends the attempt of its owner, or changes nothing.
LEMMA LifeRecordOutcome ==
    ASSUME TypeInv, FlightInv, SerialInv, NEW w \in Workers, RecordOutcome(w)
    PROVE  Living
<1> DEFINE n == task[w].attempt_no
           row == recorded_attempt(w)
<1>1. /\ UNCHANGED <<recovery, wire, applied, partial>>
      /\ task[w].pc = "record" /\ task[w].pc \in Owning /\ task[w].got \in OutcomeCode
    BY DEF RecordOutcome, ledgerVars, Owning, TypeInv, TaskFits
<1>2. CASE UNCHANGED <<attempts, outbox>>
    <2>1. Effects' = Effects
        BY <1>1 DEF Effects
    <2> QED BY <1>1, <1>2, <2>1, LifeSame DEF Living
<1>3. CASE /\ attempts' = [attempts EXCEPT ![n] = row]
           /\ outbox' = recorded_outbox(w) /\ OutboxPermits(recorded_outbox(w))
    <2>1. n \in DOMAIN attempts /\ attempts[n] \in PostingAttempt
        BY <1>1, NumbersInRange DEF TypeInv, TypeOK, RowsTyped
    <2>2. n \in InFlight
        BY <1>1, <2>1 DEF InFlight, FlightInv, Owned
    <2>3. row.state = "resolved"
        BY <2>1 DEF recorded_attempt, PostingAttempt
    <2>4. outbox'.last_outcome = task[w].got
        BY <1>3 DEF recorded_outbox, TypeInv, TypeOK, RowsTyped, Outbox
    <2>5. outbox.last_outcome \in TERMINAL => outbox'.last_outcome = outbox.last_outcome
        BY <1>3 DEF OutboxPermits
    <2>6. /\ task[w].got \in {"confirmed", "partially_applied"} => Effects # {}
          /\ task[w].got \in Turned => n \notin wire \cup Effects
        BY <1>1 DEF FlightInv, AnswerTrue, Effects
    <2> HIDE DEF row, n
    <2> QED BY <1>1, <1>3, <2>2, <2>3, <2>4, <2>5, <2>6, LifeClose
<1> QED BY <1>2, <1>3, RecordSplit

\* A send that proved it sent nothing ends its own attempt, or changes nothing.
LEMMA Life_resolve_not_sent ==
    ASSUME TypeInv, FlightInv, SerialInv, NEW w \in Workers, resolve_not_sent(w)
    PROVE  Living
<1> DEFINE n == task[w].attempt_no
<1>1. /\ UNCHANGED <<recovery, wire, applied, partial>>
      /\ task[w].pc = "not_sent" /\ task[w].pc \in Owning
    BY DEF resolve_not_sent, ledgerVars, Owning
<1>2. CASE UNCHANGED <<attempts, outbox>>
    <2>1. Effects' = Effects
        BY <1>1 DEF Effects
    <2> QED BY <1>1, <1>2, <2>1, LifeSame DEF Living
<1>3. ASSUME NEW row, n \in DOMAIN attempts, row.state = "resolved",
             attempts' = [attempts EXCEPT ![n] = row],
             outbox' = [outbox EXCEPT !.last_outcome = "not_sent",
                                      !.attempt_count = MaxOf(@, n)],
             OutboxPermits(outbox')
      PROVE  Living
    <2>1. n \in InFlight
        BY <1>1, <1>3 DEF InFlight, FlightInv, Owned
    <2>2. outbox'.last_outcome = "not_sent"
        BY <1>3 DEF TypeInv, TypeOK, RowsTyped, Outbox
    <2>3. outbox.last_outcome \in TERMINAL => outbox'.last_outcome = outbox.last_outcome
        BY <1>3 DEF OutboxPermits
    <2>4. n \notin wire \cup Effects
        BY <1>1 DEF FlightInv, Unsent
    <2> HIDE DEF n
    <2> QED BY <1>1, <1>3, <2>1, <2>2, <2>3, <2>4, LifeClose DEF OutcomeCode
<1> QED BY <1>2, <1>3, NotSentSplit

\* The recovery queue takes the question up once.
LEMMA Life_open_item ==
    ASSUME TypeInv, NEW w \in Workers, open_item(w)
    PROVE  Living
<1> DEFINE new == [reason |-> task[w].reason, state |-> "open",
                   resolution |-> NULL, resolved_by |-> NULL]
<1>1. UNCHANGED <<outbox, attempts, wire, applied, partial>>
    BY DEF open_item, ledgerVars
<1>2. Effects' = Effects /\ InFlight' = InFlight
    BY <1>1 DEF Effects, InFlight
<1>3. CASE open_recovery
    BY <1>1, <1>2, <1>3, LifeSame DEF open_item, Living
<1>4. CASE ~open_recovery
    <2>1. recovery \in Seq(RecoveryItem) /\ new \in RecoveryItem
        BY DEF TypeInv, TypeOK, RowsTyped, TaskFits, open_item, RecoveryItem
    <2>2. recovery' = Append(recovery, new) /\ new.state = "open"
        BY <1>4 DEF open_item
    <2> HIDE DEF new
    <2>3. open_recovery'
        BY <2>1, <2>2, AppendProperties DEF open_recovery
    <2>4. item' = "open" /\ item # "open"
        BY <1>4, <2>3 DEF item
    <2>5. books' = books /\ flight' = flight
        BY <1>1, <1>2 DEF books, flight
    <2>6. life = Lived(flight, outbox.last_outcome, item, books)
          /\ life' = Lived(flight, outbox.last_outcome, "open", books)
        BY <1>1, <2>4, <2>5, LifeParts, Zenon
    <2>7. life' \in Seen!Recover(life)
        BY <2>4, <2>6, LivedOpened
    <2> QED BY <2>7 DEF Living, Seen!Successors
<1> QED BY <1>3, <1>4

\* An operator judges the one open item, and what settles the outcome rests on evidence.
LEMMA Life_resolve_item ==
    ASSUME TypeInv, LifeInv, NEW i \in DOMAIN recovery, NEW p \in Operators,
           NEW r \in RecoveryResolution, resolve_item(i, p, r)
    PROVE  Living
<1> DEFINE code == IF r = "confirmed_by_evidence" THEN "confirmed" ELSE "rejected"
           intent == [outbox EXCEPT !.state = "settled", !.last_outcome = code]
           o == outbox.last_outcome
           q == outbox'.last_outcome
<1>1. /\ UNCHANGED <<attempts, wire, applied, partial>> /\ Evidence(r)
      /\ \/ outbox' = outbox
         \/ /\ r # "resolved_unverified"
            /\ outbox' = intent /\ OutboxPermits(intent)
    BY DEF resolve_item, ledgerVars
<1>2. intent.last_outcome = code
    BY DEF TypeInv, TypeOK, RowsTyped, Outbox
<1>3. item = "open" /\ item' = "resolved"
    <2>1. open_recovery
        BY JudgedItem DEF open_recovery
    <2>2. ~open_recovery'
        BY JudgedItem DEF open_recovery, LifeInv
    <2>3. recovery' # <<>>
        BY JudgedItem
    <2> QED BY <2>1, <2>2, <2>3 DEF item
<1>4. books' = books /\ flight' = flight
    BY <1>1 DEF books, Effects, flight, InFlight
<1> HIDE DEF intent
<1>5. q \in TERMINAL \cup {o} /\ (q # o => o \notin TERMINAL /\ Seen!Truthful(q, books))
    <2>1. CASE outbox' = outbox
        BY <2>1
    <2>2. CASE outbox' # outbox
        <3>1. /\ outbox' = intent /\ q = code /\ OutboxPermits(intent)
              /\ r \in {"confirmed_by_evidence", "rejected_by_evidence"}
            BY <1>1, <1>2, <2>2 DEF RecoveryResolution
        <3>2. o \in TERMINAL => q = o
            BY <1>2, <3>1 DEF OutboxPermits
        <3>3. CASE r = "confirmed_by_evidence"
            <4>1. books = "moved"
                BY <1>1, <3>3 DEF Evidence, books
            <4> QED BY <3>1, <3>2, <3>3, <4>1 DEF Seen!Truthful, TERMINAL
        <3>4. CASE r = "rejected_by_evidence"
            <4>1. books = "none"
                BY <1>1, <3>4 DEF Evidence, books
            <4> QED BY <3>1, <3>2, <3>4, <4>1 DEF Seen!Truthful, TERMINAL
        <3> QED BY <3>1, <3>3, <3>4
    <2> QED BY <2>1, <2>2
<1>6. life = Lived(flight, o, "open", books) /\ life' = Lived(flight, q, "resolved", books)
    BY <1>3, <1>4, LifeParts, Zenon
<1>7. life' \in Seen!Recover(life)
    BY <1>5, <1>6, LivedJudged
<1> QED BY <1>7 DEF Living, Seen!Successors

\* A pass settles what is undetermined with the truth about the books.
LEMMA LivedConcluded ==
    ASSUME NEW f \in BOOLEAN, NEW o, NEW i, NEW b, NEW p \in TERMINAL, o \notin TERMINAL,
           f = TRUE \/ o \in AMBIGUOUS, Seen!Truthful(p, b)
    PROVE  Lived(f, p, i, b) \in Seen!Conclude(Lived(f, o, i, b))
<1> DEFINE l == Lived(f, o, i, b)
<1>1. [l EXCEPT !.outcome = p] = Lived(f, p, i, b)
    BY DEF Lived
<1>2. l.in_flight = f /\ l.outcome = o /\ l.books = b
    BY DEF Lived
<1> HIDE DEF l
<1>3. l.in_flight \/ l.outcome \in Seen!AMBIGUOUS
    <2>1. CASE f = TRUE
        BY <1>2, <2>1, Zenon
    <2>2. CASE o \in AMBIGUOUS
        BY <1>2, <2>2 DEF Seen!AMBIGUOUS, AMBIGUOUS
    <2> QED BY <2>1, <2>2
<1>4. p \in Seen!TERMINAL \cap OutcomeCode /\ l.outcome \notin Seen!TERMINAL
    BY <1>2 DEF Seen!TERMINAL, OutcomeCode, TERMINAL
<1>5. Seen!Truthful(p, l.books)
    BY <1>2
<1>6. [l EXCEPT !.outcome = p] \in Seen!Conclude(l)
    BY <1>3, <1>4, <1>5, Zenon DEF Seen!Conclude
<1> QED BY <1>1, <1>6 DEF l

\* What a query pass writes shows in the life as one of its steps.
ConclusionLives == \A w \in Workers : reconcile_by_query(w) => Living

\* A conclusion drawn from a fresh reading is a step of the life: the outcome it settles
\* is undetermined, as the books have moved or the reading was.
LEMMA FreshConclusionLives ==
    ASSUME QueryFits, TypeInv, FlightInv, SerialInv, SettledInv, QueryInv, ~StaleRejection
    PROVE  ConclusionLives
<1> SUFFICES ASSUME NEW w \in Workers, reconcile_by_query(w) PROVE Living
    BY DEF ConclusionLives
<1> DEFINE settled == [outbox EXCEPT !.last_outcome = conclusion(w), !.state = "settled"]
           o == outbox.last_outcome
           q == outbox'.last_outcome
<1>1. /\ UNCHANGED <<attempts, recovery, wire, applied, partial>> /\ task[w].pc = "queried"
      /\ \/ outbox' = outbox
         \/ conclusion(w) # NULL /\ outbox' = settled /\ OutboxPermits(settled)
    BY DEF reconcile_by_query, ledgerVars
<1>2. Effects' = Effects /\ InFlight' = InFlight
    BY <1>1 DEF Effects, InFlight
<1>3. settled.last_outcome = conclusion(w) /\ conclusion(w) \in TERMINAL \cup {NULL}
    BY DEF TypeInv, TypeOK, RowsTyped, Outbox, conclusion, TERMINAL
<1> HIDE DEF settled
<1>4. CASE q = o
    BY <1>1, <1>2, <1>4, LifeSame DEF Living
<1>5. CASE q # o
    <2>1. q = conclusion(w) /\ q \in TERMINAL /\ o \notin TERMINAL
        BY <1>1, <1>3, <1>5 DEF OutboxPermits
    <2>2. SettledInv'
        BY FreshConclusion DEF ConclusionSound
    <2>3. q = "confirmed" => Effects # {}
        BY <1>2, <2>2 DEF SettledInv, VerdictTrue
    <2>4. q = "rejected" => Effects = {} /\ wire = {}
        BY <1>1, <1>2, <2>2 DEF SettledInv, VerdictTrue
    <2>5. Seen!Truthful(q, books)
        BY <2>1, <2>3, <2>4 DEF Seen!Truthful, books, TERMINAL
    <2>6. is_ambiguous
        <3>1. CASE q = "rejected"
            BY <1>5, <3>1 DEF StaleRejection
        <3>2. CASE q = "confirmed"
            BY <2>1, <2>3, <3>2, UnblockedIsEnded DEF is_ambiguous
        <3> QED BY <2>1, <3>1, <3>2 DEF TERMINAL
    <2>7. item' = item /\ books' = books /\ flight' = flight
        BY <1>1, <1>2 DEF item, open_recovery, books, flight
    <2>8. flight \in BOOLEAN /\ (flight = TRUE \/ o \in AMBIGUOUS)
        BY <2>6 DEF flight, is_ambiguous
    <2>9. Lived(flight, q, item, books) \in Seen!Conclude(Lived(flight, o, item, books))
        BY <2>1, <2>5, <2>8, LivedConcluded
    <2>10. life = Lived(flight, o, item, books) /\ life' = Lived(flight, q, item, books)
        BY <2>7, LifeParts, Zenon
    <2>11. life' \in Seen!Conclude(life)
        BY <2>9, <2>10
    <2> QED BY <2>11 DEF Living, Seen!Successors
<1> QED BY <1>4, <1>5

\* A ledger that cannot be asked is not.
LEMMA NoQueryLives == NoQuery => ConclusionLives
BY DEF NoQuery, ConclusionLives, reconcile_by_query

\* Every step of the control plane is a step of the operation's life.
LEMMA LifeNext ==
    ASSUME TypeInv, FlightInv, SerialInv, SettledInv, LifeInv, [Next]_vars,
           ConclusionLives
    PROVE  Living
<1>1. ASSUME NEW w \in Workers,
             \/ DispatchGate(w) \/ ConnectFails(w) \/ AnswerUnknown(w) \/ PostRaises(w)
             \/ run_due_once(w) \/ attempt_one(w) \/ retry_or_dead_letter(w)
             \/ dead_letter_rejection(w) \/ replay_dead_letter(w) \/ close_entry(w)
             \/ reconcile_once(w) \/ get_by_operation_id(w) \/ Crash(w)
      PROVE  Living
    <2>1. UNCHANGED <<attempts, recovery, wire, applied, partial>>
        BY <1>1 DEF DispatchGate, ConnectFails, AnswerUnknown, PostRaises, run_due_once,
            attempt_one, retry_or_dead_letter, dead_letter_rejection,
            replay_dead_letter, close_entry, reconcile_once, get_by_operation_id,
            Crash, rowVars, ledgerVars
    <2>2. Effects' = Effects
        BY <2>1 DEF Effects
    <2>3. outbox'.last_outcome = outbox.last_outcome
        BY <1>1, OutcomeKept
    <2> QED BY <2>1, <2>2, <2>3, LifeSame DEF Living
<1>2. ASSUME NEW w \in Workers, reconcile_by_query(w) PROVE Living
    BY <1>2 DEF ConclusionLives
<1>3. ASSUME NEW w \in Workers,
             Dispatch(w) \/ RetryPass(w) \/ Replay(w) \/ ReconcilePass(w) \/ Crash(w)
      PROVE  Living
    BY <1>1, <1>2, <1>3, LifeWriteAhead, LifeAdapterPost, LifeRecordOutcome,
       Life_resolve_not_sent, Life_open_item
       DEF Dispatch, RetryPass, Replay, ReconcilePass
<1>4. CASE Operator
    BY <1>4, Life_resolve_item DEF Operator
<1>5. CASE Tick \/ UNCHANGED vars
    <2>1. UNCHANGED <<attempts, recovery, wire, applied, partial, outbox>>
        BY <1>5 DEF Tick, vars, rowVars, ledgerVars
    <2>2. Effects' = Effects
        BY <2>1 DEF Effects
    <2> QED BY <2>1, <2>2, LifeSame DEF Living
<1> QED BY <1>3, <1>4, <1>5, LifeLedger DEF Next

\* The life starts with the operation enqueued.
LEMMA LifeInit == Init => life = Seen!Enqueued /\ LifeInv
<1>1. Init => life = Seen!Enqueued
    <2> SUFFICES ASSUME Init PROVE life = Seen!Enqueued
        OBVIOUS
    <2>1. /\ attempts = <<>> /\ recovery = <<>> /\ outbox.last_outcome = NULL
          /\ wire = {} /\ Effects = {}
        BY DEF Init, Effects
    <2>2. (InFlight # {}) = FALSE
        BY <2>1 DEF InFlight
    <2>3. item = "none" /\ books = "none"
        BY <2>1 DEF item, open_recovery, books
    <2> QED BY <2>1, <2>2, <2>3, Zenon DEF life, Seen!Enqueued
<1>2. Init => LifeInv
    <2> SUFFICES ASSUME Init PROVE LifeInv
        OBVIOUS
    <2>1. recovery = <<>> /\ outbox.last_outcome = NULL
        BY DEF Init
    <2> QED BY <2>1, NullAssumption DEF LifeInv, OutcomeCode, AMBIGUOUS
<1> QED BY <1>1, <1>2

\* Against a ledger that proves nothing, everything the dispatcher, the retries, the
\* reconciliation and the recovery queue do to one operation is a step of the life that
\* Approvals composes, one per resolution version.
THEOREM ImplementsTheLife ==
    ASSUME ~suppresses_duplicates, ~queryable_by_operation_id, RunnersPaused
    PROVE  Spec => ImplementsLife
<1>1. TypeInv /\ FlightInv /\ LifeInv /\ [Next]_vars => LifeInv'
    BY LifeInvNext
<1>2. TypeInv /\ FlightInv /\ SerialInv /\ NoQuery /\ SettledInv /\ LifeInv /\ [Next]_vars
        => [life' \in Seen!Successors(life)]_life
    BY LifeNext, NoQueryLives DEF Living
<1>3. Spec => []SerialInv
    BY SerialInvariant
<1>4. Spec => [](NoQuery /\ SettledInv)
    BY SettledInvariant
<1> QED BY <1>1, <1>2, <1>3, <1>4, LifeInit, TypeInvariant, FlightInvariant, PTL
        DEF Spec, ImplementsLife

\* Against a ledger that can be asked, whatever it answers, the passes are steps of that
\* life too, under the conditions of QueriedPostsOnce.
THEOREM QueriedImplementsTheLife ==
    ASSUME ~suppresses_duplicates, RunnersPaused, QueryFits
    PROVE  Spec /\ [][~StaleRejection]_vars => ImplementsLife
<1>1. TypeInv /\ FlightInv /\ LifeInv /\ [Next]_vars => LifeInv'
    BY LifeInvNext
<1>2. TypeInv /\ FlightInv /\ SerialInv /\ QueryInv /\ SettledInv /\ LifeInv /\ [Next]_vars
        /\ [~StaleRejection]_vars
        => [life' \in Seen!Successors(life)]_life
    <2>1. UNCHANGED vars => ~StaleRejection
        BY DEF vars, rowVars, StaleRejection
    <2> QED BY <2>1, FreshConclusionLives, LifeNext DEF Living
<1>3. Spec => []SerialInv
    BY SerialInvariant
<1> QED BY <1>1, <1>2, <1>3, LifeInit, FreshSettled, TypeInvariant, FlightInvariant, PTL
        DEF Spec, ImplementsLife

\* Where the ledger turns no request away as well, that holds of every behaviour.
THEOREM LivesWhereAnswered ==
    ASSUME ~suppresses_duplicates, RunnersPaused, QueryFits, NeverTurnsAway
    PROVE  Spec => ImplementsLife
BY NeverStale, QueriedImplementsTheLife, PTL

-------------------------------------------------------------------------------
\* Only retries and replays send, where no re-send is ever safe.
JobFits(t) ==
    t.job \in {"none", "reconcile"} => t.pc \in {"idle", "query", "queried", "recover"}

\* The ledger declined an attempt.
Rejection == \E n \in DOMAIN attempts : attempts[n].outcome = "rejected"

\* A rejection on record has its letter, or a worker about to write it, or had one
\* that died; and the letter is not refused, as a settled row is terminal.
LetterInv ==
    /\ \A w \in Workers : JobFits(task[w])
    /\ Rejection => dlq # NULL \/ crashes > 0 \/ \E w \in Workers : task[w].pc = "bury"
    /\ outbox.state = "settled" => outbox.last_outcome \in TERMINAL

\* A worker moves on without leaving a rejection behind.
LEMMA LetterBecome ==
    ASSUME TypeInv, LetterInv, OutboxStep, NEW w \in Workers, NEW t, Become(w, t),
           JobFits(t),
           dlq # NULL => dlq' # NULL,
           crashes > 0 => crashes' > 0,
           Rejection' => Rejection \/ t.pc = "bury" \/ dlq' # NULL,
           task[w].pc = "bury" => dlq' # NULL \/ crashes' > 0
    PROVE  LetterInv'
<1>1. \A v \in Workers : task'[v] = IF v = w THEN t ELSE task[v]
    BY BecomeTask
<1>2. \A v \in Workers : JobFits(task[v])'
    BY <1>1 DEF LetterInv, JobFits
<1>3. ASSUME Rejection'
      PROVE  dlq' # NULL \/ crashes' > 0 \/ \E v \in Workers : task'[v].pc = "bury"
    BY <1>1, <1>3 DEF LetterInv
<1>4. outbox'.state = "settled" => outbox'.last_outcome \in TERMINAL
    BY DEF LetterInv, OutboxStep, OutboxPermits
<1> QED BY <1>2, <1>3, <1>4 DEF LetterInv

\* Where a worker's next task keeps its job and place fits it.
LEMMA JobKept ==
    ASSUME TypeInv, NEW w \in Workers, NEW p, NEW x, NEW n, NEW r,
           \/ task[w].job \notin {"none", "reconcile"}
           \/ p \in {"idle", "query", "queried", "recover"}
    PROVE  /\ JobFits([task[w] EXCEPT !.pc = p])
           /\ JobFits([task[w] EXCEPT !.pc = p, !.got = x])
           /\ JobFits([task[w] EXCEPT !.pc = p, !.attempt_no = n])
           /\ JobFits([task[w] EXCEPT !.pc = p, !.reason = r])
           /\ JobFits([task[w] EXCEPT !.pc = p, !.attempt_no = n, !.got = x])
BY DEF JobFits, TypeInv, TaskFits, Task

\* A pass over a ledger that suppresses nothing sends nothing.
LEMMA JobStarts ==
    ASSUME ~suppresses_duplicates, NEW ep
    PROVE  /\ JobFits(branch(ep)) /\ JobFits(IdleTask)
           /\ \A p : JobFits(Start("retry", p, ep)) /\ JobFits(Start("replay", p, ep))
<1>1. branch(ep).pc \in {"query", "recover"}
    BY DEF branch, Start, IdleTask
<1>2. \A p : Start("retry", p, ep).job = "retry" /\ Start("replay", p, ep).job = "replay"
    BY DEF Start, IdleTask
<1>3. IdleTask.pc = "idle"
    BY DEF IdleTask
<1> QED BY <1>1, <1>2, <1>3 DEF JobFits

\* Every step of the control plane keeps LetterInv.
LEMMA LetterNext ==
    ASSUME ~suppresses_duplicates
    PROVE  TypeInv /\ FlightInv /\ LetterInv /\ [Next]_vars => LetterInv'
<1> SUFFICES ASSUME TypeInv, FlightInv, LetterInv, [Next]_vars PROVE LetterInv'
    OBVIOUS
<1>0. OutboxStep
    BY OutboxStepNext
<1>1. ASSUME UNCHANGED <<attempts, dlq, crashes>>, NEW w \in Workers, NEW t,
             Become(w, t), JobFits(t), task[w].pc # "bury"
      PROVE  LetterInv'
    BY <1>0, <1>1, LetterBecome DEF Rejection
<1>2. \A w \in Workers : /\ JobFits(task[w]) /\ crashes \in Nat
                         /\ task[w].job \in {"none", "retry", "replay", "reconcile"}
    BY DEF LetterInv, TypeInv, TypeOK, LedgerTyped, TaskFits, Task
<1>3. ASSUME NEW w \in Workers,
             DispatchGate(w) \/ AdapterPost(w) \/ ConnectFails(w) \/ AnswerUnknown(w)
                \/ PostRaises(w) \/ attempt_one(w)
      PROVE  LetterInv'
    <2>1. /\ UNCHANGED <<attempts, dlq, crashes>>
          /\ task[w].pc \in {"gate", "post", "await", "claimed"}
        BY <1>3 DEF DispatchGate, AdapterPost, ConnectFails, AnswerUnknown, PostRaises,
            attempt_one, rowVars
    <2>2. task[w].job \notin {"none", "reconcile"}
        BY <1>2, <2>1 DEF JobFits
    <2>3. \/ Finish(w)
          \/ \E p : Goto(w, p)
          \/ \E p, n : Become(w, [task[w] EXCEPT !.pc = p, !.attempt_no = n])
          \/ \E p, x : Become(w, [task[w] EXCEPT !.pc = p, !.got = x])
        BY <1>3 DEF DispatchGate, AdapterPost, ConnectFails, AnswerUnknown, PostRaises,
            attempt_one
    <2>4. ASSUME NEW t, Become(w, t), JobFits(t) PROVE LetterInv'
        BY <1>1, <2>1, <2>4
    <2>5. CASE Finish(w)
        BY <2>4, <2>5, JobStarts DEF Finish
    <2>6. ASSUME NEW p, Goto(w, p) PROVE LetterInv'
        BY <2>2, <2>4, <2>6, JobKept DEF Goto
    <2>7. ASSUME NEW p, NEW n, Become(w, [task[w] EXCEPT !.pc = p, !.attempt_no = n])
          PROVE  LetterInv'
        BY <2>2, <2>4, <2>7, JobKept
    <2>8. ASSUME NEW p, NEW x, Become(w, [task[w] EXCEPT !.pc = p, !.got = x])
          PROVE  LetterInv'
        BY <2>2, <2>4, <2>8, JobKept
    <2> QED BY <2>3, <2>5, <2>6, <2>7, <2>8
<1>4. ASSUME NEW w \in Workers, WriteAhead(w) PROVE LetterInv'
    <2>1. UNCHANGED <<dlq, crashes>> /\ task[w].pc = "write"
        BY <1>4 DEF WriteAhead, rowVars
    <2>2. task[w].job \notin {"none", "reconcile"}
        BY <1>2, <2>1 DEF JobFits
    <2>3. Finish(w) \/ Goto(w, "post")
        BY <1>4 DEF WriteAhead
    <2>4. Rejection' => Rejection
        <3>1. CASE task[w].attempt_no \in DOMAIN attempts
            BY <1>4, <3>1 DEF WriteAhead, Rejection
        <3>2. CASE task[w].attempt_no \notin DOMAIN attempts
            <4>1. written_row(w).outcome = NULL /\ "rejected" # NULL
                BY NullAssumption DEF written_row, OutcomeCode
            <4>2. attempts'[Len(attempts) + 1] = written_row(w)
                BY <1>4, <3>2, InsertedRow
            <4>3. \A n \in DOMAIN attempts' :
                    \/ n = Len(attempts) + 1
                    \/ n \in DOMAIN attempts /\ attempts'[n] = attempts[n]
                BY <1>4, <3>2, InsertedRow
            <4> QED BY <4>1, <4>2, <4>3 DEF Rejection
        <3> QED BY <3>1, <3>2
    <2> QED BY <2>1, <2>2, <2>3, <2>4, <1>0, LetterBecome, JobKept, JobStarts DEF Finish, Goto
<1>5. ASSUME NEW w \in Workers, RecordOutcome(w) PROVE LetterInv'
    <2> DEFINE next == after_outcome(task[w].job, task[w].got)
               n == task[w].attempt_no
    <2>1. /\ UNCHANGED <<dlq, crashes>> /\ task[w].pc = "record"
          /\ n \in DOMAIN attempts /\ attempts[n] \in PostingAttempt
        BY <1>5, NumbersInRange DEF RecordOutcome, Owning, TypeInv, TypeOK, RowsTyped
    <2>2. task[w].job \in {"retry", "replay"}
        BY <1>2, <2>1 DEF JobFits
    <2>3. task[w].job = "replay" => dlq # NULL
        BY DEF TypeInv, TaskFits
    <2>4. CASE Finish(w) /\ UNCHANGED attempts
        BY <1>1, <2>1, <2>4, JobStarts DEF Finish
    <2>5. CASE /\ attempts' = [attempts EXCEPT ![n] = recorded_attempt(w)]
               /\ IF next = "idle" THEN Finish(w) ELSE Goto(w, next)
        <3>1. recorded_attempt(w).outcome = task[w].got
            BY <2>1 DEF recorded_attempt, PostingAttempt
        <3>2. Rejection' => Rejection \/ task[w].got = "rejected"
            BY <2>1, <2>5, <3>1 DEF Rejection
        <3>3. task[w].got = "rejected" => next = "bury" \/ dlq # NULL
            BY <2>2, <2>3 DEF after_outcome
        <3>4. [task[w] EXCEPT !.pc = next].pc = next
            BY DEF TypeInv, TaskFits, Task
        <3> HIDE DEF next
        <3>5. CASE next = "idle"
            BY <2>1, <2>5, <3>2, <3>3, <3>5, <1>0, LetterBecome, JobStarts DEF Finish
        <3>6. CASE next # "idle"
            <4>1. JobFits([task[w] EXCEPT !.pc = next])
                BY <2>2, JobKept
            <4> QED BY <2>1, <2>5, <3>2, <3>3, <3>4, <3>6, <4>1, <1>0, LetterBecome DEF Goto
        <3> QED BY <3>5, <3>6
    <2> QED BY <1>5, <2>4, <2>5 DEF RecordOutcome
<1>6. ASSUME NEW w \in Workers, resolve_not_sent(w) PROVE LetterInv'
    <2>1. UNCHANGED <<dlq, crashes>> /\ task[w].pc = "not_sent"
        BY <1>6 DEF resolve_not_sent
    <2>2. task[w].job \notin {"none", "reconcile"}
        BY <1>2, <2>1 DEF JobFits
    <2>3. Rejection' => Rejection
        <3>1. \/ UNCHANGED attempts
              \/ \E row : /\ row.outcome = "not_sent"
                          /\ attempts' = [attempts EXCEPT ![task[w].attempt_no] = row]
            BY <1>6, NotSentSplit
        <3> QED BY <3>1 DEF Rejection
    <2>4. \/ Finish(w)
          \/ \E n : Become(w, [task[w] EXCEPT !.pc = "budget", !.attempt_no = n,
                                              !.got = "not_sent"])
        BY <1>6 DEF resolve_not_sent
    <2>5. ASSUME NEW t, Become(w, t), JobFits(t) PROVE LetterInv'
        BY <1>0, <2>1, <2>3, <2>5, LetterBecome
    <2>6. CASE Finish(w)
        BY <2>5, <2>6, JobStarts DEF Finish
    <2>7. ASSUME NEW n, Become(w, [task[w] EXCEPT !.pc = "budget", !.attempt_no = n,
                                                  !.got = "not_sent"])
          PROVE  LetterInv'
        BY <2>2, <2>5, <2>7, JobKept
    <2> QED BY <2>4, <2>6, <2>7
<1>7. ASSUME NEW w \in Workers, retry_or_dead_letter(w) PROVE LetterInv'
    <2>1. /\ Finish(w) /\ UNCHANGED <<attempts, crashes>> /\ task[w].pc = "budget"
          /\ UNCHANGED dlq \/ \E reason : dead_letter(reason, TRUE)
        BY <1>7 DEF retry_or_dead_letter
    <2>2. dlq # NULL => dlq' # NULL
        BY <2>1 DEF dead_letter
    <2> QED BY <1>0, <2>1, <2>2, LetterBecome, JobStarts DEF Finish, Rejection
<1>8. ASSUME NEW w \in Workers, dead_letter_rejection(w) PROVE LetterInv'
    <2>1. /\ Finish(w) /\ UNCHANGED <<attempts, crashes>>
          /\ dead_letter("terminal_rejection", FALSE)
        BY <1>8 DEF dead_letter_rejection
    <2>2. OutboxPermits(outbox)
        BY DEF OutboxPermits, LetterInv
    <2>3. dlq = NULL => dlq' = [reason |-> "terminal_rejection", replay_state |-> "pending"]
        BY <2>1, <2>2 DEF dead_letter
    <2>4. dlq # NULL => dlq' = dlq
        BY <2>1 DEF dead_letter
    <2>5. [reason |-> "terminal_rejection", replay_state |-> "pending"] \in DeadLetter
        BY DEF DeadLetter, DeadLetterReason, ReplayState
    <2>6. dlq' # NULL
        BY <2>3, <2>4, <2>5, NullAssumption
    <2> QED BY <1>0, <2>1, <2>6, LetterBecome, JobStarts DEF Finish, Rejection
<1>9. ASSUME NEW w \in Workers, ReconcilePass(w) \/ run_due_once(w) PROVE LetterInv'
    <2>1. /\ UNCHANGED <<attempts, dlq, crashes>>
          /\ task[w].pc \in {"idle", "query", "queried", "recover"}
        BY <1>9 DEF ReconcilePass, run_due_once, reconcile_once, get_by_operation_id,
            reconcile_by_query, open_item, rowVars
    <2>2. ASSUME NEW t, Become(w, t), JobFits(t) PROVE LetterInv'
        BY <1>1, <2>1, <2>2
    <2>3. CASE run_due_once(w) \/ reconcile_once(w)
        <3>1. \E ep : Become(w, Start("retry", "claimed", ep)) \/ Become(w, branch(ep))
            BY <2>3 DEF run_due_once, reconcile_once
        <3> QED BY <2>2, <3>1, JobStarts
    <2>4. CASE get_by_operation_id(w)
        <3>1. PICK x : Become(w, [task[w] EXCEPT !.pc = "queried", !.got = x])
            BY <2>4 DEF get_by_operation_id
        <3> QED BY <2>2, <3>1, JobKept
    <2>5. CASE reconcile_by_query(w) \/ open_item(w)
        <3>1. \/ Finish(w)
              \/ \E r : Become(w, [task[w] EXCEPT !.pc = "recover", !.reason = r])
            BY <2>5 DEF reconcile_by_query, open_item
        <3>2. CASE Finish(w)
            BY <2>2, <3>2, JobStarts DEF Finish
        <3>3. ASSUME NEW r, Become(w, [task[w] EXCEPT !.pc = "recover", !.reason = r])
              PROVE  LetterInv'
            BY <2>2, <3>3, JobKept
        <3> QED BY <3>1, <3>2, <3>3
    <2> QED BY <1>9, <2>3, <2>4, <2>5 DEF ReconcilePass
<1>10. ASSUME NEW w \in Workers, Replay(w) PROVE LetterInv'
    <2>1. UNCHANGED <<attempts, crashes>> /\ task[w].pc \in {"idle", "close"}
        BY <1>10 DEF Replay, replay_dead_letter, close_entry, rowVars
    <2>2. CASE replay_dead_letter(w)
        <3>1. \E p, ep : Become(w, Start("replay", p, ep))
            BY <2>2 DEF replay_dead_letter
        <3>2. UNCHANGED dlq
            BY <2>2 DEF replay_dead_letter, rowVars
        <3> QED BY <1>1, <2>1, <3>1, <3>2, JobStarts
    <2>3. CASE close_entry(w)
        <3>1. Finish(w) /\ dlq' = [dlq EXCEPT !.replay_state = "replayed"]
            BY <2>3 DEF close_entry
        <3>2. dlq \in DeadLetter
            BY <2>3 DEF close_entry, TypeInv, TypeOK, RowsTyped, TaskFits
        <3>3. dlq' \in DeadLetter
            BY <3>1, <3>2 DEF DeadLetter, ReplayState
        <3>4. dlq' # NULL
            BY <3>3, NullAssumption
        <3> QED BY <1>0, <2>1, <3>1, <3>4, LetterBecome, JobStarts DEF Finish, Rejection
    <2> QED BY <1>10, <2>2, <2>3 DEF Replay
<1>11. ASSUME NEW w \in Workers, Crash(w) PROVE LetterInv'
    <2>1. Finish(w) /\ UNCHANGED <<attempts, dlq>> /\ crashes' = crashes + 1
        BY <1>11 DEF Crash, rowVars
    <2>2. crashes' > 0
        BY <1>2, <2>1
    <2> QED BY <1>0, <2>1, <2>2, LetterBecome, JobStarts DEF Finish, Rejection
<1>12. CASE Operator \/ Ledger \/ Tick \/ UNCHANGED vars
    <2>1. UNCHANGED <<attempts, dlq, crashes>>
        BY <1>12 DEF Operator, resolve_item, Ledger, LedgerTakes, DropRequest, Tick, vars,
            rowVars
    <2>2. \A v \in Workers :
            \/ task'[v] = task[v]
            \/ /\ task[v].pc = "await"
               /\ \E x : task'[v] = [task[v] EXCEPT !.pc = "record", !.got = x]
        BY <1>12 DEF Operator, resolve_item, Ledger, LedgerTakes, Deliver, DropRequest,
            Tick, vars, TypeInv, TypeOK
    <2>3. \A v \in Workers : /\ JobFits(task'[v])
                             /\ task[v].pc = "bury" => task'[v] = task[v]
        <3> SUFFICES ASSUME NEW v \in Workers
                     PROVE  /\ JobFits(task'[v])
                            /\ task[v].pc = "bury" => task'[v] = task[v]
            OBVIOUS
        <3>1. CASE task'[v] = task[v]
            BY <1>2, <3>1
        <3>2. ASSUME NEW x, task'[v] = [task[v] EXCEPT !.pc = "record", !.got = x],
                     task[v].pc = "await"
              PROVE  JobFits(task'[v])
            <4>1. task[v].job \notin {"none", "reconcile"}
                BY <1>2, <3>2 DEF JobFits
            <4>2. JobFits([task[v] EXCEPT !.pc = "record", !.got = x])
                BY <4>1, JobKept
            <4> QED BY <3>2, <4>2
        <3> QED BY <2>2, <3>1, <3>2
    <2>4. outbox'.state = "settled" => outbox'.last_outcome \in TERMINAL
        BY <1>0 DEF LetterInv, OutboxStep, OutboxPermits
    <2> QED BY <2>1, <2>3, <2>4 DEF LetterInv, JobFits, Rejection
<1>13. ASSUME NEW w \in Workers, Dispatch(w) \/ RetryPass(w) PROVE LetterInv'
    BY <1>3, <1>4, <1>5, <1>6, <1>7, <1>8, <1>9, <1>13 DEF Dispatch, RetryPass
<1> QED BY <1>9, <1>10, <1>11, <1>12, <1>13 DEF Next

\* Against a ledger that suppresses nothing, a declined attempt has its dead letter
\* once nobody is at work, unless a process died: for any policy and number of
\* workers, replays and operators beside the runner included.
THEOREM RejectionsAreLettered == Spec => []RejectionLettered
<1>1. CASE suppresses_duplicates
    <2>1. RejectionLettered
        BY <1>1 DEF RejectionLettered
    <2> QED BY <2>1, PTL
<1>2. CASE ~suppresses_duplicates
    <2>1. Init => LetterInv
        BY DEF Init, LetterInv, JobFits, IdleTask, Rejection
    <2>2. TypeInv /\ FlightInv /\ LetterInv /\ [Next]_vars => LetterInv'
        BY <1>2, LetterNext
    <2>3. LetterInv => RejectionLettered
        BY DEF LetterInv, RejectionLettered, Rejection
    <2> QED BY <2>1, <2>2, <2>3, TypeInvariant, FlightInvariant, PTL DEF Spec
<1> QED BY <1>1, <1>2
-------------------------------------------------------------------------------
\* The attempts at or beyond the ceiling that were turned away and that no runner is
\* about to count: each of them is a send that _retry_or_dead_letter never saw.
Uncounted ==
    {n \in DOMAIN attempts :
        /\ n >= MaxAttempts
        /\ attempts[n].outcome \in Retryable
        /\ \A w \in Workers : task[w].pc = "budget" => task[w].attempt_no # n}

\* While the row is retry work without a letter, each of them is paid for by a death;
\* and no adapter answers that nothing was sent.
BudgetInv ==
    /\ \A w \in Workers : task[w].pc = "record" => task[w].got # "not_sent"
    /\ outbox.state = "pending" /\ dlq = NULL => Cardinality(Uncounted) <= crashes

\* A count over fewer attempts is not larger, and one more attempt adds at most one.
LEMMA UncountedFewer ==
    ASSUME TypeInv, NEW S, S \subseteq Uncounted
    PROVE  /\ Cardinality(Uncounted) \in Nat /\ Cardinality(S) \in Nat
           /\ Cardinality(S) <= Cardinality(Uncounted)
           /\ \A n : /\ IsFiniteSet(S \cup {n})
                     /\ Cardinality(S \cup {n}) <= Cardinality(Uncounted) + 1
<1>1. IsFiniteSet(Uncounted)
    <2>1. Uncounted \subseteq 1 .. Len(attempts) /\ Len(attempts) \in Nat
        BY NumbersInRange DEF Uncounted
    <2>2. IsFiniteSet(1 .. Len(attempts))
        BY <2>1, FS_Interval
    <2> QED BY <2>1, <2>2, FS_Subset
<1>2. IsFiniteSet(S) /\ Cardinality(S) <= Cardinality(Uncounted)
    BY <1>1, FS_Subset
<1>3. Cardinality(Uncounted) \in Nat /\ Cardinality(S) \in Nat
    BY <1>1, <1>2, FS_CardinalityType
<1>4. ASSUME NEW n
      PROVE  /\ IsFiniteSet(S \cup {n})
             /\ Cardinality(S \cup {n}) <= Cardinality(Uncounted) + 1
    <2>1. /\ IsFiniteSet(S \cup {n})
          /\ Cardinality(S \cup {n}) = Cardinality(S) \/ Cardinality(S \cup {n}) = Cardinality(S) + 1
        BY <1>2, FS_AddElement
    <2> QED BY <1>2, <1>3, <2>1
<1> QED BY <1>2, <1>3, <1>4

\* A step that leaves every counted attempt counted, or is the death that pays for
\* one attempt.
LEMMA BudgetKept ==
    ASSUME TypeInv, TypeInv', BudgetInv,
           \A v \in Workers : task'[v].pc = "record" => task'[v].got # "not_sent",
           outbox'.state = "pending" /\ dlq' = NULL =>
                /\ outbox.state = "pending" /\ dlq = NULL
                /\ \/ Uncounted' \subseteq Uncounted /\ crashes' = crashes
                   \/ /\ \E n : Uncounted' \subseteq Uncounted \cup {n}
                      /\ crashes' = crashes + 1
    PROVE  BudgetInv'
<1> SUFFICES ASSUME outbox'.state = "pending", dlq' = NULL
             PROVE  Cardinality(Uncounted') <= crashes'
    BY DEF BudgetInv
<1>1. Cardinality(Uncounted) <= crashes /\ crashes \in Nat
    BY DEF BudgetInv, TypeInv, TypeOK, LedgerTyped
<1>2. CASE Uncounted' \subseteq Uncounted /\ crashes' = crashes
    <2>1. /\ Cardinality(Uncounted) \in Nat /\ Cardinality(Uncounted') \in Nat
          /\ Cardinality(Uncounted') <= Cardinality(Uncounted)
        BY <1>2, UncountedFewer
    <2> QED BY <1>1, <1>2, <2>1
<1>3. ASSUME NEW n, Uncounted' \subseteq Uncounted \cup {n}, crashes' = crashes + 1
      PROVE  Cardinality(Uncounted') <= crashes'
    <2> DEFINE T == Uncounted \cup {n}
    <2>1. /\ Cardinality(Uncounted) \in Nat /\ IsFiniteSet(T)
          /\ Cardinality(T) <= Cardinality(Uncounted) + 1
        BY UncountedFewer
    <2>2. IsFiniteSet(Uncounted') /\ Cardinality(Uncounted') <= Cardinality(T)
        BY <1>3, <2>1, FS_Subset
    <2>3. Cardinality(T) \in Nat /\ Cardinality(Uncounted') \in Nat
        BY <2>1, <2>2, FS_CardinalityType
    <2> HIDE DEF T
    <2> QED BY <1>1, <1>3, <2>1, <2>2, <2>3
<1> QED BY <1>2, <1>3

\* A worker that counts an attempt is the only one a step of its own takes off it.
LEMMA UncountedStep ==
    ASSUME TypeInv, attempts' = attempts, NEW w \in Workers, NEW t, Become(w, t)
    PROVE  /\ task[w].pc # "budget" => Uncounted' \subseteq Uncounted
           /\ Uncounted' \subseteq Uncounted \cup {task[w].attempt_no}
           /\ task[w].attempt_no < MaxAttempts => Uncounted' \subseteq Uncounted
<1>1. \A v \in Workers : v # w => task'[v] = task[v]
    BY BecomeTask
<1>2. MaxAttempts \in Nat
    BY PolicyAssumption
<1>3. ASSUME NEW n \in Uncounted', n \notin Uncounted
      PROVE  task[w].pc = "budget" /\ task[w].attempt_no = n /\ n >= MaxAttempts /\ n \in Nat
    <2>1. n \in DOMAIN attempts /\ n >= MaxAttempts /\ attempts[n].outcome \in Retryable
        BY <1>3 DEF Uncounted
    <2>2. PICK v \in Workers : task[v].pc = "budget" /\ task[v].attempt_no = n
        BY <1>3, <2>1 DEF Uncounted
    <2>3. v = w
        BY <1>1, <1>3, <2>2 DEF Uncounted
    <2> QED BY <2>1, <2>2, <2>3, NumbersInRange
<1> QED BY <1>2, <1>3

\* The attempt a worker ends is turned away into its own hands.
LEMMA UncountedEnded ==
    ASSUME TypeInv, NEW w \in Workers, NEW t, Become(w, t), task[w].pc # "budget",
           NEW n \in DOMAIN attempts, NEW row, attempts' = [attempts EXCEPT ![n] = row],
           row.outcome \in Retryable => t.pc = "budget" /\ t.attempt_no = n
    PROVE  Uncounted' \subseteq Uncounted
<1>1. \A v \in Workers : task'[v] = IF v = w THEN t ELSE task[v]
    BY BecomeTask
<1>2. ASSUME NEW m \in Uncounted' PROVE m \in Uncounted
    <2>1. /\ m \in DOMAIN attempts /\ m >= MaxAttempts
          /\ attempts'[m].outcome \in Retryable
        BY <1>2 DEF Uncounted
    <2>2. m # n
        <3>1. ASSUME m = n PROVE task'[w].pc = "budget" /\ task'[w].attempt_no = m
            BY <1>1, <2>1, <3>1
        <3> QED BY <1>2, <3>1 DEF Uncounted
    <2>3. attempts[m].outcome \in Retryable
        BY <2>1, <2>2
    <2>4. ASSUME NEW v \in Workers, task[v].pc = "budget" PROVE task[v].attempt_no # m
        BY <1>1, <1>2, <2>4 DEF Uncounted
    <2> QED BY <2>1, <2>3, <2>4 DEF Uncounted
<1> QED BY <1>2

\* A row just written has not been turned away.
LEMMA UncountedInserted ==
    ASSUME TypeInv, NEW w \in Workers, WriteAhead(w)
    PROVE  Uncounted' \subseteq Uncounted
<1>1. task[w].pc # "budget" /\ (Finish(w) \/ Goto(w, "post"))
    BY DEF WriteAhead
<1>2. CASE attempts' = attempts
    BY <1>1, <1>2, UncountedStep DEF Finish, Goto
<1>3. CASE task[w].attempt_no \notin DOMAIN attempts
    <2>1. /\ \A n \in DOMAIN attempts : attempts'[n] = attempts[n]
          /\ DOMAIN attempts = 1 .. Len(attempts) /\ Len(attempts) \in Nat
          /\ DOMAIN attempts' = 1 .. Len(attempts) + 1
          /\ attempts'[Len(attempts) + 1] = written_row(w)
        BY <1>3, InsertedRow
    <2>2. written_row(w).outcome \notin Retryable
        BY NullAssumption DEF written_row, Retryable, OutcomeCode
    <2>3. \A v \in Workers : v # w => task'[v] = task[v]
        BY <1>1, BecomeTask DEF Finish, Goto
    <2>4. ASSUME NEW n \in Uncounted' PROVE n \in Uncounted
        <3>1. n \in DOMAIN attempts' /\ n >= MaxAttempts /\ attempts'[n].outcome \in Retryable
            BY <2>4 DEF Uncounted
        <3>2. n # Len(attempts) + 1
            BY <2>1, <2>2, <3>1
        <3>3. n \in DOMAIN attempts /\ attempts[n].outcome \in Retryable
            BY <2>1, <3>1, <3>2
        <3>4. ASSUME NEW v \in Workers, task[v].pc = "budget" PROVE task[v].attempt_no # n
            BY <1>1, <2>3, <2>4, <3>4 DEF Uncounted
        <3> QED BY <3>1, <3>3, <3>4 DEF Uncounted
    <2> QED BY <2>4
<1> QED BY <1>2, <1>3 DEF WriteAhead

\* Neither a settled row nor a dead letter is ever undone.
LEMMA RetryWorkBefore ==
    ASSUME TypeInv, [Next]_vars
    PROVE  /\ outbox'.state = "pending" => outbox.state = "pending"
           /\ dlq' = NULL => dlq = NULL
<1> DEFINE Undone == /\ outbox'.state = "pending" => outbox.state = "pending"
                     /\ dlq' = NULL => dlq = NULL
<1>1. CASE UNCHANGED <<outbox, dlq>>
    BY <1>1
<1>2. ASSUME NEW w \in Workers, RecordOutcome(w) \/ resolve_not_sent(w)
      PROVE  Undone
    <2>1. /\ UNCHANGED dlq
          /\ \/ UNCHANGED outbox
             \/ outbox' = recorded_outbox(w)
             \/ \E x, n : outbox' = [outbox EXCEPT !.last_outcome = x, !.attempt_count = n]
        BY <1>2 DEF RecordOutcome, resolve_not_sent
    <2>2. recorded_outbox(w).state \in {"settled", outbox.state}
        BY DEF recorded_outbox, TypeInv, TypeOK, RowsTyped, Outbox
    <2> QED BY <2>1, <2>2 DEF TypeInv, TypeOK, RowsTyped, Outbox
<1>3. ASSUME NEW reason, NEW mark, dead_letter(reason, mark)
      PROVE  Undone
    <2>1. \/ UNCHANGED <<outbox, dlq>>
          \/ outbox' \in {[outbox EXCEPT !.state = "dead_lettered"], outbox} /\ dlq = NULL
        BY <1>3 DEF dead_letter
    <2> QED BY <2>1 DEF TypeInv, TypeOK, RowsTyped, Outbox
<1>4. ASSUME NEW w \in Workers, retry_or_dead_letter(w) \/ dead_letter_rejection(w)
      PROVE  Undone
    <2>1. \/ \E reason, mark : dead_letter(reason, mark)
          \/ /\ UNCHANGED dlq
             /\ \E at : outbox' = [outbox EXCEPT !.next_attempt_at = at]
        BY <1>4 DEF retry_or_dead_letter, dead_letter_rejection
    <2> QED BY <1>3, <2>1 DEF TypeInv, TypeOK, RowsTyped, Outbox
<1>5. ASSUME NEW w \in Workers, close_entry(w) PROVE Undone
    <2>1. dlq' = [dlq EXCEPT !.replay_state = "replayed"]
        BY <1>5 DEF close_entry
    <2>2. dlq \in DeadLetter
        BY <1>5 DEF close_entry, TypeInv, TypeOK, RowsTyped, TaskFits
    <2>3. dlq' \in DeadLetter
        BY <2>1, <2>2 DEF DeadLetter, ReplayState
    <2>4. outbox' = outbox
        BY <1>5 DEF close_entry
    <2> QED BY <2>3, <2>4, NullAssumption
<1>6. ASSUME NEW w \in Workers, reconcile_by_query(w)
      PROVE  Undone
    <2>1. /\ UNCHANGED dlq
          /\ \/ UNCHANGED outbox
             \/ \E x : outbox' = [outbox EXCEPT !.last_outcome = x, !.state = "settled"]
        BY <1>6 DEF reconcile_by_query
    <2> QED BY <2>1 DEF TypeInv, TypeOK, RowsTyped, Outbox
<1>7. CASE Operator
    <2>1. /\ UNCHANGED dlq
          /\ \/ UNCHANGED outbox
             \/ \E x : outbox' = [outbox EXCEPT !.state = "settled", !.last_outcome = x]
        BY <1>7 DEF Operator, resolve_item
    <2> QED BY <2>1 DEF TypeInv, TypeOK, RowsTyped, Outbox
<1>8. ASSUME NEW w \in Workers,
             \/ DispatchGate(w) \/ WriteAhead(w) \/ AdapterPost(w) \/ ConnectFails(w)
             \/ AnswerUnknown(w) \/ PostRaises(w) \/ run_due_once(w) \/ attempt_one(w)
             \/ replay_dead_letter(w) \/ reconcile_once(w) \/ get_by_operation_id(w)
             \/ open_item(w) \/ Crash(w)
      PROVE  UNCHANGED <<outbox, dlq>>
    BY <1>8 DEF DispatchGate, WriteAhead, AdapterPost, ConnectFails, AnswerUnknown,
        PostRaises, run_due_once, attempt_one, replay_dead_letter, reconcile_once,
        get_by_operation_id, open_item, Crash, rowVars
<1>9. CASE Ledger \/ Tick \/ UNCHANGED vars
    BY <1>1, <1>9 DEF Ledger, LedgerTakes, DropRequest, Tick, vars, rowVars
<1>10. ASSUME NEW w \in Workers,
              Dispatch(w) \/ RetryPass(w) \/ Replay(w) \/ ReconcilePass(w) \/ Crash(w)
       PROVE  Undone
    BY <1>1, <1>2, <1>4, <1>5, <1>6, <1>8, <1>10
       DEF Dispatch, RetryPass, Replay, ReconcilePass
<1> QED BY <1>7, <1>9, <1>10 DEF Next

\* What a worker is about to record came from the ledger or is "unknown".
LEMMA AnswersRecorded ==
    ASSUME TypeInv, [Next]_vars,
           \A v \in Workers : task[v].pc = "record" => task[v].got # "not_sent"
    PROVE  \A v \in Workers : task'[v].pc = "record" => task'[v].got # "not_sent"
<1> DEFINE Fine(t) == t.pc = "record" => t.got # "not_sent"
<1>1. ASSUME NEW w \in Workers, NEW t, Become(w, t), Fine(t)
      PROVE  \A v \in Workers : Fine(task'[v])
    BY <1>1, BecomeTask
<1>2. ASSUME NEW w \in Workers, NEW p, p # "record", NEW x, NEW n, NEW r
      PROVE  /\ Fine([task[w] EXCEPT !.pc = p])
             /\ Fine([task[w] EXCEPT !.pc = p, !.got = x])
             /\ Fine([task[w] EXCEPT !.pc = p, !.attempt_no = n])
             /\ Fine([task[w] EXCEPT !.pc = p, !.reason = r])
             /\ Fine([task[w] EXCEPT !.pc = p, !.attempt_no = n, !.got = x])
    BY <1>2 DEF TypeInv, TaskFits, Task
<1>3. ASSUME NEW ep
      PROVE  /\ Fine(IdleTask) /\ Fine(branch(ep))
             /\ \A j, p : p # "record" => Fine(Start(j, p, ep))
    <2>1. IdleTask.pc = "idle" /\ branch(ep).pc \in {"gate", "query", "recover"}
        BY DEF branch, Start, IdleTask
    <2>2. \A j, p : Start(j, p, ep).pc = p
        BY DEF Start, IdleTask
    <2> QED BY <2>1, <2>2
<1>4. ASSUME NEW x, x # "not_sent", NEW w \in Workers
      PROVE  Fine([task[w] EXCEPT !.pc = "record", !.got = x])
    BY <1>4 DEF TypeInv, TaskFits, Task
<1>5. ASSUME NEW w \in Workers,
             Dispatch(w) \/ RetryPass(w) \/ Replay(w) \/ ReconcilePass(w) \/ Crash(w)
      PROVE  \A v \in Workers : Fine(task'[v])
    <2> DEFINE Elsewhere == {"write", "post", "await", "not_sent", "gate", "bury", "budget",
                             "close", "queried", "recover"}
               Led(p, x, n, r) ==
                \/ Goto(w, p)
                \/ Become(w, [task[w] EXCEPT !.pc = p, !.got = x])
                \/ Become(w, [task[w] EXCEPT !.pc = p, !.attempt_no = n])
                \/ Become(w, [task[w] EXCEPT !.pc = p, !.reason = r])
                \/ Become(w, [task[w] EXCEPT !.pc = p, !.attempt_no = n, !.got = x])
    <2>1. \/ Finish(w)
          \/ \E p \in Elsewhere : \E x, n, r : Led(p, x, n, r)
          \/ Become(w, [task[w] EXCEPT !.pc = "record", !.got = "unknown"])
          \/ \E ep : \/ Become(w, branch(ep)) \/ Become(w, Start("retry", "claimed", ep))
                     \/ \E p \in {"close", "gate"} : Become(w, Start("replay", p, ep))
        <3>1. CASE Dispatch(w) /\ ~RecordOutcome(w)
            BY <3>1 DEF Dispatch, DispatchGate, WriteAhead, AdapterPost, ConnectFails,
                AnswerUnknown, PostRaises
        <3>2. CASE RecordOutcome(w)
            <4>1. after_outcome(task[w].job, task[w].got) \in {"idle", "bury", "budget", "close"}
                BY Zenon DEF after_outcome
            <4> QED BY <3>2, <4>1 DEF RecordOutcome
        <3>3. CASE RetryPass(w) \/ Replay(w) \/ Crash(w)
            BY <3>3 DEF RetryPass, Replay, run_due_once, attempt_one, resolve_not_sent,
                retry_or_dead_letter, dead_letter_rejection, replay_dead_letter,
                close_entry, Crash
        <3>4. CASE ReconcilePass(w)
            BY <3>4 DEF ReconcilePass, reconcile_once, get_by_operation_id,
                reconcile_by_query, open_item
        <3> QED BY <1>5, <3>1, <3>2, <3>3, <3>4
    <2>2. "record" \notin Elsewhere
        OBVIOUS
    <2> HIDE DEF Elsewhere, Fine
    <2>3. CASE Finish(w) \/ Become(w, [task[w] EXCEPT !.pc = "record", !.got = "unknown"])
        BY <1>1, <1>3, <1>4, <2>3 DEF Finish
    <2>4. ASSUME NEW ep, \/ Become(w, branch(ep)) \/ Become(w, Start("retry", "claimed", ep))
                         \/ \E p \in {"close", "gate"} : Become(w, Start("replay", p, ep))
          PROVE  \A v \in Workers : Fine(task'[v])
        BY <1>1, <1>3, <2>4
    <2>5. ASSUME NEW p \in Elsewhere, NEW x, NEW n, NEW r, Led(p, x, n, r)
          PROVE  \A v \in Workers : Fine(task'[v])
        <3>1. p # "record"
            BY <2>2
        <3>2. /\ Fine([task[w] EXCEPT !.pc = p])
              /\ Fine([task[w] EXCEPT !.pc = p, !.got = x])
              /\ Fine([task[w] EXCEPT !.pc = p, !.attempt_no = n])
              /\ Fine([task[w] EXCEPT !.pc = p, !.reason = r])
              /\ Fine([task[w] EXCEPT !.pc = p, !.attempt_no = n, !.got = x])
            BY <1>2, <3>1
        <3> QED BY <1>1, <2>5, <3>2 DEF Goto
    <2> HIDE DEF Led
    <2> QED BY <2>1, <2>3, <2>4, <2>5
<1>6. CASE \E n \in wire, answer \in Answers : LedgerTakes(n, answer)
    <2>1. PICK n \in wire, answer \in Answers : LedgerTakes(n, answer)
        BY <1>6
    <2>2. answer # "not_sent"
        BY LedgerAssumption
    <2>3. \A v \in Workers :
            \/ task'[v] = task[v]
            \/ task'[v] = [task[v] EXCEPT !.pc = "record", !.got = answer]
        BY <2>1 DEF LedgerTakes, Deliver
    <2>4. \A v \in Workers : Fine([task[v] EXCEPT !.pc = "record", !.got = answer])
        BY <1>4, <2>2
    <2> QED BY <2>3, <2>4
<1>7. CASE UNCHANGED task
    BY <1>7
<1> QED BY <1>5, <1>6, <1>7 DEF Next, Operator, resolve_item, Ledger, DropRequest, Tick,
        vars

\* Every step of the control plane keeps BudgetInv.
LEMMA BudgetNext ==
    ASSUME ~suppresses_duplicates
    PROVE  /\ TypeInv /\ TypeInv' /\ FlightInv /\ LetterInv /\ BudgetInv /\ [Next]_vars
                => BudgetInv'
<1> SUFFICES ASSUME TypeInv, TypeInv', FlightInv, LetterInv, BudgetInv, [Next]_vars
             PROVE  BudgetInv'
    OBVIOUS
<1>1. \A v \in Workers : task'[v].pc = "record" => task'[v].got # "not_sent"
    BY AnswersRecorded DEF BudgetInv
<1>2. ASSUME \/ Uncounted' \subseteq Uncounted /\ crashes' = crashes
             \/ outbox.state # "pending" \/ dlq # NULL \/ dlq' # NULL
      PROVE  BudgetInv'
    BY <1>1, <1>2, RetryWorkBefore, BudgetKept
<1>3. ASSUME NEW w \in Workers,
             \/ DispatchGate(w) \/ AdapterPost(w) \/ ConnectFails(w) \/ AnswerUnknown(w)
             \/ PostRaises(w) \/ run_due_once(w) \/ attempt_one(w)
             \/ dead_letter_rejection(w) \/ replay_dead_letter(w) \/ close_entry(w)
             \/ reconcile_once(w) \/ get_by_operation_id(w) \/ reconcile_by_query(w)
             \/ open_item(w)
      PROVE  BudgetInv'
    <2>1. /\ UNCHANGED <<attempts, crashes>> /\ task[w].pc # "budget"
          /\ \E t : Become(w, t)
        BY <1>3 DEF DispatchGate, AdapterPost, ConnectFails, AnswerUnknown, PostRaises,
            run_due_once, attempt_one, dead_letter_rejection, replay_dead_letter,
            close_entry, reconcile_once, get_by_operation_id, reconcile_by_query,
            open_item, rowVars, Finish, Goto
    <2>2. Uncounted' \subseteq Uncounted
        BY <2>1, UncountedStep
    <2> QED BY <1>2, <2>1, <2>2
<1>4. ASSUME NEW w \in Workers, WriteAhead(w) PROVE BudgetInv'
    <2>1. Uncounted' \subseteq Uncounted /\ crashes' = crashes
        BY <1>4, UncountedInserted DEF WriteAhead
    <2> QED BY <1>2, <2>1
<1>5. ASSUME NEW w \in Workers, RecordOutcome(w) PROVE BudgetInv'
    <2> DEFINE n == task[w].attempt_no
               next == after_outcome(task[w].job, task[w].got)
               t == [task[w] EXCEPT !.pc = "budget"]
    <2>1. /\ crashes' = crashes /\ task[w].pc = "record"
          /\ n \in DOMAIN attempts /\ attempts[n] \in PostingAttempt
        BY <1>5, NumbersInRange DEF RecordOutcome, Owning, TypeInv, TypeOK, RowsTyped
    <2>2. CASE task[w].job = "replay"
        BY <1>2, <2>2 DEF TypeInv, TaskFits
    <2>3. CASE task[w].job # "replay"
        <3>1. task[w].job = "retry"
            BY <2>1, <2>3 DEF LetterInv, JobFits, TypeInv, TaskFits, Task
        <3>2. task[w].got # "not_sent"
            BY <2>1 DEF BudgetInv
        <3>3. recorded_attempt(w).outcome = task[w].got
            BY <2>1 DEF recorded_attempt, PostingAttempt
        <3>4. CASE Finish(w) /\ UNCHANGED attempts
            <4>1. Uncounted' \subseteq Uncounted
                BY <2>1, <3>4, UncountedStep DEF Finish
            <4> QED BY <1>2, <2>1, <4>1
        <3>5. CASE /\ attempts' = [attempts EXCEPT ![n] = recorded_attempt(w)]
                   /\ IF next = "idle" THEN Finish(w) ELSE Goto(w, next)
            <4>1. CASE task[w].got = "throttled"
                <5>1. next = "budget"
                    BY <3>1, <4>1 DEF after_outcome
                <5>2. Become(w, t) /\ t.pc = "budget" /\ t.attempt_no = n
                    BY <3>5, <5>1 DEF Goto, TypeInv, TaskFits, Task
                <5>3. Uncounted' \subseteq Uncounted
                    <6> HIDE DEF t, n
                    <6> QED BY <2>1, <3>5, <5>2, UncountedEnded
                <5> QED BY <1>2, <2>1, <5>3
            <4>2. CASE task[w].got # "throttled"
                <5>1. recorded_attempt(w).outcome \notin Retryable
                    BY <3>2, <3>3, <4>2 DEF Retryable
                <5>2. \E u : Become(w, u)
                    BY <3>5 DEF Finish, Goto
                <5>3. Uncounted' \subseteq Uncounted
                    <6> HIDE DEF n, next
                    <6> QED BY <2>1, <3>5, <5>1, <5>2, UncountedEnded
                <5> QED BY <1>2, <2>1, <5>3
            <4> QED BY <4>1, <4>2
        <3> QED BY <1>5, <3>4, <3>5 DEF RecordOutcome
    <2> QED BY <2>2, <2>3
<1>6. ASSUME NEW w \in Workers, resolve_not_sent(w) PROVE BudgetInv'
    <2>1. /\ crashes' = crashes /\ task[w].pc = "not_sent"
        BY <1>6 DEF resolve_not_sent
    <2>2. CASE task[w].job = "replay"
        BY <1>2, <2>2 DEF TypeInv, TaskFits
    <2>3. CASE task[w].job # "replay"
        <3>1. task[w].job = "retry"
            BY <2>1, <2>3 DEF LetterInv, JobFits, TypeInv, TaskFits, Task
        <3>2. CASE Finish(w) /\ UNCHANGED attempts
            <4>1. Uncounted' \subseteq Uncounted
                BY <2>1, <3>2, UncountedStep DEF Finish
            <4> QED BY <1>2, <2>1, <4>1
        <3>3. ASSUME NEW n, NEW row, Cardinality(InFlight) = 1, n = (CHOOSE m \in InFlight : TRUE),
                     attempts' = [attempts EXCEPT ![n] = row],
                     Become(w, [task[w] EXCEPT !.pc = "budget", !.attempt_no = n,
                                               !.got = "not_sent"])
              PROVE  BudgetInv'
            <4> DEFINE t == [task[w] EXCEPT !.pc = "budget", !.attempt_no = n,
                                            !.got = "not_sent"]
            <4>1. task[w].attempt_no \in InFlight
                BY <2>1, NumbersInRange DEF FlightInv, Owned, Owning, InFlight
            <4>2. n \in DOMAIN attempts
                BY <3>3, <4>1 DEF InFlight
            <4>3. t.pc = "budget" /\ t.attempt_no = n
                BY DEF TypeInv, TaskFits, Task
            <4>4. Uncounted' \subseteq Uncounted
                <5> HIDE DEF t
                <5> QED BY <2>1, <3>3, <4>2, <4>3, UncountedEnded DEF t
            <4> QED BY <1>2, <2>1, <4>4
        <3>4. \/ Finish(w) /\ UNCHANGED attempts
              \/ \E n, row :
                    /\ Cardinality(InFlight) = 1 /\ n = (CHOOSE m \in InFlight : TRUE)
                    /\ attempts' = [attempts EXCEPT ![n] = row]
                    /\ Become(w, [task[w] EXCEPT !.pc = "budget", !.attempt_no = n,
                                                 !.got = "not_sent"])
            BY <1>6, <3>1 DEF resolve_not_sent
        <3> QED BY <3>2, <3>3, <3>4
    <2> QED BY <2>2, <2>3
<1>7. ASSUME NEW w \in Workers, retry_or_dead_letter(w) PROVE BudgetInv'
    <2>1. /\ Finish(w) /\ UNCHANGED <<attempts, crashes>>
          /\ \/ task[w].attempt_no < MaxAttempts
             \/ \E reason : dead_letter(reason, TRUE)
        <3>1. task[w].attempt_no \in Nat /\ MaxAttempts \in Nat
            BY PolicyAssumption DEF TypeInv, TaskFits, Task
        <3>2. Finish(w) /\ UNCHANGED <<attempts, crashes>>
            BY <1>7 DEF retry_or_dead_letter
        <3>3. task[w].attempt_no >= MaxAttempts => dead_letter("attempts_exhausted", TRUE)
            BY <1>7 DEF retry_or_dead_letter
        <3>4. task[w].attempt_no < MaxAttempts \/ task[w].attempt_no >= MaxAttempts
            BY <3>1
        <3>5. task[w].attempt_no >= MaxAttempts => \E reason : dead_letter(reason, TRUE)
            BY <3>3, Zenon
        <3> QED BY <3>2, <3>4, <3>5, Zenon
    <2>2. CASE task[w].attempt_no < MaxAttempts
        <3>1. Uncounted' \subseteq Uncounted
            BY <2>1, <2>2, UncountedStep DEF Finish
        <3> QED BY <1>2, <2>1, <3>1
    <2>3. ASSUME NEW reason, dead_letter(reason, TRUE) PROVE BudgetInv'
        <3>1. CASE dlq # NULL \/ outbox.state # "pending"
            BY <1>2, <3>1
        <3>2. CASE dlq = NULL /\ outbox.state = "pending"
            <4> DEFINE intent == [outbox EXCEPT !.state = "dead_lettered"]
                       letter == [reason |-> reason, replay_state |-> "pending"]
            <4>1. /\ intent.state = "dead_lettered"
                  /\ intent.last_outcome = outbox.last_outcome
                BY DEF TypeInv, TypeOK, RowsTyped, Outbox
            <4>2. OutboxPermits(intent)
                <5> HIDE DEF intent
                <5> QED BY <3>2, <4>1 DEF OutboxPermits
            <4>3. outbox' = intent
                BY <2>3, <3>2, <4>2 DEF dead_letter
            <4>4. outbox'.state # "pending"
                BY <4>1, <4>3
            <4> QED BY <1>1, <4>4 DEF BudgetInv
        <3> QED BY <3>1, <3>2
    <2> QED BY <2>1, <2>2, <2>3
<1>8. ASSUME NEW w \in Workers, Crash(w) PROVE BudgetInv'
    <2>1. Finish(w) /\ attempts' = attempts /\ crashes' = crashes + 1
        BY <1>8 DEF Crash, rowVars
    <2>2. Uncounted' \subseteq Uncounted \cup {task[w].attempt_no}
        BY <2>1, UncountedStep DEF Finish
    <2> QED BY <1>1, <2>1, <2>2, RetryWorkBefore, BudgetKept
<1>9. CASE Operator \/ Ledger \/ Tick \/ UNCHANGED vars
    <2>1. UNCHANGED <<attempts, crashes>>
        BY <1>9 DEF Operator, resolve_item, Ledger, LedgerTakes, DropRequest, Tick, vars,
            rowVars
    <2>2. ASSUME NEW v \in Workers, task[v].pc = "budget" PROVE task'[v] = task[v]
        BY <1>9, <2>2 DEF Operator, resolve_item, Ledger, LedgerTakes, Deliver,
            DropRequest, Tick, vars
    <2>3. Uncounted' \subseteq Uncounted
        BY <2>1, <2>2 DEF Uncounted
    <2> QED BY <1>2, <2>1, <2>3
<1>10. ASSUME NEW w \in Workers,
              Dispatch(w) \/ RetryPass(w) \/ Replay(w) \/ ReconcilePass(w) \/ Crash(w)
       PROVE  BudgetInv'
    BY <1>3, <1>4, <1>5, <1>6, <1>7, <1>8, <1>10
       DEF Dispatch, RetryPass, Replay, ReconcilePass
<1> QED BY <1>9, <1>10 DEF Next

-------------------------------------------------------------------------------
\* Workers about to count a send, and passes past the last look at the budget.
Counting == {w \in Workers : task[w].pc = "budget"}
Able     == {w \in Workers : task[w].job = "retry" /\ task[w].pc \in {"gate", "write"}}

\* An attempt that was not turned away and that nobody works for any more: nothing is
\* ever sent behind it.
Stuck ==
    \E n \in DOMAIN attempts :
        /\ attempts[n].outcome \notin Retryable
        /\ \A w \in Workers : task[w].pc \in Owning => task[w].attempt_no # n

\* The sends the ceiling, the other workers and the deaths account for.
Room == MaxAttempts + (Cardinality(Workers) - 1) + crashes

\* The attempts made and the passes that may still add one stay within the room and the
\* replays; a pass turns able only while the row is retry work without a letter.
SendInv ==
    /\ replayed \in Nat
    /\ \A w \in Workers : task[w].pc = "bury" => outbox.state = "settled"
    /\ dlq # NULL => outbox.state # "pending"
    /\ Len(attempts) <= Room + replayed
    /\ ~Stuck => Len(attempts) + Cardinality(Able) <= Room + replayed

\* The attempts turned away from the first on are within the ceiling, the sends about
\* to be counted and the deaths.
LEMMA TurnedAwayBound ==
    ASSUME TypeInv, BudgetInv, outbox.state = "pending", dlq = NULL,
           NEW m \in Nat, m <= Len(attempts),
           \A n \in 1 .. m : attempts[n].outcome \in Retryable
    PROVE  m <= MaxAttempts - 1 + Cardinality(Counting) + crashes
<1> DEFINE S == MaxAttempts .. m
           f == [w \in Counting |-> task[w].attempt_no]
           T == {f[w] : w \in Counting}
<1>1. /\ MaxAttempts \in Nat \ {0} /\ crashes \in Nat
      /\ Len(attempts) \in Nat /\ DOMAIN attempts = 1 .. Len(attempts)
    BY NumbersInRange, PolicyAssumption DEF TypeInv, TypeOK, LedgerTyped
<1>2. IsFiniteSet(Counting) /\ Cardinality(Counting) \in Nat
    <2>1. IsFiniteSet(Counting)
        BY WorkersAssumption, FS_Subset DEF Counting
    <2> QED BY <2>1, FS_CardinalityType
<1>3. IsFiniteSet(T) /\ Cardinality(T) <= Cardinality(Counting) /\ Cardinality(T) \in Nat
    <2>1. f \in Surjection(Counting, T)
        BY DEF Surjection
    <2>2. IsFiniteSet(T) /\ Cardinality(T) <= Cardinality(Counting)
        <3> HIDE DEF f, T
        <3> QED BY <1>2, <2>1, FS_Surjection
    <2> QED BY <2>2, FS_CardinalityType
<1>4. /\ IsFiniteSet(Uncounted) /\ Cardinality(Uncounted) \in Nat
      /\ Cardinality(Uncounted) <= crashes
    <2>1. IsFiniteSet(1 .. Len(attempts))
        BY <1>1, FS_Interval
    <2>2. Uncounted \subseteq 1 .. Len(attempts)
        BY <1>1 DEF Uncounted
    <2>3. IsFiniteSet(Uncounted)
        BY <2>1, <2>2, FS_Subset
    <2> QED BY <2>3, FS_CardinalityType DEF BudgetInv
<1>5. S \subseteq Uncounted \cup T
    <2> SUFFICES ASSUME NEW n \in S, n \notin T PROVE n \in Uncounted
        OBVIOUS
    <2>1. n \in DOMAIN attempts /\ n >= MaxAttempts /\ attempts[n].outcome \in Retryable
        BY <1>1
    <2>2. \A w \in Workers : task[w].pc = "budget" => task[w].attempt_no # n
        BY DEF Counting
    <2> QED BY <2>1, <2>2 DEF Uncounted
<1>6. Cardinality(S) <= Cardinality(Uncounted) + Cardinality(T)
    <2> DEFINE U == Uncounted \cup T
    <2>1. /\ IsFiniteSet(U)
          /\ Cardinality(U) = Cardinality(Uncounted) + Cardinality(T)
                                - Cardinality(Uncounted \cap T)
        BY <1>3, <1>4, FS_Union
    <2>2. Cardinality(Uncounted \cap T) \in Nat
        BY <1>4, FS_Subset, FS_CardinalityType
    <2>3. IsFiniteSet(S) /\ Cardinality(S) <= Cardinality(U)
        <3> HIDE DEF S
        <3> QED BY <1>5, <2>1, FS_Subset
    <2>4. Cardinality(S) \in Nat /\ Cardinality(U) \in Nat
        BY <2>1, <2>3, FS_CardinalityType
    <2> HIDE DEF U, S, T
    <2> QED BY <1>3, <1>4, <2>1, <2>2, <2>3, <2>4
<1>7. Cardinality(S) = IF MaxAttempts > m THEN 0 ELSE m - MaxAttempts + 1
    <2>1. MaxAttempts \in Int /\ m \in Int
        BY <1>1
    <2> QED BY <2>1, FS_Interval
<1> HIDE DEF S, T
<1> QED BY <1>1, <1>2, <1>3, <1>4, <1>6, <1>7

\* The workers counting, the able ones and one more that is neither are no more than
\* there are workers.
LEMMA WorkersShared ==
    /\ Cardinality(Able) \in Nat /\ Cardinality(Counting) \in Nat
    /\ Cardinality(Workers) \in Nat
    /\ Cardinality(Able) + Cardinality(Counting) <= Cardinality(Workers)
    /\ \A w \in Workers : w \notin Able \cup Counting =>
            Cardinality(Able) + Cardinality(Counting) + 1 <= Cardinality(Workers)
<1> DEFINE AC == Able \cup Counting
<1>1. /\ IsFiniteSet(Workers) /\ Able \subseteq Workers /\ Counting \subseteq Workers
      /\ AC \subseteq Workers /\ Able \cap Counting = {}
    BY WorkersAssumption DEF Able, Counting
<1>2. /\ IsFiniteSet(Able) /\ IsFiniteSet(Counting) /\ IsFiniteSet(AC)
      /\ Cardinality(AC) <= Cardinality(Workers)
    BY <1>1, FS_Subset
<1>3. /\ Cardinality(Able) \in Nat /\ Cardinality(Counting) \in Nat
      /\ Cardinality(Workers) \in Nat /\ Cardinality(AC) \in Nat
    BY <1>1, <1>2, FS_CardinalityType
<1>4. Cardinality(AC) = Cardinality(Able) + Cardinality(Counting)
    <2>1. Cardinality(AC) = Cardinality(Able) + Cardinality(Counting)
                              - Cardinality(Able \cap Counting)
        BY <1>2, FS_Union
    <2>2. Cardinality(Able \cap Counting) = 0
        BY <1>1, FS_EmptySet
    <2> HIDE DEF AC
    <2> QED BY <1>3, <2>1, <2>2
<1>5. ASSUME NEW w \in Workers, w \notin AC
      PROVE  Cardinality(AC) + 1 <= Cardinality(Workers)
    <2> DEFINE More == AC \cup {w}
    <2>1. IsFiniteSet(More) /\ Cardinality(More) = Cardinality(AC) + 1
        <3> HIDE DEF AC
        <3> QED BY <1>2, <1>5, FS_AddElement
    <2>2. More \subseteq Workers
        BY <1>1
    <2>3. Cardinality(More) <= Cardinality(Workers)
        <3> HIDE DEF More
        <3> QED BY <1>1, <2>2, FS_Subset
    <2> QED BY <2>1, <2>3
<1> HIDE DEF AC
<1> QED BY <1>2, <1>3, <1>4, <1>5 DEF AC

\* While the row is retry work without a letter and its newest attempt is turned away or
\* in a worker's hands, the attempts and the able passes are within the room.
LEMMA OpenRoom ==
    ASSUME TypeInv, SerialInv, BudgetInv, outbox.state = "pending", dlq = NULL, ~Stuck
    PROVE  Len(attempts) + Cardinality(Able) <= Room
<1>1. /\ Len(attempts) \in Nat /\ DOMAIN attempts = 1 .. Len(attempts)
      /\ crashes \in Nat /\ MaxAttempts \in Nat
    BY NumbersInRange, PolicyAssumption DEF TypeInv, TypeOK, LedgerTyped
<1> DEFINE a == Cardinality(Able)
           b == Cardinality(Counting)
           c == Cardinality(Workers)
<1>2. a \in Nat /\ b \in Nat /\ c \in Nat /\ a + b <= c
    BY WorkersShared
<1>3. Room = MaxAttempts + (c - 1) + crashes
    BY DEF Room
<1>4. CASE \A n \in DOMAIN attempts : attempts[n].outcome \in Retryable
    <2>1. Len(attempts) <= MaxAttempts - 1 + b + crashes
        BY <1>1, <1>4, TurnedAwayBound
    <2> HIDE DEF a, b, c
    <2>2. Len(attempts) + a <= Room
        BY <1>1, <1>2, <1>3, <2>1
    <2> QED BY <2>2 DEF a
<1>5. ASSUME NEW n \in DOMAIN attempts, attempts[n].outcome \notin Retryable
      PROVE  Len(attempts) + Cardinality(Able) <= Room
    <2>1. n = Len(attempts)
        BY <1>1, <1>5 DEF SerialInv, OnlyLast
    <2>2. \A k \in 1 .. n - 1 : attempts[k].outcome \in Retryable
        BY <1>1, <2>1 DEF SerialInv, OnlyLast
    <2>3. n - 1 <= MaxAttempts - 1 + Cardinality(Counting) + crashes
        <3>1. n - 1 \in Nat /\ n - 1 <= Len(attempts)
            BY <1>1, <2>1
        <3> QED BY <2>2, <3>1, TurnedAwayBound
    <2>4. PICK w \in Workers : task[w].pc \in Owning /\ task[w].attempt_no = n
        BY <1>5 DEF Stuck
    <2>5. w \notin Able \cup Counting
        BY <2>4 DEF Able, Counting, Owning
    <2>6. a + b + 1 <= c
        BY <2>5, WorkersShared
    <2>7. n - 1 <= MaxAttempts - 1 + b + crashes
        BY <2>3
    <2> HIDE DEF a, b, c
    <2>8. Len(attempts) + a <= Room
        BY <1>1, <1>2, <1>3, <2>1, <2>6, <2>7
    <2> QED BY <2>8 DEF a
<1> QED BY <1>4, <1>5

\* Where a worker's step leads it, as far as able passes and owned attempts go.
Led(v) ==
    \/ task'[v] = task[v]
    \/ task'[v].pc \notin Owning \cup {"gate", "write", "bury"}
    \/ task'[v].pc = "gate" /\ task'[v].job # "retry"
    \/ task'[v].pc = "gate" /\ attempt_one(v) /\ outbox.state = "pending"
    \/ task'[v].pc = "write" /\ task'[v].job = task[v].job /\ task[v].pc = "gate"
    \/ task'[v].pc = "bury" /\ outbox'.state = "settled"
    \/ /\ task'[v].pc = "post" /\ task'[v].attempt_no = task[v].attempt_no
       /\ WriteAhead(v) /\ task[v].attempt_no \notin DOMAIN attempts
    \/ /\ task'[v].pc \in Owning /\ task[v].pc \in Owning
       /\ task'[v].attempt_no = task[v].attempt_no

LEMMA EveryWorkerLed ==
    ASSUME TypeInv, [Next]_vars, NEW v \in Workers
    PROVE  Led(v)
<1>1. ASSUME NEW w \in Workers, NEW t, Become(w, t), v # w PROVE Led(v)
    BY <1>1, BecomeTask DEF Led
<1>2. ASSUME NEW t, Become(v, t), t.pc \notin Owning \cup {"gate", "write", "bury"}
      PROVE  Led(v)
    BY <1>2, BecomeTask DEF Led
<1>3. ASSUME NEW p, NEW x, NEW n, NEW r
      PROVE  /\ [task[v] EXCEPT !.pc = p].pc = p
             /\ [task[v] EXCEPT !.pc = p].job = task[v].job
             /\ [task[v] EXCEPT !.pc = p].attempt_no = task[v].attempt_no
             /\ [task[v] EXCEPT !.pc = p, !.attempt_no = n].pc = p
             /\ [task[v] EXCEPT !.pc = p, !.attempt_no = n].job = task[v].job
             /\ [task[v] EXCEPT !.pc = p, !.got = x].pc = p
             /\ [task[v] EXCEPT !.pc = p, !.got = x].attempt_no = task[v].attempt_no
             /\ [task[v] EXCEPT !.pc = p, !.reason = r].pc = p
             /\ [task[v] EXCEPT !.pc = p, !.attempt_no = n, !.got = x].pc = p
    BY DEF TypeInv, TaskFits, Task
<1>4. CASE Finish(v)
    <2>1. IdleTask.pc = "idle"
        BY DEF IdleTask
    <2> QED BY <1>2, <1>4, <2>1 DEF Finish, Owning
<1>5. CASE DispatchGate(v)
    <2>1. ASSUME NEW n, Become(v, [task[v] EXCEPT !.pc = "write", !.attempt_no = n])
          PROVE  Led(v)
        <3> DEFINE t == [task[v] EXCEPT !.pc = "write", !.attempt_no = n]
        <3>1. t.pc = "write" /\ t.job = task[v].job
            BY <1>3
        <3>2. task'[v] = t
            <4> HIDE DEF t
            <4> QED BY <2>1, BecomeTask DEF t
        <3> HIDE DEF t
        <3> QED BY <1>5, <3>1, <3>2 DEF Led, DispatchGate
    <2>2. \/ Finish(v)
          \/ \E n : Become(v, [task[v] EXCEPT !.pc = "write", !.attempt_no = n])
        BY <1>5 DEF DispatchGate
    <2> QED BY <1>4, <2>1, <2>2
<1>6. ASSUME NEW p \in Owning, Goto(v, p) PROVE task'[v].pc = p /\ task'[v].attempt_no = task[v].attempt_no
    <2>1. task'[v] = [task[v] EXCEPT !.pc = p]
        BY <1>6, BecomeTask DEF Goto
    <2> QED BY <1>3, <2>1
<1>7. CASE WriteAhead(v)
    <2>1. CASE task[v].attempt_no \notin DOMAIN attempts
        <3>1. Goto(v, "post")
            BY <1>7, <2>1 DEF WriteAhead
        <3> QED BY <1>6, <1>7, <2>1, <3>1 DEF Led, Owning
    <2>2. CASE task[v].attempt_no \in DOMAIN attempts
        BY <1>4, <1>7, <2>2 DEF WriteAhead
    <2> QED BY <2>1, <2>2
<1>8. CASE AdapterPost(v) \/ ConnectFails(v)
    <2>1. /\ task[v].pc = "post"
          /\ (Finish(v) \/ \E p \in {"await", "not_sent"} : Goto(v, p))
        BY <1>8 DEF AdapterPost, ConnectFails
    <2> QED BY <1>4, <1>6, <2>1 DEF Led, Owning
<1>9. ASSUME NEW x, task[v].pc = "await",
             task'[v] = [task[v] EXCEPT !.pc = "record", !.got = x]
      PROVE  Led(v)
    <2>1. task'[v].pc = "record" /\ task'[v].attempt_no = task[v].attempt_no
        BY <1>3, <1>9
    <2> QED BY <1>9, <2>1 DEF Led, Owning
<1>10. CASE AnswerUnknown(v)
    <2>1. task'[v] = [task[v] EXCEPT !.pc = "record", !.got = "unknown"]
        BY <1>10, BecomeTask DEF AnswerUnknown
    <2> QED BY <1>9, <1>10, <2>1 DEF AnswerUnknown
<1>11. CASE RecordOutcome(v)
    <2> DEFINE next == after_outcome(task[v].job, task[v].got)
    <2>1. /\ next \in {"idle", "bury", "budget", "close"}
          /\ next = "bury" => task[v].got = "rejected"
        BY Zenon DEF after_outcome
    <2>2. CASE Goto(v, next) /\ outbox' = recorded_outbox(v)
        <3>1. task'[v] = [task[v] EXCEPT !.pc = next]
            BY <2>2, BecomeTask DEF Goto
        <3>2. task'[v].pc = next
            BY <1>3, <3>1
        <3>3. CASE next = "bury"
            <4>1. recorded_outbox(v).state = "settled"
                BY <2>1, <3>3 DEF recorded_outbox, TypeInv, TypeOK, RowsTyped, Outbox, TERMINAL
            <4> QED BY <2>2, <3>2, <3>3, <4>1 DEF Led
        <3>4. CASE next # "bury"
            <4> HIDE DEF next
            <4> QED BY <2>1, <3>2, <3>4 DEF Led, Owning
        <3> QED BY <3>3, <3>4
    <2>3. Finish(v) \/ (Goto(v, next) /\ outbox' = recorded_outbox(v))
        BY <1>11 DEF RecordOutcome
    <2> QED BY <1>4, <2>2, <2>3
<1>12. CASE attempt_one(v)
    <2>1. Finish(v) \/ (Goto(v, "gate") /\ outbox.state = "pending")
        BY <1>12 DEF attempt_one
    <2>2. CASE Goto(v, "gate") /\ outbox.state = "pending"
        <3>1. task'[v] = [task[v] EXCEPT !.pc = "gate"]
            BY <2>2, BecomeTask DEF Goto
        <3>2. task'[v].pc = "gate"
            BY <1>3, <3>1
        <3> QED BY <1>12, <2>2, <3>2 DEF Led
    <2> QED BY <1>4, <2>1, <2>2
<1>13. CASE run_due_once(v) \/ replay_dead_letter(v) \/ reconcile_once(v)
    <2>1. ASSUME NEW t, Become(v, t), t.pc \in {"claimed", "close", "query", "recover"}
          PROVE  Led(v)
        BY <1>2, <2>1 DEF Owning
    <2>2. ASSUME NEW t, Become(v, t), t.pc = "gate", t.job # "retry" PROVE Led(v)
        BY <2>2, BecomeTask DEF Led
    <2>3. ASSUME NEW ep
          PROVE  /\ Start("retry", "claimed", ep).pc = "claimed"
                 /\ Start("replay", "close", ep).pc = "close"
                 /\ Start("replay", "gate", ep).pc = "gate"
                 /\ Start("replay", "gate", ep).job = "replay"
                 /\ branch(ep).pc \in {"gate", "query", "recover"}
                 /\ branch(ep).job = "reconcile"
        BY DEF branch, Start, IdleTask
    <2>4. \E ep : \/ Become(v, branch(ep)) \/ Become(v, Start("retry", "claimed", ep))
                  \/ \E p \in {"close", "gate"} : Become(v, Start("replay", p, ep))
        BY <1>13 DEF run_due_once, replay_dead_letter, reconcile_once
    <2> QED BY <2>1, <2>2, <2>3, <2>4
<1>14. CASE resolve_not_sent(v) \/ get_by_operation_id(v) \/ reconcile_by_query(v)
    <2> DEFINE Places == {"budget", "queried", "recover"}
               Put(p, x, n, r) ==
                \/ Become(v, [task[v] EXCEPT !.pc = p, !.got = x])
                \/ Become(v, [task[v] EXCEPT !.pc = p, !.reason = r])
                \/ Become(v, [task[v] EXCEPT !.pc = p, !.attempt_no = n, !.got = x])
    <2>1. Finish(v) \/ \E p \in Places : \E x, n, r : Put(p, x, n, r)
        BY <1>14 DEF resolve_not_sent, get_by_operation_id, reconcile_by_query
    <2>2. ASSUME NEW p \in Places, NEW x, NEW n, NEW r, Put(p, x, n, r) PROVE Led(v)
        <3>1. p \notin Owning \cup {"gate", "write", "bury"}
            BY DEF Owning
        <3> DEFINE t1 == [task[v] EXCEPT !.pc = p, !.got = x]
                   t2 == [task[v] EXCEPT !.pc = p, !.reason = r]
                   t3 == [task[v] EXCEPT !.pc = p, !.attempt_no = n, !.got = x]
        <3>2. t1.pc = p /\ t2.pc = p /\ t3.pc = p
            BY <1>3
        <3>3. Become(v, t1) \/ Become(v, t2) \/ Become(v, t3)
            BY <2>2
        <3> HIDE DEF t1, t2, t3, Places
        <3> QED BY <1>2, <3>1, <3>2, <3>3
    <2> HIDE DEF Places, Put
    <2> QED BY <1>4, <2>1, <2>2
<1>15. CASE PostRaises(v) \/ retry_or_dead_letter(v) \/ dead_letter_rejection(v)
            \/ close_entry(v) \/ open_item(v) \/ Crash(v)
    BY <1>4, <1>15 DEF PostRaises, retry_or_dead_letter, dead_letter_rejection, close_entry,
        open_item, Crash
<1>16. ASSUME NEW w \in Workers,
              Dispatch(w) \/ RetryPass(w) \/ Replay(w) \/ ReconcilePass(w) \/ Crash(w)
       PROVE  Led(v)
    <2>1. CASE w = v
        BY <1>5, <1>7, <1>8, <1>10, <1>11, <1>12, <1>13, <1>14, <1>15, <1>16, <2>1
           DEF Dispatch, RetryPass, Replay, ReconcilePass
    <2>2. CASE w # v
        <3>1. \E t : Become(w, t)
            BY <1>16, EveryMove
        <3> QED BY <1>1, <2>2, <3>1
    <2> QED BY <2>1, <2>2
<1>17. CASE \E n \in wire, answer \in Answers : LedgerTakes(n, answer)
    <2>1. PICK n, answer : Deliver(n, answer)
        BY <1>17 DEF LedgerTakes
    <2>2. \/ task'[v] = task[v]
          \/ /\ task[v].pc = "await"
             /\ task'[v] = [task[v] EXCEPT !.pc = "record", !.got = answer]
        BY <2>1 DEF Deliver
    <2> QED BY <1>9, <2>2 DEF Led
<1>18. CASE UNCHANGED task
    BY <1>18 DEF Led
<1> QED BY <1>16, <1>17, <1>18 DEF Next, Operator, resolve_item, Ledger, DropRequest, Tick,
        vars

\* A row nobody works for is never written again.
LEMMA UnownedRowKept ==
    ASSUME TypeInv, FlightInv, [Next]_vars, NEW n \in DOMAIN attempts,
           \A w \in Workers : task[w].pc \in Owning => task[w].attempt_no # n
    PROVE  n \in DOMAIN attempts' /\ attempts'[n] = attempts[n]
<1>1. ASSUME NEW w \in Workers, RecordOutcome(w) \/ resolve_not_sent(w)
      PROVE  n \in DOMAIN attempts' /\ attempts'[n] = attempts[n]
    <2>1. task[w].attempt_no # n
        BY <1>1 DEF RecordOutcome, resolve_not_sent, Owning
    <2>2. \/ UNCHANGED attempts
          \/ \E row : attempts' = [attempts EXCEPT ![task[w].attempt_no] = row]
        BY <1>1, RecordSplit, NotSentSplit
    <2> QED BY <2>1, <2>2
<1>2. ASSUME NEW w \in Workers, WriteAhead(w)
      PROVE  n \in DOMAIN attempts' /\ attempts'[n] = attempts[n]
    <2>1. CASE task[w].attempt_no \in DOMAIN attempts
        BY <1>2, <2>1 DEF WriteAhead
    <2>2. CASE task[w].attempt_no \notin DOMAIN attempts
        BY <1>2, <2>2, InsertedRow
    <2> QED BY <2>1, <2>2
<1>3. ASSUME NEW w \in Workers,
             \/ DispatchGate(w) \/ AdapterPost(w) \/ ConnectFails(w) \/ AnswerUnknown(w)
             \/ PostRaises(w) \/ run_due_once(w) \/ attempt_one(w)
             \/ retry_or_dead_letter(w) \/ dead_letter_rejection(w) \/ Replay(w)
             \/ ReconcilePass(w) \/ Crash(w)
      PROVE  UNCHANGED attempts
    BY <1>3 DEF DispatchGate, AdapterPost, ConnectFails, AnswerUnknown, PostRaises,
        run_due_once, attempt_one, retry_or_dead_letter, dead_letter_rejection, Replay,
        replay_dead_letter, close_entry, ReconcilePass, reconcile_once,
        get_by_operation_id, reconcile_by_query, open_item, Crash, rowVars
<1>4. Operator \/ Ledger \/ Tick \/ UNCHANGED vars => UNCHANGED attempts
    BY DEF Operator, resolve_item, Ledger, LedgerTakes, DropRequest, Tick, vars, rowVars
<1> QED BY <1>1, <1>2, <1>3, <1>4 DEF Next, Dispatch, RetryPass

\* An operation once stuck stays so: its row is never resolved and never taken up.
LEMMA StuckKept ==
    ASSUME TypeInv, FlightInv, [Next]_vars, Stuck
    PROVE  Stuck'
<1>1. PICK n \in DOMAIN attempts :
        /\ attempts[n].outcome \notin Retryable
        /\ \A w \in Workers : task[w].pc \in Owning => task[w].attempt_no # n
    BY DEF Stuck
<1>2. n \in DOMAIN attempts' /\ attempts'[n].outcome \notin Retryable
    BY <1>1, UnownedRowKept
<1>3. ASSUME NEW v \in Workers, task'[v].pc \in Owning PROVE task'[v].attempt_no # n
    <2>1. Led(v)
        BY EveryWorkerLed
    <2> QED BY <1>1, <1>3, <2>1 DEF Led, Owning
<1> QED BY <1>2, <1>3 DEF Stuck

\* A dead letter takes the row out of retry work.
LEMMA LetterCloses ==
    ASSUME TypeInv, [Next]_vars, SendInv
    PROVE  dlq' # NULL => outbox'.state # "pending"
<1> SUFFICES ASSUME dlq' # NULL, outbox'.state = "pending" PROVE FALSE
    OBVIOUS
<1>1. outbox.state = "pending" /\ dlq = NULL
    BY RetryWorkBefore DEF SendInv
<1>2. ASSUME NEW reason, dead_letter(reason, TRUE) PROVE FALSE
    <2>1. outbox' = [outbox EXCEPT !.state = "dead_lettered"]
        BY <1>1, <1>2 DEF dead_letter
    <2>2. outbox'.state = "dead_lettered"
        BY <2>1 DEF TypeInv, TypeOK, RowsTyped, Outbox
    <2> QED BY <2>2
<1>3. ASSUME NEW w \in Workers, retry_or_dead_letter(w) PROVE FALSE
    <2>1. dlq' = dlq \/ \E reason : dead_letter(reason, TRUE)
        BY <1>3 DEF retry_or_dead_letter
    <2> QED BY <1>1, <1>2, <2>1
<1>4. ASSUME NEW w \in Workers, dead_letter_rejection(w) PROVE FALSE
    BY <1>1, <1>4 DEF dead_letter_rejection, SendInv
<1>5. ASSUME NEW w \in Workers, close_entry(w) PROVE FALSE
    BY <1>1, <1>5 DEF close_entry, TypeInv, TaskFits
<1>6. ASSUME NEW w \in Workers,
             \/ Dispatch(w) \/ run_due_once(w) \/ attempt_one(w) \/ resolve_not_sent(w)
             \/ replay_dead_letter(w) \/ ReconcilePass(w) \/ Crash(w)
      PROVE  FALSE
    BY <1>1, <1>6 DEF Dispatch, DispatchGate, WriteAhead, AdapterPost, ConnectFails,
        AnswerUnknown, PostRaises, RecordOutcome, run_due_once, attempt_one,
        resolve_not_sent, replay_dead_letter, ReconcilePass, reconcile_once,
        get_by_operation_id, reconcile_by_query, open_item, Crash, rowVars
<1>7. CASE Operator \/ Ledger \/ Tick \/ UNCHANGED vars
    BY <1>1, <1>7 DEF Operator, resolve_item, Ledger, LedgerTakes, DropRequest, Tick,
        vars, rowVars
<1> QED BY <1>3, <1>4, <1>5, <1>6, <1>7 DEF Next, RetryPass, Replay

\* Once the row is no retry work any more, or has its letter, no further pass is able.
LEMMA AbleFewer ==
    ASSUME TypeInv, [Next]_vars, dlq # NULL => outbox.state # "pending",
           outbox'.state # "pending" \/ dlq' # NULL
    PROVE  Able' \subseteq Able
<1> SUFFICES ASSUME NEW v \in Workers, task'[v].job = "retry",
                    task'[v].pc \in {"gate", "write"}
             PROVE  v \in Able
    BY DEF Able
<1>1. Led(v)
    BY EveryWorkerLed
<1>2. ~(attempt_one(v) /\ outbox.state = "pending")
    BY DEF attempt_one, rowVars
<1> QED BY <1>1, <1>2 DEF Led, Able, Owning

\* What OpenRoom says, as a formula of one state.
OpenFits ==
    outbox.state = "pending" /\ dlq = NULL /\ ~Stuck
        => Len(attempts) + Cardinality(Able) <= Room

\* The counts are numbers, and deaths are only ever added.
LEMMA RoomTyped ==
    ASSUME TypeInv, TypeInv', [Next]_vars
    PROVE  /\ Len(attempts) \in Nat /\ Len(attempts') \in Nat
           /\ Room \in Int /\ Room' \in Int /\ Room' >= Room
           /\ Cardinality(Able) \in Nat /\ Cardinality(Able') \in Nat
           /\ Able' \subseteq Able => Cardinality(Able') <= Cardinality(Able)
<1>1. crashes' = crashes \/ crashes' = crashes + 1
    <2>1. ASSUME NEW w \in Workers,
                 Dispatch(w) \/ RetryPass(w) \/ Replay(w) \/ ReconcilePass(w)
          PROVE  crashes' = crashes
        BY <2>1 DEF Dispatch, DispatchGate, WriteAhead, AdapterPost, ConnectFails,
            AnswerUnknown, PostRaises, RecordOutcome, RetryPass, run_due_once, attempt_one,
            resolve_not_sent, retry_or_dead_letter, dead_letter_rejection, Replay,
            replay_dead_letter, close_entry, ReconcilePass, reconcile_once,
            get_by_operation_id, reconcile_by_query, open_item
    <2>2. ASSUME NEW w \in Workers, Crash(w) PROVE crashes' = crashes + 1
        BY <2>2 DEF Crash
    <2>3. Operator \/ Ledger \/ Tick \/ UNCHANGED vars => crashes' = crashes
        BY DEF Operator, resolve_item, Ledger, LedgerTakes, DropRequest, Tick, vars
    <2> QED BY <2>1, <2>2, <2>3 DEF Next
<1>2. /\ Len(attempts) \in Nat /\ crashes \in Nat /\ MaxAttempts \in Nat
      /\ Cardinality(Able) \in Nat /\ Cardinality(Workers) \in Nat
    BY NumbersInRange, PolicyAssumption, WorkersShared DEF TypeInv, TypeOK, LedgerTyped
<1> DEFINE c == Cardinality(Workers)
<1>3. Room = MaxAttempts + (c - 1) + crashes /\ Room' = MaxAttempts + (c - 1) + crashes'
    BY DEF Room
<1>4. c \in Nat
    BY <1>2
<1>5. Len(attempts') \in Nat
    BY DEF TypeInv, TypeOK, RowsTyped
<1>6. IsFiniteSet(Able) /\ IsFiniteSet(Able')
    BY WorkersAssumption, FS_Subset DEF Able
<1>7. Cardinality(Able') \in Nat
    BY <1>6, FS_CardinalityType
<1>8. Able' \subseteq Able => Cardinality(Able') <= Cardinality(Able)
    BY <1>6, FS_Subset
<1>9. Room \in Int /\ Room' \in Int /\ Room' >= Room
    <2> HIDE DEF c
    <2> QED BY <1>1, <1>2, <1>3, <1>4
<1> QED BY <1>2, <1>5, <1>7, <1>8, <1>9

\* An insertion: by a pass that was able and no longer is, or by a replay that is
\* counted; and behind turned-away attempts only.
LEMMA InsertionPaid ==
    ASSUME TypeInv, FlightInv, SerialInv, LetterInv, SendInv, [CountedNext]_countedVars,
           NEW w \in Workers, WriteAhead(w), task[w].attempt_no \notin DOMAIN attempts
    PROVE  /\ Len(attempts') = Len(attempts) + 1 /\ ~Stuck
           /\ \/ replayed' = replayed + 1
              \/ /\ w \in Able /\ replayed' = replayed
                 /\ Able' \subseteq Able => Cardinality(Able') + 1 <= Cardinality(Able)
<1>1. /\ Len(attempts) \in Nat /\ Len(attempts') = Len(attempts) + 1
      /\ task[w].attempt_no = Len(attempts) + 1 /\ task[w].pc = "write"
    BY InsertedRow DEF WriteAhead
<1>2. ~Stuck
    BY <1>1 DEF SerialInv, WriteFresh, Stuck
<1>3. task'[w].pc = "post"
    <2>1. task'[w] = [task[w] EXCEPT !.pc = "post"]
        BY BecomeTask DEF WriteAhead, Goto
    <2> QED BY <2>1 DEF TypeInv, TaskFits, Task
<1>4. task[w].job \in {"retry", "replay"}
    <2>1. task[w].job \in {"none", "retry", "replay", "reconcile"}
        BY DEF TypeInv, TaskFits, Task
    <2>2. task[w].job \notin {"none", "reconcile"}
        BY <1>1 DEF LetterInv, JobFits
    <2> QED BY <2>1, <2>2
<1>5. CountedNext
    <2>1. attempts' # attempts
        BY <1>1
    <2> QED BY <2>1 DEF countedVars, vars, rowVars
<1>6. CASE task[w].job = "replay"
    BY <1>1, <1>2, <1>3, <1>5, <1>6 DEF CountedNext, ReplaySends
<1>7. CASE task[w].job = "retry"
    <2>1. w \in Able /\ w \notin Able'
        BY <1>1, <1>3, <1>7 DEF Able
    <2>2. replayed' = replayed \/ replayed' = replayed + 1
        BY <1>5 DEF CountedNext
    <2>3. ASSUME Able' \subseteq Able PROVE Cardinality(Able') + 1 <= Cardinality(Able)
        <3> DEFINE More == Able' \cup {w}
        <3>1. IsFiniteSet(Able) /\ More \subseteq Able
            BY <2>1, <2>3, WorkersAssumption, FS_Subset DEF Able
        <3>2. IsFiniteSet(More) /\ Cardinality(More) <= Cardinality(Able)
            <4> HIDE DEF More
            <4> QED BY <3>1, FS_Subset
        <3>3. IsFiniteSet(Able')
            BY <2>3, <3>1, FS_Subset
        <3>4. Cardinality(More) = Cardinality(Able') + 1
            BY <2>1, <3>3, FS_AddElement
        <3> QED BY <3>2, <3>4
    <2> QED BY <1>1, <1>2, <2>1, <2>2, <2>3
<1> QED BY <1>4, <1>6, <1>7

\* Every step of the control plane keeps SendInv.
LEMMA SendInvNext ==
    /\ TypeInv /\ TypeInv' /\ FlightInv /\ SerialInv /\ LetterInv /\ SendInv /\ OpenFits'
    /\ [CountedNext]_countedVars
    => SendInv'
<1> SUFFICES ASSUME TypeInv, TypeInv', FlightInv, SerialInv, LetterInv, SendInv,
                    OpenFits', [CountedNext]_countedVars
             PROVE  SendInv'
    OBVIOUS
<1> DEFINE l == Len(attempts)
           a == Cardinality(Able)
           s == Room + replayed
           l2 == Len(attempts')
           a2 == Cardinality(Able')
           s2 == Room' + replayed'
<1>1. [Next]_vars
    BY DEF CountedNext, countedVars
<1>2. /\ replayed \in Nat /\ replayed' \in Nat /\ replayed' >= replayed
    <2>1. replayed' = replayed \/ replayed' = replayed + 1
        BY DEF CountedNext, countedVars
    <2> QED BY <2>1 DEF SendInv
<1>3. /\ l \in Nat /\ a \in Nat /\ l2 \in Nat /\ a2 \in Nat
      /\ Able' \subseteq Able => a2 <= a
    BY <1>1, RoomTyped
<1>4. /\ s \in Int /\ s2 \in Int /\ s <= s2 /\ Room' <= s2
      /\ replayed' = replayed + 1 => s + 1 <= s2
    <2> DEFINE r == Room
               r2 == Room'
               p == replayed
               p2 == replayed'
    <2>1. r \in Int /\ r2 \in Int /\ r2 >= r
        BY <1>1, RoomTyped
    <2>2. p \in Nat /\ p2 \in Nat /\ p2 >= p
        BY <1>2
    <2> HIDE DEF r, r2, p, p2
    <2>3. /\ r + p \in Int /\ r2 + p2 \in Int /\ r + p <= r2 + p2 /\ r2 <= r2 + p2
          /\ p2 = p + 1 => (r + p) + 1 <= r2 + p2
        BY <2>1, <2>2
    <2> QED BY <2>3 DEF r, r2, p, p2
<1>5. \A w \in Workers : task'[w].pc = "bury" => outbox'.state = "settled"
    <2> SUFFICES ASSUME NEW w \in Workers, task'[w].pc = "bury"
                 PROVE  outbox'.state = "settled"
        OBVIOUS
    <2>1. Led(w) /\ OutboxStep
        BY <1>1, EveryWorkerLed, OutboxStepNext
    <2>2. CASE task'[w] = task[w]
        BY <2>1, <2>2 DEF SendInv, OutboxStep, OutboxPermits
    <2> QED BY <2>1, <2>2 DEF Led, Owning
<1>6. dlq' # NULL => outbox'.state # "pending"
    BY <1>1, LetterCloses
<1>7. l <= s /\ (~Stuck => l + a <= s)
    BY DEF SendInv
<1>8. ASSUME ~Stuck' PROVE ~Stuck
    BY <1>1, <1>8, StuckKept
<1>9. ASSUME NEW w \in Workers, WriteAhead(w), task[w].attempt_no \notin DOMAIN attempts
      PROVE  l2 <= s2 /\ (~Stuck' /\ Able' \subseteq Able => l2 + a2 <= s2)
    <2>1. /\ l2 = l + 1 /\ ~Stuck
          /\ \/ replayed' = replayed + 1
             \/ w \in Able /\ (Able' \subseteq Able => a2 + 1 <= a)
        BY <1>9, InsertionPaid
    <2>2. w \in Able => a # 0
        <3>1. IsFiniteSet(Able)
            BY WorkersAssumption, FS_Subset DEF Able
        <3> QED BY <3>1, FS_EmptySet
    <2>3. l + a <= s
        BY <1>7, <2>1
    <2> HIDE DEF l, a, s, l2, a2, s2
    <2>4. CASE replayed' = replayed + 1
        <3>1. s + 1 <= s2
            BY <1>4, <2>4
        <3>2. l2 <= s2
            BY <1>3, <1>4, <2>1, <2>3, <3>1
        <3>3. ASSUME a2 <= a PROVE l2 + a2 <= s2
            BY <1>3, <1>4, <2>1, <2>3, <3>1, <3>3
        <3> QED BY <1>3, <3>2, <3>3
    <2>5. CASE w \in Able /\ (Able' \subseteq Able => a2 + 1 <= a)
        <3>1. l2 <= s2
            BY <1>3, <1>4, <2>1, <2>2, <2>3, <2>5
        <3>2. ASSUME a2 + 1 <= a PROVE l2 + a2 <= s2
            BY <1>3, <1>4, <2>1, <2>3, <3>2
        <3> QED BY <2>5, <3>1, <3>2
    <2> QED BY <2>1, <2>4, <2>5
<1>10. ASSUME DOMAIN attempts' = DOMAIN attempts
       PROVE  l2 <= s2 /\ (~Stuck' /\ Able' \subseteq Able => l2 + a2 <= s2)
    <2>1. l2 = l
        BY <1>10, NumbersInRange, <1>3 DEF TypeInv, TypeOK, RowsTyped
    <2> HIDE DEF l, a, s, l2, a2, s2
    <2>2. l2 <= s2
        BY <1>3, <1>4, <1>7, <2>1
    <2>3. ASSUME ~Stuck, a2 <= a PROVE l2 + a2 <= s2
        BY <1>3, <1>4, <1>7, <2>1, <2>3
    <2> QED BY <1>3, <1>8, <2>2, <2>3
<1>11. l2 <= s2 /\ (~Stuck' /\ Able' \subseteq Able => l2 + a2 <= s2)
    BY <1>1, <1>9, <1>10, InsertedOrKept
<1>12. ASSUME ~Stuck' PROVE l2 + a2 <= s2
    <2>1. CASE outbox'.state = "pending" /\ dlq' = NULL
        <3>1. l2 + a2 <= Room' /\ Room' \in Int
            BY <1>1, <1>12, <2>1, RoomTyped DEF OpenFits
        <3> HIDE DEF l, a, s, l2, a2, s2
        <3> QED BY <1>3, <1>4, <3>1
    <2>2. CASE outbox'.state # "pending" \/ dlq' # NULL
        <3>1. Able' \subseteq Able
            BY <1>1, <2>2, AbleFewer DEF SendInv
        <3> QED BY <1>11, <1>12, <3>1
    <2> QED BY <2>1, <2>2
<1> QED BY <1>2, <1>5, <1>6, <1>11, <1>12 DEF SendInv

\* The number of times a financial write is offered to the ledger is bounded, for any
\* number of workers and under every interleaving: by the ceiling, and by one more for
\* each further worker, each death of a process and each replay.
THEOREM SendsAreWithinBudget == CountedSpec => []SendsWithinBudget
<1>1. CASE suppresses_duplicates
    <2>1. SendsWithinBudget
        BY <1>1 DEF SendsWithinBudget
    <2> QED BY <2>1, PTL
<1>2. CASE ~suppresses_duplicates
    <2>1. Init => LetterInv /\ BudgetInv
        <3> SUFFICES ASSUME Init PROVE LetterInv /\ BudgetInv
            OBVIOUS
        <3>1. /\ \A w \in Workers : task[w].pc = "idle"
              /\ attempts = <<>> /\ crashes = 0 /\ outbox.state = "pending"
            BY DEF Init, IdleTask
        <3>2. Uncounted = {}
            BY <3>1 DEF Uncounted
        <3>3. Cardinality(Uncounted) = 0
            BY <3>2, FS_EmptySet
        <3> QED BY <3>1, <3>3 DEF LetterInv, JobFits, Rejection, BudgetInv
    <2>2. CountedInit => SendInv
        <3> SUFFICES ASSUME CountedInit PROVE SendInv
            OBVIOUS
        <3>1. /\ \A w \in Workers : task[w].pc = "idle"
              /\ Len(attempts) = 0 /\ crashes = 0 /\ dlq = NULL /\ replayed = 0
            BY DEF CountedInit, Init, IdleTask
        <3>2. Able = {}
            BY <3>1 DEF Able
        <3>3. Cardinality(Able) = 0
            BY <3>2, FS_EmptySet
        <3>4. Cardinality(Workers) \in Nat /\ MaxAttempts \in Nat \ {0}
            BY WorkersShared, PolicyAssumption
        <3> DEFINE c == Cardinality(Workers)
        <3>5. Room = MaxAttempts + (c - 1) + crashes
            BY DEF Room
        <3>6. c \in Nat
            BY <3>4
        <3>7. 0 <= Room /\ Room \in Int
            <4> HIDE DEF c
            <4> QED BY <3>1, <3>4, <3>5, <3>6
        <3>8. /\ replayed \in Nat /\ Len(attempts) <= Room + replayed
              /\ Len(attempts) + Cardinality(Able) <= Room + replayed
            BY <3>1, <3>3, <3>7
        <3> QED BY <3>1, <3>8 DEF SendInv
    <2>3. TypeInv /\ FlightInv /\ LetterInv /\ [Next]_vars => LetterInv'
        BY <1>2, LetterNext
    <2>4. TypeInv /\ TypeInv' /\ FlightInv /\ LetterInv /\ BudgetInv /\ [Next]_vars => BudgetInv'
        BY <1>2, BudgetNext
    <2>5. TypeInv /\ SerialInv /\ BudgetInv => OpenFits
        BY OpenRoom DEF OpenFits
    <2>6. /\ TypeInv /\ TypeInv' /\ FlightInv /\ SerialInv /\ LetterInv /\ SendInv /\ OpenFits'
          /\ [CountedNext]_countedVars
          => SendInv'
        BY SendInvNext
    <2>7. SendInv => SendsWithinBudget
        BY DEF SendInv, Room, SendsWithinBudget
    <2>8. CountedInit => Init
        BY DEF CountedInit
    <2>9. [CountedNext]_countedVars => [Next]_vars
        BY DEF CountedNext, countedVars
    <2>10. Spec => []SerialInv
        BY <1>2, SerialInvariant
    <2> QED BY <2>1, <2>2, <2>3, <2>4, <2>5, <2>6, <2>7, <2>8, <2>9, <2>10, TypeInvariant,
            FlightInvariant, PTL DEF Spec, CountedSpec
<1> QED BY <1>1, <1>2
===============================================================================
