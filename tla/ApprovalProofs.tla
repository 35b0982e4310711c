---------------------------- MODULE ApprovalProofs -----------------------------
(***************************************************************************)
(* The gate for any number of clients, principals, versions and tokens.    *)
(* GateInv strengthens the invariants the runs check: what each session    *)
(* holds, who waits for whom at the unique indexes, who holds the lock of  *)
(* an approval, and what is known of an operation nobody has judged.       *)
(***************************************************************************)
EXTENDS Approvals, TLAPS

\* What a session holds at the point where its next statement uses it.
TaskFits ==
    \A c \in Clients :
        /\ task[c].pc \in {"flush", "index", "commit"} => task[c].row \in Approval
        /\ task[c].pc = "enqueue" => /\ task[c].row \in approvals
                                     /\ task[c].instruction \in Adjustment
        /\ task[c].pc = "refused" => task[c].refused \in Refusal

TypeInv == TypeOK /\ TaskFits

-------------------------------------------------------------------------------
\* A step of an operation's life ends in a state of it (OperationLife.Successors).
LEMMA SuccessorsInLife ==
    ASSUME NEW l \in Life, NEW m \in Successors(l)
    PROVE  m \in Life
<1>1. CASE m \in WriteRow(l)
    BY <1>1 DEF WriteRow, Life
<1>2. CASE m \in OnTheWire(l)
    BY <1>2 DEF OnTheWire, Life
<1>3. CASE m \in Record(l)
    BY <1>3, OutcomesAssumption DEF Record, Life
<1>4. CASE m \in Conclude(l)
    BY <1>4, OutcomesAssumption DEF Conclude, Life
<1>5. CASE m \in Recover(l)
    BY <1>5, OutcomesAssumption DEF Recover, Life
<1>6. QED
    BY <1>1, <1>2, <1>3, <1>4, <1>5 DEF Successors

\* Writing one client's session leaves the others alone (Become).
LEMMA OneSession ==
    ASSUME TypeOK, NEW c \in Clients, NEW t, Become(c, t)
    PROVE  /\ task'[c] = t
           /\ \A d \in Clients : d # c => task'[d] = task[d]
BY DEF TypeOK, Become

LEMMA TypeInit == Init => TypeInv
BY DEF Init, TypeInv, TypeOK, TaskFits, IdleTask, Task

\* A step that writes one session and leaves the tables alone keeps the types.
LEMMA SessionFits ==
    ASSUME TypeInv, NEW c \in Clients, NEW t \in Task, Become(c, t),
           UNCHANGED <<approvals, adjustments, ops, audit>>,
           t.pc \in {"flush", "index", "commit"} => t.row \in Approval,
           t.pc = "enqueue" => t.row \in approvals /\ t.instruction \in Adjustment,
           t.pc = "refused" => t.refused \in Refusal
    PROVE  TypeInv'
<1>1. TypeOK'
    BY DEF TypeInv, TypeOK, Become
<1>2. TaskFits'
    BY OneSession DEF TypeInv, TaskFits
<1>3. QED
    BY <1>1, <1>2 DEF TypeInv

\* A refusal keeps the types: of the request, who asked for what is left.
LEMMA RefuseFits ==
    ASSUME TypeInv, NEW c \in Clients, NEW row \in Approval, Refuse(c, row),
           UNCHANGED <<approvals, adjustments, ops, audit>>
    PROVE  TypeInv'
<1> DEFINE t == [IdleTask EXCEPT !.pc = "refused",
        !.refused = [principal |-> row.principal, decision |-> row.decision]]
<1>1. t.pc = "refused" /\ t.refused \in Refusal /\ t \in Task
    BY DEF IdleTask, Refusal, Approval, Task
<1>2. Become(c, t)
    BY DEF Refuse
<1> HIDE DEF t
<1>3. QED
    BY <1>1, <1>2, SessionFits

\* TypeInv is inductive: one case per statement of the gate (Next).
LEMMA TypeStep == TypeInv /\ [Next]_vars => TypeInv'
<1> SUFFICES ASSUME TypeInv, [Next]_vars PROVE TypeInv'
    OBVIOUS
<1>1. CASE UNCHANGED vars
    BY <1>1 DEF TypeInv, TypeOK, TaskFits, vars
<1>2. ASSUME NEW c \in Clients, record_decision(c) PROVE TypeInv'
    <2>1. PICK row \in Approval :
            IF admitted(row) /\ ~supersession_is_blocked(row.version) /\ countersigned(row)
            THEN Become(c, [IdleTask EXCEPT !.pc = "flush", !.row = row])
            ELSE Refuse(c, row)
        BY <1>2 DEF record_decision
    <2>2. UNCHANGED <<approvals, adjustments, ops, audit>>
        BY <1>2 DEF record_decision
    <2>3. CASE Refuse(c, row)
        BY <2>2, <2>3, RefuseFits
    <2>4. CASE Become(c, [IdleTask EXCEPT !.pc = "flush", !.row = row])
        <3> DEFINE t == [IdleTask EXCEPT !.pc = "flush", !.row = row]
        <3>1. t \in Task /\ t.pc = "flush" /\ t.row \in Approval
            BY DEF IdleTask, Task
        <3>2. Become(c, t)
            BY <2>4
        <3> HIDE DEF t
        <3>3. QED
            BY <3>1, <3>2, <2>2, SessionFits
    <2>5. QED
        BY <2>1, <2>3, <2>4
<1>3. ASSUME NEW c \in Clients, flush(c) \/ index(c) PROVE TypeInv'
    <2>1. /\ task[c].row \in Approval
          /\ UNCHANGED <<approvals, adjustments, ops, audit>>
        BY <1>3 DEF flush, index, TypeInv, TaskFits
    <2>2. CASE Refuse(c, task[c].row)
        BY <2>1, <2>2, RefuseFits
    <2>3. ASSUME NEW pc \in {"index", "commit"}, Goto(c, pc) PROVE TypeInv'
        <3> DEFINE t == [task[c] EXCEPT !.pc = pc]
        <3>1. t \in Task /\ t.pc = pc /\ t.row \in Approval
            BY <2>1 DEF TypeInv, TypeOK, Task
        <3>2. Become(c, t)
            BY <2>3 DEF Goto
        <3> HIDE DEF t
        <3>3. QED
            BY <3>1, <3>2, <2>1, SessionFits
    <2>4. QED
        BY <1>3, <2>2, <2>3 DEF flush, index
<1>4. ASSUME NEW c \in Clients, commit(c) PROVE TypeInv'
    <2>1. task[c].row \in Approval
        BY <1>4 DEF commit, TypeInv, TaskFits
    <2>2. decided(task[c].row) \in AuditEvent
        BY <2>1 DEF decided, AuditEvent, Approval
    <2>3. Become(c, IdleTask) /\ IdleTask \in Task
        BY <1>4 DEF commit, Finish, IdleTask, Task
    <2>4. TypeOK'
        BY <1>4, <2>1, <2>2, <2>3 DEF commit, Become, TypeInv, TypeOK
    <2>5. TaskFits'
        BY <1>4, <2>3, OneSession DEF commit, TypeInv, TaskFits, IdleTask
    <2>6. QED
        BY <2>4, <2>5 DEF TypeInv
<1>5. ASSUME NEW c \in Clients, audit_refusal(c) PROVE TypeInv'
    <2>1. task[c].refused \in Refusal
        BY <1>5 DEF audit_refusal, TypeInv, TaskFits
    <2>2. refusal(task[c].refused) \in AuditEvent
        BY <2>1 DEF refusal, AuditEvent, Refusal
    <2>3. Become(c, IdleTask) /\ IdleTask \in Task
        BY <1>5 DEF audit_refusal, Finish, IdleTask, Task
    <2>4. TypeOK'
        BY <1>5, <2>2, <2>3 DEF audit_refusal, Become, TypeInv, TypeOK
    <2>5. TaskFits'
        BY <1>5, <2>3, OneSession DEF audit_refusal, TypeInv, TaskFits, IdleTask
    <2>6. QED
        BY <2>4, <2>5 DEF TypeInv
<1>6. ASSUME NEW c \in Clients, enqueue_posting(c) PROVE TypeInv'
    <2>1. PICK row \in approvals, i \in Adjustment :
            Become(c, [IdleTask EXCEPT !.pc = "enqueue", !.row = row, !.instruction = i])
        BY <1>6 DEF enqueue_posting
    <2> DEFINE t == [IdleTask EXCEPT !.pc = "enqueue", !.row = row, !.instruction = i]
    <2>2. t \in Task /\ t.pc = "enqueue" /\ t.row \in approvals /\ t.instruction \in Adjustment
        BY DEF IdleTask, Task, TypeInv, TypeOK
    <2>3. Become(c, t)
        BY <2>1
    <2> HIDE DEF t
    <2>4. QED
        BY <1>6, <2>2, <2>3, SessionFits DEF enqueue_posting
<1>7. ASSUME NEW c \in Clients, insert_posting(c) PROVE TypeInv'
    <2>1. task[c].instruction \in Adjustment
        BY <1>7 DEF insert_posting, TypeInv, TaskFits
    <2>2. Enqueued \in Life
        BY DEF Enqueued, Life
    <2>3. Become(c, IdleTask) /\ IdleTask \in Task
        BY <1>7 DEF insert_posting, Finish, IdleTask, Task
    <2>4. TypeOK'
        BY <1>7, <2>1, <2>2, <2>3 DEF insert_posting, Become, TypeInv, TypeOK, Adjustment
    <2>5. TaskFits'
        BY <1>7, <2>3, OneSession DEF insert_posting, TypeInv, TaskFits, IdleTask
    <2>6. QED
        BY <2>4, <2>5 DEF TypeInv
<1>8. ASSUME NEW c \in Clients, Crash(c) PROVE TypeInv'
    <2>1. Become(c, IdleTask) /\ IdleTask \in Task /\ IdleTask.pc = "idle"
        BY <1>8 DEF Crash, Finish, IdleTask, Task
    <2>2. QED
        BY <1>8, <2>1, SessionFits DEF Crash
<1>9. ASSUME NEW v \in Operated, operate(v) PROVE TypeInv'
    <2>1. v \in Versions /\ ops[v] \in Life
        BY <1>9, OperatedAssumption DEF operate, TypeInv, TypeOK
    <2>2. TypeOK'
        BY <1>9, <2>1, SuccessorsInLife DEF operate, TypeInv, TypeOK
    <2>3. QED
        BY <1>9, <2>2 DEF operate, TypeInv, TaskFits
<1>10. QED
    BY <1>1, <1>2, <1>3, <1>4, <1>5, <1>6, <1>7, <1>8, <1>9 DEF Next, Decide

\* TypeInv always holds, and with it the type invariant of the run.
THEOREM GateTypes == Spec => []TypeInv
<1>1. QED
    BY TypeInit, TypeStep, PTL DEF Spec

\* Rows, operations, events and sessions stay in their sets (Approvals.TypeOK).
THEOREM GateTypeCorrect == Spec => []TypeOK
<1>1. TypeInv => TypeOK
    BY DEF TypeInv
<1>2. QED
    BY <1>1, GateTypes, PTL

-------------------------------------------------------------------------------
\* A request past its checks keeps what they found, an enqueuer what it compared.
SessionInv ==
    \A c \in Clients :
        /\ task[c].pc \in {"flush", "index", "commit"} =>
            admitted(task[c].row) /\ countersigned(task[c].row)
        /\ task[c].pc = "enqueue" => postable(task[c].row, task[c].instruction)

CommittedInv == \A row \in approvals : admitted(row) /\ countersigned(row)

\* A row past the unique indexes conflicts with nothing committed or about to be.
IndexInv ==
    \A c \in Clients : task[c].pc = "commit" =>
        /\ \A other \in approvals : ~conflicts(task[c].row, other)
        /\ \A d \in Clients :
            (task[d].pc = "commit" /\ d # c) => ~conflicts(task[c].row, task[d].row)

DecisionInv == SessionInv /\ CommittedInv /\ IndexInv /\ OneDecision

LEMMA DecisionInit == Init => DecisionInv
BY DEF Init, DecisionInv, SessionInv, CommittedInv, IndexInv, OneDecision, IdleTask

\* A step of one session that does not reach its commit and writes no decision.
LEMMA DecisionKept ==
    ASSUME TypeInv, DecisionInv, NEW c \in Clients, NEW t, Become(c, t),
           UNCHANGED approvals, t.pc # "commit",
           t.pc \in {"flush", "index"} => admitted(t.row) /\ countersigned(t.row),
           t.pc = "enqueue" => postable(t.row, t.instruction)
    PROVE  DecisionInv'
<1>1. /\ task'[c] = t
      /\ \A d \in Clients : d # c => task'[d] = task[d]
    BY OneSession DEF TypeInv
<1>2. SessionInv'
    BY <1>1 DEF DecisionInv, SessionInv
<1>3. IndexInv'
    BY <1>1 DEF DecisionInv, IndexInv
<1>4. CommittedInv' /\ OneDecision'
    BY DEF DecisionInv, CommittedInv, OneDecision
<1>5. QED
    BY <1>2, <1>3, <1>4 DEF DecisionInv

\* The rolled-back session holds neither a row nor a lock.
LEMMA DecisionRefused ==
    ASSUME TypeInv, DecisionInv, NEW c \in Clients, NEW row, Refuse(c, row),
           UNCHANGED approvals
    PROVE  DecisionInv'
<1> DEFINE t == [IdleTask EXCEPT !.pc = "refused",
        !.refused = [principal |-> row.principal, decision |-> row.decision]]
<1>1. t.pc = "refused" /\ Become(c, t)
    BY DEF Refuse, IdleTask
<1> HIDE DEF t
<1>2. QED
    BY <1>1, DecisionKept

LEMMA DecisionFinished ==
    ASSUME TypeInv, DecisionInv, NEW c \in Clients, Finish(c), UNCHANGED approvals
    PROVE  DecisionInv'
<1>1. IdleTask.pc = "idle" /\ Become(c, IdleTask)
    BY DEF Finish, IdleTask
<1>2. QED
    BY <1>1, DecisionKept

\* The unique indexes admit one row per version and token: one case per statement.
LEMMA DecisionStep == TypeInv /\ DecisionInv /\ [Next]_vars => DecisionInv'
<1> SUFFICES ASSUME TypeInv, DecisionInv, [Next]_vars PROVE DecisionInv'
    OBVIOUS
<1>1. CASE UNCHANGED vars
    BY <1>1 DEF DecisionInv, SessionInv, CommittedInv, IndexInv, OneDecision, vars
<1>2. ASSUME NEW c \in Clients, record_decision(c) PROVE DecisionInv'
    <2>1. PICK row \in Approval :
            IF admitted(row) /\ ~supersession_is_blocked(row.version) /\ countersigned(row)
            THEN Become(c, [IdleTask EXCEPT !.pc = "flush", !.row = row])
            ELSE Refuse(c, row)
        BY <1>2 DEF record_decision
    <2>2. UNCHANGED approvals
        BY <1>2 DEF record_decision
    <2>3. CASE Refuse(c, row)
        BY <2>2, <2>3, DecisionRefused
    <2>4. CASE admitted(row) /\ countersigned(row)
               /\ Become(c, [IdleTask EXCEPT !.pc = "flush", !.row = row])
        <3> DEFINE t == [IdleTask EXCEPT !.pc = "flush", !.row = row]
        <3>1. t.pc = "flush" /\ t.row = row
            BY DEF IdleTask
        <3>2. Become(c, t)
            BY <2>4
        <3> HIDE DEF t
        <3>3. QED
            BY <3>1, <3>2, <2>2, <2>4, DecisionKept
    <2>5. QED
        BY <2>1, <2>3, <2>4
<1>3. ASSUME NEW c \in Clients, flush(c) PROVE DecisionInv'
    <2>1. task[c].pc = "flush" /\ UNCHANGED approvals
        BY <1>3 DEF flush
    <2>2. CASE Goto(c, "index")
        <3> DEFINE t == [task[c] EXCEPT !.pc = "index"]
        <3>1. t.pc = "index" /\ t.row = task[c].row
            BY DEF TypeInv, TypeOK, Task
        <3>2. Become(c, t)
            BY <2>2 DEF Goto
        <3>3. admitted(task[c].row) /\ countersigned(task[c].row)
            BY <2>1 DEF DecisionInv, SessionInv
        <3> HIDE DEF t
        <3>4. QED
            BY <3>1, <3>2, <3>3, <2>1, DecisionKept
    <2>3. QED
        BY <1>3, <2>1, <2>2, DecisionRefused DEF flush
<1>4. ASSUME NEW c \in Clients, index(c) PROVE DecisionInv'
    <2>1. task[c].pc = "index" /\ UNCHANGED approvals
        BY <1>4 DEF index
    <2>2. CASE Goto(c, "commit")
        <3> DEFINE t == [task[c] EXCEPT !.pc = "commit"]
        <3>1. t.pc = "commit" /\ t.row = task[c].row
            BY DEF TypeInv, TypeOK, Task
        <3>2. Become(c, t)
            BY <2>2 DEF Goto
        <3> HIDE DEF t
        <3>3. /\ task'[c] = t
              /\ \A d \in Clients : d # c => task'[d] = task[d]
            BY <3>2, OneSession DEF TypeInv
        <3>4. admitted(task[c].row) /\ countersigned(task[c].row)
            BY <2>1 DEF DecisionInv, SessionInv
        <3>5. SessionInv'
            BY <3>1, <3>3, <3>4 DEF DecisionInv, SessionInv
        <3>6. task[c].pc # "refused" /\ task'[c].pc # "refused"
            BY <2>1, <3>1, <3>3
        <3>7. ~Refuse(c, task[c].row)
            <4>1. ASSUME Refuse(c, task[c].row) PROVE FALSE
                <5> DEFINE r == [IdleTask EXCEPT !.pc = "refused",
                        !.refused = [principal |-> task[c].row.principal,
                                     decision |-> task[c].row.decision]]
                <5>1. r.pc = "refused" /\ Become(c, r)
                    BY <4>1 DEF Refuse, IdleTask
                <5> HIDE DEF r
                <5>2. QED
                    BY <5>1, <3>6, OneSession DEF TypeInv
            <4>2. QED
                BY <4>1
        <3>8. /\ \A other \in approvals : ~conflicts(task[c].row, other)
              /\ \A d \in Clients : task[d].pc = "commit" => ~conflicts(task[c].row, task[d].row)
            BY <1>4, <3>7 DEF index
        <3>9. \A a, b : conflicts(a, b) => conflicts(b, a)
            BY DEF conflicts
        <3>10. IndexInv'
            BY <2>1, <3>1, <3>3, <3>8, <3>9 DEF DecisionInv, IndexInv
        <3>11. CommittedInv' /\ OneDecision'
            BY <2>1 DEF DecisionInv, CommittedInv, OneDecision
        <3>12. QED
            BY <3>5, <3>10, <3>11 DEF DecisionInv
    <2>3. QED
        BY <1>4, <2>1, <2>2, DecisionRefused DEF index
<1>5. ASSUME NEW c \in Clients, commit(c) PROVE DecisionInv'
    <2> DEFINE row == task[c].row
    <2>1. /\ task[c].pc = "commit" /\ approvals' = approvals \cup {row}
          /\ task'[c] = IdleTask
          /\ \A d \in Clients : d # c => task'[d] = task[d]
        BY <1>5, OneSession DEF commit, Finish, TypeInv
    <2>2. /\ admitted(row) /\ countersigned(row)
          /\ \A other \in approvals : ~conflicts(row, other) /\ ~conflicts(other, row)
          /\ \A d \in Clients : (task[d].pc = "commit" /\ d # c) =>
                ~conflicts(task[d].row, row)
        BY <2>1 DEF DecisionInv, SessionInv, IndexInv, conflicts
    <2>3. SessionInv'
        BY <2>1 DEF DecisionInv, SessionInv, IdleTask
    <2>4. CommittedInv'
        BY <2>1, <2>2 DEF DecisionInv, CommittedInv
    <2>5. IndexInv'
        BY <2>1, <2>2 DEF DecisionInv, IndexInv, IdleTask
    <2>6. OneDecision'
        BY <2>1, <2>2 DEF DecisionInv, OneDecision
    <2>7. QED
        BY <2>3, <2>4, <2>5, <2>6 DEF DecisionInv
<1>6. ASSUME NEW c \in Clients, audit_refusal(c) \/ insert_posting(c) \/ Crash(c)
      PROVE  DecisionInv'
    BY <1>6, DecisionFinished DEF audit_refusal, insert_posting, Crash
<1>7. ASSUME NEW c \in Clients, enqueue_posting(c) PROVE DecisionInv'
    <2>1. PICK row \in approvals, i \in Adjustment :
            /\ postable(row, i)
            /\ Become(c, [IdleTask EXCEPT !.pc = "enqueue", !.row = row, !.instruction = i])
        BY <1>7 DEF enqueue_posting
    <2> DEFINE t == [IdleTask EXCEPT !.pc = "enqueue", !.row = row, !.instruction = i]
    <2>2. t.pc = "enqueue" /\ t.row = row /\ t.instruction = i
        BY DEF IdleTask
    <2>3. Become(c, t)
        BY <2>1
    <2> HIDE DEF t
    <2>4. QED
        BY <1>7, <2>1, <2>2, <2>3, DecisionKept DEF enqueue_posting
<1>8. ASSUME NEW v \in Operated, operate(v) PROVE DecisionInv'
    BY <1>8 DEF operate, DecisionInv, SessionInv, CommittedInv, IndexInv, OneDecision
<1>9. QED
    BY <1>1, <1>2, <1>3, <1>4, <1>5, <1>6, <1>7, <1>8 DEF Next, Decide

\* What the checks and the unique indexes establish holds of every reachable state.
THEOREM DecisionInvariant == Spec => []DecisionInv
<1>1. QED
    BY TypeInit, TypeStep, DecisionInit, DecisionStep, PTL DEF Spec

\* No two decisions share a version or a token (Approvals.OneDecision).
THEOREM DecidedOnce == Spec => []OneDecision
<1>1. DecisionInv => OneDecision
    BY DEF DecisionInv
<1>2. QED
    BY <1>1, DecisionInvariant, PTL

-------------------------------------------------------------------------------
\* One enqueuer per approval: the row lock of record_operation.
LockInv ==
    \A c, d \in Clients :
        (task[c].pc = "enqueue" /\ task[d].pc = "enqueue" /\ task[c].row = task[d].row) => c = d

PostedInv == \A a \in adjustments : \E row \in approvals : postable(row, a)

EnqueueInv == LockInv /\ PostedInv /\ NoIntegrityError /\ IntentWithOperation

LEMMA EnqueueInit == Init => EnqueueInv
BY DEF Init, EnqueueInv, LockInv, PostedInv, NoIntegrityError, IntentWithOperation,
       IdleTask, existing

\* A step of one session that takes no lock and writes no operation.
LEMMA EnqueueKept ==
    ASSUME TypeInv, EnqueueInv, NEW c \in Clients, NEW t, Become(c, t),
           t.pc # "enqueue", approvals \subseteq approvals',
           UNCHANGED <<adjustments, ops>>
    PROVE  EnqueueInv'
<1>1. /\ task'[c] = t
      /\ \A d \in Clients : d # c => task'[d] = task[d]
    BY OneSession DEF TypeInv
<1>2. LockInv'
    BY <1>1 DEF EnqueueInv, LockInv
<1>3. NoIntegrityError'
    BY <1>1 DEF EnqueueInv, NoIntegrityError, existing
<1>4. PostedInv' /\ IntentWithOperation'
    BY DEF EnqueueInv, PostedInv, IntentWithOperation, existing
<1>5. QED
    BY <1>2, <1>3, <1>4 DEF EnqueueInv

LEMMA EnqueueRefused ==
    ASSUME TypeInv, EnqueueInv, NEW c \in Clients, NEW row, Refuse(c, row),
           UNCHANGED <<approvals, adjustments, ops>>
    PROVE  EnqueueInv'
<1> DEFINE t == [IdleTask EXCEPT !.pc = "refused",
        !.refused = [principal |-> row.principal, decision |-> row.decision]]
<1>1. t.pc = "refused" /\ Become(c, t)
    BY DEF Refuse, IdleTask
<1> HIDE DEF t
<1>2. QED
    BY <1>1, EnqueueKept

\* An operation and its intent appear together, once, under the approval's lock.
LEMMA EnqueueStep == TypeInv /\ DecisionInv /\ EnqueueInv /\ [Next]_vars => EnqueueInv'
<1> SUFFICES ASSUME TypeInv, DecisionInv, EnqueueInv, [Next]_vars PROVE EnqueueInv'
    OBVIOUS
<1>1. CASE UNCHANGED vars
    BY <1>1 DEF EnqueueInv, LockInv, PostedInv, NoIntegrityError, IntentWithOperation,
                existing, vars
<1>2. ASSUME NEW c \in Clients, record_decision(c) PROVE EnqueueInv'
    <2>1. PICK row \in Approval :
            \/ Become(c, [IdleTask EXCEPT !.pc = "flush", !.row = row])
            \/ Refuse(c, row)
        BY <1>2 DEF record_decision
    <2>2. UNCHANGED <<approvals, adjustments, ops>>
        BY <1>2 DEF record_decision
    <2>3. CASE Become(c, [IdleTask EXCEPT !.pc = "flush", !.row = row])
        <3> DEFINE t == [IdleTask EXCEPT !.pc = "flush", !.row = row]
        <3>1. t.pc = "flush" /\ Become(c, t)
            BY <2>3 DEF IdleTask
        <3> HIDE DEF t
        <3>2. QED
            BY <3>1, <2>2, EnqueueKept
    <2>4. QED
        BY <2>1, <2>2, <2>3, EnqueueRefused
<1>3. ASSUME NEW c \in Clients, flush(c) \/ index(c) PROVE EnqueueInv'
    <2>1. UNCHANGED <<approvals, adjustments, ops>>
        BY <1>3 DEF flush, index
    <2>2. ASSUME NEW pc \in {"index", "commit"}, Goto(c, pc) PROVE EnqueueInv'
        <3> DEFINE t == [task[c] EXCEPT !.pc = pc]
        <3>1. t.pc # "enqueue"
            BY DEF TypeInv, TypeOK, Task
        <3>2. Become(c, t)
            BY <2>2 DEF Goto
        <3> HIDE DEF t
        <3>3. QED
            BY <3>1, <3>2, <2>1, EnqueueKept
    <2>3. QED
        BY <1>3, <2>1, <2>2, EnqueueRefused DEF flush, index
<1>4. ASSUME NEW c \in Clients, commit(c) \/ audit_refusal(c) \/ Crash(c) PROVE EnqueueInv'
    <2>1. IdleTask.pc = "idle" /\ Become(c, IdleTask)
        BY <1>4 DEF commit, audit_refusal, Crash, Finish, IdleTask
    <2>2. approvals \subseteq approvals' /\ UNCHANGED <<adjustments, ops>>
        BY <1>4 DEF commit, audit_refusal, Crash
    <2>3. QED
        BY <2>1, <2>2, EnqueueKept
<1>5. ASSUME NEW c \in Clients, enqueue_posting(c) PROVE EnqueueInv'
    <2>1. PICK row \in approvals, i \in Adjustment :
            /\ \A d \in Clients : task[d].pc = "enqueue" => task[d].row # row
            /\ existing(row.version) = {}
            /\ Become(c, [IdleTask EXCEPT !.pc = "enqueue", !.row = row, !.instruction = i])
        BY <1>5 DEF enqueue_posting
    <2> DEFINE t == [IdleTask EXCEPT !.pc = "enqueue", !.row = row, !.instruction = i]
    <2>2. t.pc = "enqueue" /\ t.row = row
        BY DEF IdleTask
    <2>3. Become(c, t)
        BY <2>1
    <2> HIDE DEF t
    <2>4. /\ task'[c] = t
          /\ \A d \in Clients : d # c => task'[d] = task[d]
        BY <2>3, OneSession DEF TypeInv
    <2>5. UNCHANGED <<approvals, adjustments, ops>>
        BY <1>5 DEF enqueue_posting
    <2>6. LockInv'
        BY <2>1, <2>2, <2>4 DEF EnqueueInv, LockInv
    <2>7. NoIntegrityError'
        BY <2>1, <2>2, <2>4, <2>5 DEF EnqueueInv, NoIntegrityError, existing
    <2>8. PostedInv' /\ IntentWithOperation'
        BY <2>5 DEF EnqueueInv, PostedInv, IntentWithOperation, existing
    <2>9. QED
        BY <2>6, <2>7, <2>8 DEF EnqueueInv
<1>6. ASSUME NEW c \in Clients, insert_posting(c) PROVE EnqueueInv'
    <2> DEFINE i == task[c].instruction
               row == task[c].row
    <2>1. /\ task[c].pc = "enqueue" /\ row \in approvals /\ i \in Adjustment
          /\ postable(row, i) /\ i.version = row.version
        BY <1>6 DEF insert_posting, TypeInv, TaskFits, DecisionInv, SessionInv, postable
    <2>2. existing(i.version) = {}
        BY <2>1 DEF EnqueueInv, NoIntegrityError
    <2>3. /\ adjustments' = adjustments \cup {i}
          /\ ops' = [ops EXCEPT ![i.version] = Enqueued]
          /\ approvals' = approvals
        BY <1>6, <2>2 DEF insert_posting
    <2>4. /\ task'[c] = IdleTask /\ IdleTask.pc = "idle"
          /\ \A d \in Clients : d # c => task'[d] = task[d]
        BY <1>6, OneSession DEF insert_posting, Finish, TypeInv, IdleTask
    <2>5. LockInv'
        BY <2>4 DEF EnqueueInv, LockInv
    <2>6. PostedInv'
        BY <2>1, <2>3 DEF EnqueueInv, PostedInv
    <2>7. NoIntegrityError'
        <3>1. SUFFICES ASSUME NEW d \in Clients, (task[d].pc = "enqueue")'
                       PROVE  (existing(task[d].row.version) = {})'
            BY DEF NoIntegrityError
        <3>2. d # c /\ task'[d] = task[d]
            BY <2>4, <3>1
        <3>3. task[d].row \in approvals /\ existing(task[d].row.version) = {}
            BY <3>1, <3>2 DEF TypeInv, TaskFits, EnqueueInv, NoIntegrityError
        <3>4. task[d].row # row
            BY <2>1, <3>1, <3>2 DEF EnqueueInv, LockInv
        <3>5. task[d].row.version # i.version
            BY <2>1, <3>3, <3>4 DEF DecisionInv, OneDecision, conflicts
        <3>6. QED
            BY <2>3, <3>2, <3>3, <3>5 DEF existing
    <2>8. IntentWithOperation'
        <3>1. Enqueued # NULL
            <4>1. Enqueued \in Life
                BY DEF Enqueued, Life
            <4>2. QED
                BY <4>1, AbsentAssumption
        <3>2. i.version \in Versions
            BY <2>1 DEF Adjustment
        <3>3. QED
            BY <2>3, <3>1, <3>2 DEF EnqueueInv, IntentWithOperation, existing, TypeInv, TypeOK
    <2>9. QED
        BY <2>5, <2>6, <2>7, <2>8 DEF EnqueueInv
<1>7. ASSUME NEW v \in Operated, operate(v) PROVE EnqueueInv'
    <2>1. v \in Versions /\ ops[v] \in Life /\ ops[v] # NULL
        BY <1>7, OperatedAssumption DEF operate, TypeInv, TypeOK
    <2>2. PICK l \in Successors(ops[v]) : ops' = [ops EXCEPT ![v] = l]
        BY <1>7 DEF operate
    <2>3. l # NULL
        BY <2>1, <2>2, SuccessorsInLife, AbsentAssumption
    <2>4. UNCHANGED <<approvals, adjustments, task>>
        BY <1>7 DEF operate
    <2>5. IntentWithOperation'
        BY <2>1, <2>2, <2>3, <2>4 DEF EnqueueInv, IntentWithOperation, existing, TypeInv, TypeOK
    <2>6. QED
        BY <2>4, <2>5 DEF EnqueueInv, LockInv, PostedInv, NoIntegrityError, existing
<1>8. QED
    BY <1>1, <1>2, <1>3, <1>4, <1>5, <1>6, <1>7 DEF Next, Decide

\* What the row lock establishes holds of every reachable state.
THEOREM EnqueueInvariant == Spec => []EnqueueInv
<1>1. QED
    BY TypeInit, TypeStep, DecisionInit, DecisionStep, EnqueueInit, EnqueueStep, PTL DEF Spec

\* No enqueuer runs into the unique constraint (Approvals.NoIntegrityError).
THEOREM NoIntegrityErrors == Spec => []NoIntegrityError
<1>1. EnqueueInv => NoIntegrityError
    BY DEF EnqueueInv
<1>2. QED
    BY <1>1, EnqueueInvariant, PTL

\* An outbox row exactly for an operation recorded (Approvals.IntentWithOperation).
THEOREM IntentsWithOperations == Spec => []IntentWithOperation
<1>1. EnqueueInv => IntentWithOperation
    BY DEF EnqueueInv
<1>2. QED
    BY <1>1, EnqueueInvariant, PTL

\* Every posting stands on a decision of a controller for its treatment
\* (Approvals.AuthorisedPosting).
THEOREM PostingsAuthorised == Spec => []AuthorisedPosting
<1>1. DecisionInv /\ EnqueueInv => AuthorisedPosting
    <2>1. SUFFICES ASSUME DecisionInv, EnqueueInv, NEW a \in adjustments
                   PROVE  \E row \in approvals :
                            /\ row.version = a.version /\ row.treatment = a.treatment
                            /\ RoleOf[row.principal] = "controller"
                            /\ row.decision = "edited" =>
                                row.requested_by # NULL /\ row.requested_by # row.principal
                            /\ a.treatment # "escalate"
        BY DEF AuthorisedPosting
    <2>2. PICK row \in approvals : postable(row, a)
        BY <2>1 DEF EnqueueInv, PostedInv
    <2>3. admitted(row) /\ countersigned(row)
        BY <2>1 DEF DecisionInv, CommittedInv
    <2>4. QED
        BY <2>2, <2>3 DEF postable, admitted, countersigned, may_authorise, AUTHORISATION_ROLES
<1>2. QED
    BY <1>1, DecisionInvariant, EnqueueInvariant, PTL

-------------------------------------------------------------------------------
\* Of an operation that nobody has judged, that is not in flight and not ambiguous,
\* the recorded outcome tells whether the books moved.
Known(l) ==
    (l.item = "none" /\ ~l.in_flight /\ l.outcome \notin AMBIGUOUS) =>
        /\ l.books # "wire"
        /\ l.books = "moved" <=> l.outcome = "confirmed"

KnownInv == \A v \in Versions : ops[v] # NULL => Known(ops[v])

\* An operation that may pass the interlock got there by a record that was true, and
\* nothing but its own sender could still move the books.
LEMMA KnownStep ==
    ASSUME NEW l \in Life, Known(l), NEW m \in Successors(l)
    PROVE  Known(m)
<1>1. CASE m \in WriteRow(l)
    BY <1>1 DEF WriteRow, Life, Known
<1>2. CASE m \in OnTheWire(l)
    BY <1>2 DEF OnTheWire, Life, Known
<1>3. CASE m \in Record(l)
    BY <1>3, OutcomesAssumption
       DEF Record, Life, Known, Truthful, OutcomeCode, TERMINAL, AMBIGUOUS
<1>4. CASE m \in Conclude(l)
    BY <1>4 DEF Conclude, Life, Known, Truthful, TERMINAL, AMBIGUOUS
<1>5. CASE m \in Recover(l)
    BY <1>5 DEF Recover, Life, Known
<1>6. QED
    BY <1>1, <1>2, <1>3, <1>4, <1>5 DEF Successors

LEMMA KnownStepAll == TypeInv /\ KnownInv /\ [Next]_vars => KnownInv'
<1> SUFFICES ASSUME TypeInv, KnownInv, [Next]_vars PROVE KnownInv'
    OBVIOUS
<1>1. CASE UNCHANGED ops
    BY <1>1 DEF KnownInv
<1>2. ASSUME NEW c \in Clients, insert_posting(c) PROVE KnownInv'
    <2>1. Known(Enqueued)
        BY AbsentAssumption DEF Known, Enqueued, OutcomeCode, TERMINAL
    <2>2. task[c].instruction.version \in Versions
        BY <1>2 DEF insert_posting, TypeInv, TaskFits, Adjustment
    <2>3. QED
        BY <1>2, <2>1, <2>2 DEF insert_posting, KnownInv, TypeInv, TypeOK
<1>3. ASSUME NEW v \in Operated, operate(v) PROVE KnownInv'
    <2>1. v \in Versions /\ ops[v] \in Life /\ ops[v] # NULL
        BY <1>3, OperatedAssumption DEF operate, TypeInv, TypeOK
    <2>2. PICK l \in Successors(ops[v]) : ops' = [ops EXCEPT ![v] = l]
        BY <1>3 DEF operate
    <2>3. Known(l)
        BY <2>1, <2>2, KnownStep DEF KnownInv
    <2>4. QED
        BY <2>1, <2>2, <2>3 DEF KnownInv, TypeInv, TypeOK
<1>4. QED
    BY <1>1, <1>2, <1>3 DEF Next, Decide, vars, record_decision, flush, index, commit,
                            audit_refusal, enqueue_posting, Crash

\* What is not in flight, ambiguous or judged is known, in every reachable state.
THEOREM KnownInvariant == Spec => []KnownInv
<1>1. Init => KnownInv
    BY DEF Init, KnownInv
<1>2. QED
    BY <1>1, TypeInit, TypeStep, KnownStepAll, PTL DEF Spec

\* A step writes at most one session.
LEMMA OthersWait ==
    ASSUME TypeInv, NEW c \in Clients, NEW d \in Clients, d # c,
           Decide(c) \/ enqueue_posting(c) \/ insert_posting(c) \/ Crash(c)
    PROVE  task'[d] = task[d]
<1>1. PICK t : Become(c, t)
    BY DEF Decide, record_decision, flush, index, commit, audit_refusal, enqueue_posting,
           insert_posting, Crash, Refuse, Goto, Finish
<1>2. QED
    BY <1>1, OneSession DEF TypeInv

\* Only the trigger, and only while it finds nothing blocking, lets a row through.
LEMMA PassesByFlush ==
    ASSUME TypeInv, Next, NEW c \in Clients, task[c].pc = "flush", task'[c].pc = "index"
    PROVE  ~supersession_is_blocked(task[c].row.version)
<1>1. task'[c] # task[c]
    OBVIOUS
<1>2. Decide(c) \/ enqueue_posting(c) \/ insert_posting(c) \/ Crash(c)
    BY <1>1, OthersWait DEF Next, operate
<1>3. ~Crash(c)
    BY OneSession DEF Crash, Finish, IdleTask, TypeInv
<1>4. flush(c)
    BY <1>2, <1>3 DEF Decide, record_decision, index, commit, audit_refusal,
                      enqueue_posting, insert_posting
<1>5. ASSUME Refuse(c, task[c].row) PROVE FALSE
    <2> DEFINE r == [IdleTask EXCEPT !.pc = "refused",
            !.refused = [principal |-> task[c].row.principal,
                         decision |-> task[c].row.decision]]
    <2>1. r.pc = "refused" /\ Become(c, r)
        BY <1>5 DEF Refuse, IdleTask
    <2> HIDE DEF r
    <2>2. QED
        BY <2>1, OneSession DEF TypeInv
<1>6. QED
    BY <1>4, <1>5 DEF flush

\* What passes the interlock unjudged is known (Approvals.UnknownNotSuperseded).
THEOREM NothingUnknownSuperseded == Spec => UnknownNotSuperseded
<1> DEFINE Passes == \A c \in Clients :
        (task[c].pc = "flush" /\ task'[c].pc = "index") =>
            \A a \in adjustments : a.version < task[c].row.version =>
                LET l == ops[a.version] IN
                l.item = "none" => /\ l.books # "wire"
                                   /\ l.books = "moved" <=> l.outcome = "confirmed"
<1>1. TypeInv /\ EnqueueInv /\ KnownInv /\ [Next]_vars => [Passes]_vars
    <2> SUFFICES ASSUME TypeInv, EnqueueInv, KnownInv, Next,
                        NEW c \in Clients, task[c].pc = "flush", task'[c].pc = "index",
                        NEW a \in adjustments, a.version < task[c].row.version,
                        ops[a.version].item = "none"
                 PROVE  /\ ops[a.version].books # "wire"
                        /\ ops[a.version].books = "moved" <=>
                            ops[a.version].outcome = "confirmed"
        OBVIOUS
    <2>1. ~supersession_is_blocked(task[c].row.version)
        BY PassesByFlush
    <2>2. a.version \in Versions /\ ops[a.version] # NULL
        BY DEF TypeInv, TypeOK, Adjustment, EnqueueInv, IntentWithOperation, existing
    <2>3. ~blocked(ops[a.version]) /\ Known(ops[a.version])
        BY <2>1, <2>2 DEF supersession_is_blocked, KnownInv
    <2>4. QED
        BY <2>3 DEF blocked, Known
<1>2. QED
    BY <1>1, GateTypes, EnqueueInvariant, KnownInvariant, PTL DEF Spec, UnknownNotSuperseded

-------------------------------------------------------------------------------
\* Events of decisions come with their row and an entitled principal, events of
\* refusals claim no authority that is not held (Approvals.AuditTruthful).
THEOREM TrailIsTruthful == Spec => AuditTruthful
<1> DEFINE Tells(e) ==
        IF e.outcome = "success"
        THEN \E row \in approvals' \ approvals :
                /\ e.principal = row.principal /\ e.decision = row.decision
                /\ RoleOf[e.principal] # "operator"
                /\ e.decision # "rejected" => RoleOf[e.principal] = "controller"
        ELSE \E c \in Clients :
            LET r == task[c].refused
                role == RoleOf[r.principal]
            IN  /\ task[c].pc = "refused" /\ approvals' = approvals
                /\ e.principal = r.principal
                /\ e.scope = "approval" <=>
                       \/ role = "controller"
                       \/ role = "analyst" /\ r.decision = "rejected"
<1>1. TypeInv /\ DecisionInv /\ [Next]_vars => [\A e \in audit' \ audit : Tells(e)]_vars
    <2> SUFFICES ASSUME TypeInv, DecisionInv, Next, NEW e \in audit' \ audit
                 PROVE  Tells(e)
        OBVIOUS
    <2>1. PICK c \in Clients : commit(c) \/ audit_refusal(c)
        BY DEF Next, Decide, record_decision, flush, index, enqueue_posting, insert_posting,
               operate, Crash
    <2>2. CASE commit(c)
        <3> DEFINE row == task[c].row
        <3>1. /\ task[c].pc = "commit" /\ row \in Approval /\ e = decided(row)
              /\ approvals' = approvals \cup {row}
            BY <2>2 DEF commit, TypeInv, TaskFits
        <3>2. admitted(row) /\ row \notin approvals
            BY <3>1 DEF DecisionInv, SessionInv, IndexInv, conflicts
        <3>3. /\ RoleOf[row.principal] # "operator"
              /\ row.decision # "rejected" => RoleOf[row.principal] = "controller"
            BY <3>1, <3>2 DEF admitted, may_record_decision, may_authorise, DECISION_ROLES,
                AUTHORISATION_ROLES, authorises_a_posting, Approval, ApprovalDecision
        <3>4. e.outcome = "success" /\ e.principal = row.principal /\ e.decision = row.decision
            BY <3>1 DEF decided
        <3>5. row \in approvals' \ approvals
            BY <3>1, <3>2
        <3>6. QED
            BY <3>3, <3>4, <3>5
    <2>3. CASE audit_refusal(c)
        <3> DEFINE r == task[c].refused
        <3>1. /\ task[c].pc = "refused" /\ r \in Refusal /\ e = refusal(r)
              /\ approvals' = approvals
            BY <2>3 DEF audit_refusal, TypeInv, TaskFits
        <3>2. RoleOf[r.principal] \in Role /\ r.decision \in ApprovalDecision
            BY <3>1, RolesAssumption DEF Refusal
        <3>3. holds_the_authority_for(r.principal, r.decision) <=>
                \/ RoleOf[r.principal] = "controller"
                \/ RoleOf[r.principal] = "analyst" /\ r.decision = "rejected"
            BY <3>2 DEF holds_the_authority_for, may_record_decision, may_authorise,
                may_edit_treatment, DECISION_ROLES, AUTHORISATION_ROLES, EDIT_ROLES, Role,
                ApprovalDecision
        <3>4. /\ e.outcome = "failure" /\ e.principal = r.principal
              /\ e.scope = "approval" <=> holds_the_authority_for(r.principal, r.decision)
            BY <3>1 DEF refusal
        <3>5. QED
            BY <3>1, <3>3, <3>4
    <2>4. QED
        BY <2>1, <2>2, <2>3
<1>2. QED
    BY <1>1, GateTypes, DecisionInvariant, PTL DEF Spec, AuditTruthful
===============================================================================
