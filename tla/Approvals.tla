------------------------------- MODULE Approvals -------------------------------
(***************************************************************************)
(* The human gate and what follows it (operations/approval.py, the routes  *)
(* that call it, operations/service.py), for one exception: concurrent     *)
(* decision requests and enqueuers, statement by statement, over the       *)
(* operations of its resolution versions, each with a life of its own.     *)
(***************************************************************************)
EXTENDS OperationLife, Integers, FiniteSets

CONSTANTS
    Clients,        \* concurrent requests and enqueuers, one session each
    Principals,     \* registered principals
    RoleOf,         \* security.Principal.role
    Versions,       \* bound: resolution versions asked for
    Tokens,         \* approval tokens clients present
    Treatments,     \* TreatmentCode values in use
    Operated,       \* bound: versions whose operation is carried on once enqueued
    MaxEvents       \* bound: audit events beyond which nothing more is asked

Role == {"analyst", "controller", "operator"}
DECISION_ROLES      == {"analyst", "controller"}
AUTHORISATION_ROLES == {"controller"}
EDIT_ROLES          == {"controller"}

ASSUME RolesAssumption == RoleOf \in [Principals -> Role]
ASSUME VersionsAssumption == Versions \subseteq Nat \ {0}
ASSUME OperatedAssumption == Operated \subseteq Versions
ASSUME EventsAssumption == MaxEvents \in Nat
ASSUME AbsentAssumption == NULL \notin Treatments \cup Principals \cup Life \cup OutcomeCode

ApprovalDecision == {"approved", "rejected", "edited"}

VARIABLES
    approvals,      \* committed approval rows of the exception
    adjustments,    \* committed adjustment rows
    ops,            \* per version, the life of its outbox row, NULL without one
    audit,          \* audit_event rows of tool APPROVE
    task            \* what each client's session is doing

vars == <<approvals, adjustments, ops, audit, task>>

Approval == [version : Versions, decision : ApprovalDecision,
             treatment : Treatments \cup {NULL}, principal : Principals,
             requested_by : Principals \cup {NULL}, token : Tokens]
Adjustment == [version : Versions, treatment : Treatments]
AuditEvent == [outcome : {"success", "failure"}, principal : Principals,
               scope : {"approval", "no_authority"},
               decision : ApprovalDecision \cup {NULL}]
Refusal == [principal : Principals, decision : ApprovalDecision]
Task == [pc : {"idle", "flush", "index", "commit", "refused", "enqueue"},
         row : Approval \cup {NULL}, instruction : Adjustment \cup {NULL},
         refused : Refusal \cup {NULL}]

IdleTask == [pc |-> "idle", row |-> NULL, instruction |-> NULL, refused |-> NULL]

Become(c, t) == task' = [task EXCEPT ![c] = t]
Goto(c, pc)  == Become(c, [task[c] EXCEPT !.pc = pc])
Finish(c)    == Become(c, IdleTask)

-------------------------------------------------------------------------------
authorises_a_posting(decision) == decision \in {"approved", "edited"}

\* Mutant: one predicate for recording a decision and for authorising a posting.
may_authorise_as_recorded(p) == RoleOf[p] \in DECISION_ROLES

may_record_decision(p) == RoleOf[p] \in DECISION_ROLES
may_authorise(p)       == RoleOf[p] \in AUTHORISATION_ROLES
may_edit_treatment(p)  == RoleOf[p] \in EDIT_ROLES

\* Mutant: the authority of whoever may record a decision.
holds_any_authority(p, decision) == may_record_decision(p)

\* routes._holds_the_authority_for
holds_the_authority_for(p, decision) ==
    CASE decision = "rejected" -> may_record_decision(p)
      [] decision = "edited"   -> may_edit_treatment(p) /\ may_authorise(p)
      [] OTHER                 -> may_authorise(p)

\* The refusals of record_decision that need no database.
admitted(row) ==
    /\ may_record_decision(row.principal)
    /\ row.decision = "edited" => may_edit_treatment(row.principal)
    /\ authorises_a_posting(row.decision) => may_authorise(row.principal)
    /\ authorises_a_posting(row.decision) <=> row.treatment # NULL

\* Mutant: the requester of an edit may be its approver.
edit_without_countersign(row) == row.decision = "edited" <=> row.requested_by # NULL

\* An edit names a requester who is not its approver; nothing else names one.
countersigned(row) ==
    /\ row.decision = "edited" <=> row.requested_by # NULL
    /\ row.requested_by # row.principal

\* supersession_is_blocked and the trigger: some earlier version's operation is live.
supersession_is_blocked(v) ==
    \E a \in adjustments : a.version < v /\ ops[a.version] # NULL /\ blocked(ops[a.version])

\* Mutant: the event names who asked for the edit.
decided_by_requester(row) ==
    [outcome |-> "success", principal |-> row.requested_by,
     scope |-> "approval", decision |-> row.decision]

\* The rows of audit_event for a decision and for a refusal of one.
decided(row) == [outcome |-> "success", principal |-> row.principal,
                 scope |-> "approval", decision |-> row.decision]
refusal(r) ==
    [outcome |-> "failure", principal |-> r.principal, decision |-> NULL,
     scope |-> IF holds_the_authority_for(r.principal, r.decision)
               THEN "approval" ELSE "no_authority"]

\* The transaction is rolled back; of the request only who asked for what is left.
Refuse(c, row) ==
    Become(c, [IdleTask EXCEPT !.pc = "refused",
        !.refused = [principal |-> row.principal, decision |-> row.decision]])

-------------------------------------------------------------------------------
\* record_decision up to the insert, for an exception and a proposal that exist: the
\* checks of the request alone, the interlock as it reads now, the countersignature.
record_decision(c) ==
    /\ task[c].pc = "idle"
    /\ Cardinality(audit) < MaxEvents
    /\ \E row \in Approval :
        IF admitted(row) /\ ~supersession_is_blocked(row.version) /\ countersigned(row)
        THEN Become(c, [IdleTask EXCEPT !.pc = "flush", !.row = row])
        ELSE Refuse(c, row)
    /\ UNCHANGED <<approvals, adjustments, ops, audit>>

\* Mutant: no trigger, the check of record_decision stands alone.
flush_unchecked(c) ==
    /\ task[c].pc = "flush"
    /\ Goto(c, "index")
    /\ UNCHANGED <<approvals, adjustments, ops, audit>>

\* The insert: the trigger repeats the interlock's query in the same statement.
flush(c) ==
    /\ task[c].pc = "flush"
    /\ IF supersession_is_blocked(task[c].row.version)
       THEN Refuse(c, task[c].row)
       ELSE Goto(c, "index")
    /\ UNCHANGED <<approvals, adjustments, ops, audit>>

conflicts(row, other) == row.version = other.version \/ row.token = other.token

\* Mutant: a conflict is looked for among committed rows only.
index_committed_only(c) ==
    /\ task[c].pc = "index"
    /\ IF \E other \in approvals : conflicts(task[c].row, other)
       THEN Refuse(c, task[c].row)
       ELSE Goto(c, "commit")
    /\ UNCHANGED <<approvals, adjustments, ops, audit>>

\* The unique indexes: a committed conflict refuses, an uncommitted one is waited for.
index(c) ==
    /\ task[c].pc = "index"
    /\ IF \E other \in approvals : conflicts(task[c].row, other)
       THEN Refuse(c, task[c].row)
       ELSE /\ \A d \in Clients :
                task[d].pc = "commit" => ~conflicts(task[c].row, task[d].row)
            /\ Goto(c, "commit")
    /\ UNCHANGED <<approvals, adjustments, ops, audit>>

\* The decision and its audit event become durable together.
commit(c) ==
    /\ task[c].pc = "commit"
    /\ approvals' = approvals \cup {task[c].row}
    /\ audit' = audit \cup {decided(task[c].row)}
    /\ Finish(c)
    /\ UNCHANGED <<adjustments, ops>>

\* routes._audit_refusal, in a transaction of its own.
audit_refusal(c) ==
    /\ task[c].pc = "refused"
    /\ audit' = audit \cup {refusal(task[c].refused)}
    /\ Finish(c)
    /\ UNCHANGED <<approvals, adjustments, ops>>

-------------------------------------------------------------------------------
\* What record_operation accepts for an approval: it authorises a posting, of this
\* treatment, and the treatment has a price.
postable(row, instruction) ==
    /\ authorises_a_posting(row.decision)
    /\ instruction.version = row.version
    /\ instruction.treatment = row.treatment
    /\ instruction.treatment # "escalate"

existing(version) == {a \in adjustments : a.version = version}

\* Mutants: the instruction's treatment is not held against the approval; the row is
\* read without its lock.
unheld_postable(row, instruction) ==
    authorises_a_posting(row.decision) /\ instruction.version = row.version
enqueue_unlocked(c) ==
    /\ task[c].pc = "idle"
    /\ \E row \in approvals, instruction \in Adjustment :
        /\ postable(row, instruction)
        /\ existing(row.version) = {}
        /\ Become(c, [IdleTask EXCEPT !.pc = "enqueue", !.row = row,
                                      !.instruction = instruction])
    /\ UNCHANGED <<approvals, adjustments, ops, audit>>

\* enqueue_posting takes the approval under a row lock, held to the end of its
\* transaction.  An adjustment already there ends it: the same identity is the same
\* record, another one is a contradiction, and nothing is written either way.
enqueue_posting(c) ==
    /\ task[c].pc = "idle"
    /\ \E row \in approvals, instruction \in Adjustment :
        /\ \A d \in Clients : task[d].pc = "enqueue" => task[d].row # row
        /\ postable(row, instruction)
        /\ existing(row.version) = {}
        /\ Become(c, [IdleTask EXCEPT !.pc = "enqueue", !.row = row,
                                      !.instruction = instruction])
    /\ UNCHANGED <<approvals, adjustments, ops, audit>>

\* The operation and its dispatch intent become durable together; a second
\* adjustment for the approval is an integrity error.
insert_posting(c) ==
    LET i == task[c].instruction IN
    /\ task[c].pc = "enqueue"
    /\ IF existing(i.version) = {}
       THEN /\ adjustments' = adjustments \cup {i}
            /\ ops' = [ops EXCEPT ![i.version] = Enqueued]
       ELSE UNCHANGED <<adjustments, ops>>
    /\ Finish(c)
    /\ UNCHANGED <<approvals, audit>>

\* Dispatcher, ledger, reconciliation or operator: one step of an operation's life.
operate(v) ==
    /\ ops[v] # NULL
    /\ \E l \in Successors(ops[v]) : ops' = [ops EXCEPT ![v] = l]
    /\ UNCHANGED <<approvals, adjustments, audit, task>>

\* The process or its connection dies: the open transaction is rolled back.
Crash(c) ==
    /\ task[c].pc # "idle"
    /\ Finish(c)
    /\ UNCHANGED <<approvals, adjustments, ops, audit>>

Init ==
    /\ approvals = {} /\ adjustments = {} /\ audit = {}
    /\ ops = [v \in Versions |-> NULL]
    /\ task = [c \in Clients |-> IdleTask]

Decide(c) ==
    \/ record_decision(c) \/ flush(c) \/ index(c)
    \/ commit(c) \/ audit_refusal(c)

Next ==
    \/ \E c \in Clients : Decide(c) \/ enqueue_posting(c) \/ insert_posting(c) \/ Crash(c)
    \/ \E v \in Operated : operate(v)

Spec == Init /\ [][Next]_vars

TypeOK ==
    /\ approvals \subseteq Approval
    /\ adjustments \subseteq Adjustment
    /\ ops \in [Versions -> Life \cup {NULL}]
    /\ audit \subseteq AuditEvent
    /\ task \in [Clients -> Task]

-------------------------------------------------------------------------------
\* No two decisions on the exception share a version or a token, however their
\* requests interleave (the two unique constraints of approval, not the checks).
OneDecision ==
    \A a, b \in approvals : conflicts(a, b) => a = b

\* Every posting stands on a committed decision of somebody entitled to authorise
\* it, for exactly the treatment posted, countersigned where it was an edit, and
\* never on an escalation (the gate, the lock and the composite foreign key).
AuthorisedPosting ==
    \A a \in adjustments : \E row \in approvals :
        /\ row.version = a.version /\ row.treatment = a.treatment
        /\ RoleOf[row.principal] = "controller"
        /\ row.decision = "edited" =>
            row.requested_by # NULL /\ row.requested_by # row.principal
        /\ a.treatment # "escalate"

\* The lock makes the loser of a race observe a finished record: no enqueuer ever
\* runs into the unique constraint behind it (record_operation's docstring).
NoIntegrityError ==
    \A c \in Clients : task[c].pc = "enqueue" => existing(task[c].row.version) = {}

\* A dispatch intent and its operation appear together (enqueue_posting).
IntentWithOperation ==
    \A v \in Versions : ops[v] # NULL <=> existing(v) # {}

\* The trail says who decided what: an event of a decision comes with the row, and
\* names a principal entitled to it; an event of a refusal never claims an authority
\* the refused principal does not hold for that verb, since only a controller
\* authorises, an analyst may reject and an operator decides nothing (emit,
\* _audit_refusal).
AuditTruthful ==
    [][\A e \in audit' \ audit :
        IF e.outcome = "success"
        THEN \E row \in approvals' \ approvals :
                /\ e.principal = row.principal /\ e.decision = row.decision
                /\ RoleOf[e.principal] # "operator"
                /\ e.decision # "rejected" => RoleOf[e.principal] = "controller"
        ELSE \E c \in Clients :
            LET r == task[c].refused
                role == RoleOf[r.principal]
            IN  /\ task[c].pc = "refused" /\ approvals' = approvals
                /\ e.principal = r.principal
                /\ e.scope = "approval" <=>
                       \/ role = "controller"
                       \/ role = "analyst" /\ r.decision = "rejected"]_vars

\* A decision gets past the interlock only when each earlier operation that no
\* operator has judged is known: nothing of it is under way to the ledger, and the
\* books moved exactly if it is recorded confirmed (the trigger against the
\* write-ahead row and transaction 3).
UnknownNotSuperseded ==
    [][\A c \in Clients :
        (task[c].pc = "flush" /\ task'[c].pc = "index") =>
            \A a \in adjustments : a.version < task[c].row.version =>
                LET l == ops[a.version] IN
                l.item = "none" => /\ l.books # "wire"
                                   /\ l.books = "moved" <=> l.outcome = "confirmed"]_vars

-------------------------------------------------------------------------------
\* approval.py:104-106: one exception must never have two live resolutions, because
\* both could post.  At the least, no two of them are being sent at once.
OneLiveResolution ==
    \A u, v \in Versions :
        (ops[u] # NULL /\ ops[v] # NULL /\ ops[u].in_flight /\ ops[v].in_flight) => u = v
===============================================================================
