----------------------------- MODULE ControlState -----------------------------
(***************************************************************************)
(* The rows one operation owns in the control-plane database               *)
(* (db/control.py), the constraints and triggers PostgreSQL enforces on    *)
(* them, the tasks of the processes that work on it, and the ledger's side *)
(* of the wire.  Rows of different adjustments share no state and no lock, *)
(* so one operation stands for all of them.                                *)
(***************************************************************************)
EXTENDS LedgerPort, Sequences, FiniteSets, FiniteSetsExt

CONSTANTS
    Workers,        \* concurrent runners, replays and reconciliation passes
    Endpoints,      \* what the workers' adapters declare; NULL declares none
    Operators,      \* principals with a role in security.OPERATIONS_ROLES
    Approver,       \* adjustment.approving_principal
    MaxTime,        \* bound: the last instant of the model
    MaxSends,       \* bound: a job that may send is not started beyond it
    MaxItems        \* bound: recovery items ever opened

ASSUME ModelAssumption ==
    /\ MaxTime \in Nat /\ MaxSends \in Nat /\ MaxItems \in Nat

Time == 0 .. MaxTime

OutcomeCode == {"confirmed", "rejected", "throttled", "unknown",
                "partially_applied", "not_sent"}
QueryAnswer == {"found", "not_found", "indeterminate"}

\* dispatcher._TERMINAL; dispatcher._AMBIGUOUS and retry.AMBIGUOUS_OUTCOMES
TERMINAL  == {"confirmed", "rejected"}
AMBIGUOUS == {"unknown", "partially_applied"}

DispatchState == {"pending", "settled", "dead_lettered"}
AttemptState  == {"in_flight", "resolved"}
ReplayState   == {"pending", "replayed"}
DeadLetterReason == {"attempts_exhausted", "time_budget_exhausted", "terminal_rejection"}
RecoveryReason == {"no_suppression_or_query", "resend_window_expired",
                   "resend_scope_unproven", "reconciliation_exhausted",
                   "partially_applied"}
RecoveryResolution == {"confirmed_by_evidence", "rejected_by_evidence",
                       "resolved_unverified"}
AuditTool == {"post", "retry", "dlq", "replay", "reconcile", "recover"}

VARIABLES
    outbox,         \* the dispatch intent
    posting_ref,    \* adjustment.posting_ref IS NOT NULL
    attempts,       \* posting_attempt rows, indexed by attempt_no
    dlq,            \* the dead letter of this outbox row, NULL while there is none
    queries,        \* reconciliation_query answers, indexed by query_no
    recovery,       \* recovery_queue items in opening order
    trail,          \* audit_event rows per tool
    task,           \* what each worker is doing, with the values it has read
    wire,           \* attempts whose request is between client and ledger
    applied,        \* postings on the ledger's books
    partial,        \* attempts of which the ledger committed only some legs
    clock,          \* wall-clock time
    crashes         \* bound: process deaths so far

rowVars    == <<outbox, posting_ref, attempts, dlq, queries, recovery, trail>>
ledgerVars == <<wire, applied, partial>>
vars       == <<rowVars, task, ledgerVars, clock, crashes>>

Outbox == [state : DispatchState, last_outcome : OutcomeCode \cup {NULL},
           attempt_count : Nat, next_attempt_at : Nat \cup {NULL}]
PostingAttempt == [state : AttemptState, outcome : OutcomeCode \cup {NULL},
                   sent_at : Time, endpoint : Endpoints]
DeadLetter == [reason : DeadLetterReason, replay_state : ReplayState]
RecoveryItem == [reason : RecoveryReason, state : {"open", "resolved"},
                 resolution : RecoveryResolution \cup {NULL},
                 resolved_by : Operators \cup {NULL}]

ASSUME NullAssumption ==
    /\ NULL \notin OutcomeCode \cup QueryAnswer \cup RecoveryResolution
    /\ NULL \notin Nat
    /\ NULL \notin DeadLetter

\* One worker's program counter, the job it runs and the locals that outlive a
\* transaction: `now`, the adapter's endpoint, attempt_no, the answer in hand, and
\* the part of reconcile._State used after the query.
Task == [pc : {"idle", "claimed", "gate", "write", "post", "await", "record",
               "not_sent", "budget", "bury", "close", "query", "queried", "recover"},
         job : {"none", "retry", "replay", "reconcile"},
         now : Time, endpoint : Endpoints \cup {NULL}, attempt_no : Nat,
         got : OutcomeCode \cup QueryAnswer \cup {NULL},
         queries_made : Nat, last_sent_at : Time \cup {NULL},
         reason : RecoveryReason \cup {NULL}]

IdleTask == [pc |-> "idle", job |-> "none", now |-> 0, endpoint |-> NULL,
             attempt_no |-> 0, got |-> NULL, queries_made |-> 0,
             last_sent_at |-> NULL, reason |-> NULL]

Start(job, pc, ep) ==
    [IdleTask EXCEPT !.job = job, !.pc = pc, !.now = clock, !.endpoint = ep]

Become(w, t) == task' = [task EXCEPT ![w] = t]
Goto(w, pc)  == Become(w, [task[w] EXCEPT !.pc = pc])
Finish(w)    == Become(w, IdleTask)

-------------------------------------------------------------------------------
\* What the database is asked.
InFlight == {n \in DOMAIN attempts : attempts[n].state = "in_flight"}

\* unresolved or recorded_ambiguous in dispatch_once; reconcile._State.is_ambiguous
is_ambiguous == InFlight # {} \/ outbox.last_outcome \in AMBIGUOUS

first_sent_at ==
    IF attempts = <<>> THEN NULL
    ELSE Min({attempts[n].sent_at : n \in DOMAIN attempts})
last_sent_at ==
    IF attempts = <<>> THEN NULL
    ELSE Max({attempts[n].sent_at : n \in DOMAIN attempts})

open_recovery == \E i \in DOMAIN recovery : recovery[i].state = "open"

\* Mutant: the check constraint without the trigger.
settled_is_terminal(new) == new.state = "settled" => new.last_outcome \in TERMINAL

\* What the database enforces: the outbox and posting_attempt triggers and the two
\* check constraints that relate state to outcome.
OutboxPermits(new) ==
    /\ outbox.last_outcome \in TERMINAL => new.last_outcome = outbox.last_outcome
    /\ outbox.state = "settled" => new.state = "settled"
    /\ new.state = "settled" => new.last_outcome \in TERMINAL

AttemptPermits(n, new) ==
    /\ attempts[n].outcome # NULL => new.outcome = attempts[n].outcome
    /\ attempts[n].state = "resolved" => new.state = "resolved"
    /\ new.sent_at = attempts[n].sent_at
    /\ new.state = "resolved" <=> new.outcome # NULL

\* Mutant: one event per tool and operation, as an idempotent emitter would write.
emit_once(tool) == trail' = [trail EXCEPT ![tool] = 1]

\* audit.emit, in the transaction of the change it describes.
emit(tool) == trail' = [trail EXCEPT ![tool] = @ + 1]

RowsTyped ==
    /\ outbox \in Outbox
    /\ posting_ref \in BOOLEAN
    /\ attempts \in Seq(PostingAttempt)
    /\ dlq \in DeadLetter \cup {NULL}
    /\ queries \in Seq(QueryAnswer)
    /\ recovery \in Seq(RecoveryItem)
    /\ trail \in [AuditTool -> Nat]

LedgerTyped ==
    /\ wire \subseteq DOMAIN attempts
    /\ applied \subseteq [no : DOMAIN attempts, at : Time, endpoint : Endpoints]
    /\ partial \subseteq DOMAIN attempts
    /\ clock \in Time
    /\ crashes \in Nat

TypeOK == RowsTyped /\ LedgerTyped /\ task \in [Workers -> Task]

Init ==
    /\ outbox = [state |-> "pending", last_outcome |-> NULL,
                 attempt_count |-> 0, next_attempt_at |-> NULL]
    /\ posting_ref = FALSE
    /\ attempts = <<>>
    /\ dlq = NULL
    /\ queries = <<>>
    /\ recovery = <<>>
    /\ trail = [t \in AuditTool |-> 0]
    /\ task = [w \in Workers |-> IdleTask]
    /\ wire = {} /\ applied = {} /\ partial = {}
    /\ clock = 0
    /\ crashes = 0
===============================================================================
