------------------------------ MODULE ControlPlane ------------------------------
(***************************************************************************)
(* The control plane around one approved operation: retry runners, replays,*)
(* reconciliation passes and operators, all concurrent, against one ledger.*)
(***************************************************************************)
EXTENDS Recovery

CONSTANT MaxCrashes     \* bound: process deaths

ASSUME CrashAssumption == MaxCrashes \in Nat

\* A process dies: its locals are gone, its committed rows and its request are not.
Crash(w) ==
    /\ task[w].pc # "idle"
    /\ crashes < MaxCrashes
    /\ crashes' = crashes + 1
    /\ Finish(w)
    /\ UNCHANGED <<rowVars, ledgerVars, clock>>

Dispatch(w) ==
    \/ DispatchGate(w)
    \/ WriteAhead(w)
    \/ AdapterPost(w)
    \/ ConnectFails(w)
    \/ AnswerUnknown(w)
    \/ PostRaises(w)
    \/ RecordOutcome(w)

RetryPass(w) ==
    \/ run_due_once(w)
    \/ attempt_one(w)
    \/ resolve_not_sent(w)
    \/ retry_or_dead_letter(w)
    \/ dead_letter_rejection(w)

Replay(w) == replay_dead_letter(w) \/ close_entry(w)

ReconcilePass(w) ==
    \/ reconcile_once(w)
    \/ get_by_operation_id(w)
    \/ reconcile_by_query(w)
    \/ open_item(w)

Operator ==
    \E i \in DOMAIN recovery, p \in Operators, r \in RecoveryResolution :
        resolve_item(i, p, r)

Ledger ==
    \/ \E n \in wire, answer \in Answers : LedgerTakes(n, answer)
    \/ \E n \in wire : DropRequest(n)

Next ==
    \/ \E w \in Workers :
        Dispatch(w) \/ RetryPass(w) \/ Replay(w) \/ ReconcilePass(w) \/ Crash(w)
    \/ Operator
    \/ Ledger
    \/ Tick

Spec == Init /\ [][Next]_vars

-------------------------------------------------------------------------------
\* A worker that has started something goes on with it, unless it dies.
Work(w) ==
    \/ Dispatch(w)
    \/ task[w].pc # "idle" /\ (RetryPass(w) \/ Replay(w) \/ ReconcilePass(w))

\* A due row is claimed within the tick it is due in.
PromptTick == Tick /\ ~due_adjustments

PromptNext ==
    \/ \E w \in Workers :
        Dispatch(w) \/ RetryPass(w) \/ Replay(w) \/ ReconcilePass(w) \/ Crash(w)
    \/ Operator
    \/ Ledger
    \/ PromptTick

\* Somebody keeps invoking the due pass and the reconciliation pass, processes that
\* live make progress, requests leave the wire, time passes.  Replays and operators
\* are people: nothing is assumed of them.
Fairness ==
    /\ \A w \in Workers : WF_vars(Work(w))
    /\ SF_vars(\E w \in Workers : run_due_once(w))
    /\ SF_vars(\E w \in Workers : reconcile_once(w))
    /\ WF_vars(Ledger)
    /\ WF_vars(PromptTick)

PromptSpec == Init /\ [][PromptNext]_vars /\ Fairness

-------------------------------------------------------------------------------
\* The books never move twice for the operation, whatever is retried, replayed,
\* re-sent or lost (dispatcher's gate and write-ahead row together).
AtMostOneEffect ==
    /\ \A a, b \in applied : a = b
    /\ \A m, n \in Effects : m = n

\* The verdict on the outbox row is the truth about the books: confirmed only over
\* an effect, rejected only over none, then and ever after (transaction 3, the
\* reconciliation's conclusion, the operator's).
VerdictTrue ==
    /\ outbox.last_outcome = "confirmed" => Effects # {}
    /\ outbox.last_outcome = "rejected" => Effects = {}

\* An attempt recorded as never applied is neither on the books nor on its way to
\* them, and one recorded as applied is; in particular _resolve_not_sent, which
\* picks its row by being in flight, never picks another worker's.
EvidenceTruthful ==
    \A n \in DOMAIN attempts :
        /\ attempts[n].outcome \in {"not_sent", "throttled", "rejected"}
              => n \notin wire \cup Effects
        /\ attempts[n].outcome = "confirmed" => Effects # {}
        /\ attempts[n].outcome = "partially_applied" => n \in partial

\* A rejection that neither the ledger nor an operator's evidence gave rests on a
\* full run of consecutive not_found answers (_consecutive_not_found: an
\* indeterminate answer in between starts the count again).
RejectionEvidenced ==
    \/ outbox.last_outcome # "rejected"
    \/ \E n \in DOMAIN attempts : attempts[n].outcome = "rejected"
    \/ \E i \in DOMAIN recovery : recovery[i].resolution = "rejected_by_evidence"
    \/ \E i \in DOMAIN queries :
        /\ i + ConsecutiveNotFound - 1 \in DOMAIN queries
        /\ \A j \in i .. i + ConsecutiveNotFound - 1 : queries[j] = "not_found"

\* Without key enforcement only the newest attempt can still have an effect: every
\* earlier one was turned away before the books (the ambiguity gate, transaction 1,
\* holds although its lock is gone when the row is inserted).
OnlyLastAttemptLive ==
    ~suppresses_duplicates =>
        \A n \in DOMAIN attempts : n < Len(attempts) =>
            attempts[n].outcome \in {"not_sent", "throttled"}

\* A closed dead letter means a finished operation: replay never closes an entry
\* whose outcome is still open (_RESOLVES_THE_ENTRY).
ReplayedMeansTerminal ==
    (dlq # NULL /\ dlq.replay_state = "replayed") => outbox.last_outcome \in TERMINAL

\* With nobody at work, an attempt the ledger declined has its dead letter, unless
\* a process died or the re-send was the reconciliation's, which writes none
\* (attempt_one, after dispatch_once has settled the row).
RejectionLettered ==
    /\ \A w \in Workers : task[w].pc = "idle"
    /\ \E n \in DOMAIN attempts : attempts[n].outcome = "rejected"
    => dlq # NULL \/ crashes > 0 \/ suppresses_duplicates

\* Every send and every ending of one is in the audit trail, and so is every dead
\* letter, every query and every step of a recovery item.
TrailComplete ==
    /\ trail["post"] = Len(attempts) + Cardinality(DOMAIN attempts \ InFlight)
    /\ trail["dlq"] = (IF dlq = NULL THEN 0 ELSE 1)
    /\ trail["reconcile"] >= Len(queries)
    /\ trail["recover"] = Len(recovery)
            + Cardinality({i \in DOMAIN recovery : recovery[i].state = "resolved"})

\* Attempts and query answers are append-only and a recorded outcome never changes
\* (posting_attempt and reconciliation_query triggers).
EvidenceImmutable ==
    [][/\ \A n \in DOMAIN attempts :
            /\ n \in DOMAIN attempts'
            /\ attempts'[n].sent_at = attempts[n].sent_at
            /\ attempts'[n].endpoint = attempts[n].endpoint
            /\ attempts[n].outcome # NULL => attempts'[n] = attempts[n]
       /\ \A i \in DOMAIN queries :
            i \in DOMAIN queries' /\ queries'[i] = queries[i]]_vars

\* A terminal outcome is final and its row stays settled, whoever answers late
\* (outbox trigger against transaction 3, reconciliation and operator).
TerminalForever ==
    [][outbox.last_outcome \in TERMINAL =>
        /\ outbox'.last_outcome = outbox.last_outcome
        /\ outbox.state = "settled" /\ outbox'.state = "settled"]_vars

\* No request is written to the socket for an operation in a known terminal state
\* (the first check of dispatch_once, made a transaction before the send).
NoSendOfSettled ==
    [][wire' \ wire # {} => outbox.last_outcome \notin TERMINAL]_vars

\* Every approved operation is eventually settled, dead-lettered or in front of an
\* operator: no schedule, crash or lost answer parks it for good (both retry budgets,
\* the query bound, the routes to recovery).
EventuallyHandled == <>(outbox.state # "pending" \/ recovery # <<>>)

\* An undetermined outcome does not stay undetermined unseen: it is resolved or it
\* reaches an operator (reconcile_once and its bounds), also when it arises from a
\* replay long after the dead letter.
AmbiguityEnds ==
    is_ambiguous ~> \/ ~is_ambiguous
                    \/ outbox.last_outcome \in TERMINAL
                    \/ recovery # <<>>

-------------------------------------------------------------------------------
\* The abstract promise, with attempts as effects and the outbox outcome as verdict.
verdict == IF outbox.last_outcome \in TERMINAL THEN outbox.last_outcome ELSE NULL

Promise == INSTANCE PostingOnce WITH
    effects <- Effects, verdict <- verdict, NoVerdict <- NULL

\* Every behaviour of the control plane is one of PostingOnce: one effect, one true
\* and final verdict (dispatcher, retry, reconciliation and recovery together).
ImplementsPostingOnce == Promise!PostSpec
===============================================================================
