# Ledger exception control plane: TLA+ verification

This directory models, model-checks and proves properties of the control plane that
takes a settlement file to exceptions, an exception to an approved adjustment, and an
approved adjustment to at most one posting on an external ledger. The
reference is the Python source under `src/ledger_exception_control_plane/` with its
PostgreSQL migrations; every definition of a module is translated from code, and
`PROJECT.json` names the lines (`map`), the runs, the mutants, the findings, the hazards
and the theorems.

## 1. Inventory

| Component | Source | State it keeps | Operations | Hard behaviour | What makes it correct |
|---|---|---|---|---|---|
| Ledger port | `ledger/port.py`, `conformance.py` | the declared and the proven capabilities | `effective_capabilities` | claims without a passing conformance run | a weak ledger is never treated as a strong one |
| Control tables, triggers | `db/control.py`, migration `b7e2f8c14a06` | outbox, attempts, queries, dead letters, recovery items, audit events | constraints, triggers | refusals that roll back a whole transaction | terminal is final, evidence is append-only |
| Dispatcher | `operations/dispatcher.py` | none of its own | `dispatch_once` | three transactions and a socket write with no lock across them; crash, lost answer | one send at a time without key enforcement; one effect |
| Retry, DLQ, replay | `operations/retry.py` | schedule, dead letters | `run_due_once`, `attempt_one`, `_resolve_not_sent`, `dead_letter`, `replay_dead_letter` | a claim released before the send; two budgets; concurrent replays | nothing is parked; a closed letter is a finished operation |
| Reconciliation | `operations/reconcile.py` | query answers | `reconcile_once` | state read, ledger queried, conclusion written: three moments | a verdict is true of the books |
| Recovery queue | `operations/recovery.py` | recovery items | `open_item`, `resolve_item` | an operator racing the automatic path | a judgement is separate, recorded, final |
| Ledger, wire, faults | `ledger/simulated.py`, `faults.py`, `transport.py` | postings, held keys | `post`, `get_by_operation_id` | loss, delay, lag, throttling, partial application | (environment) |
| Audit trail | `audit.py` | append-only events | `emit` | events in a transaction that rolls back | each send and ending has its event |
| Approval, supersession | `operations/approval.py`, `routes.py` | approvals, tokens | `record_decision`, `_audit_refusal` | interlock racing a dispatch, two requests racing for a version or token | nothing unknown is superseded, one decision per version and token |
| Operation identity | `operations/service.py`, `identity.py` | adjustment, outbox row | `record_operation`, `enqueue_posting` | concurrent recording | one operation per approval |
| Ingestion | `ingest/parser.py`, `normalise.py`, `service.py` | batches, lines | `ingest` | duplicate delivery, a crash between the receipt and the settle transaction, a row the table refuses | a payload is stored whole or not at all, and a quarantine accounts for every defect |
| Matching | `matching/engine.py`, `service.py` | match results, lines' state | `match`, `run_matching` | decided on a read whose transaction has ended; locks and unique keys met in different orders | a pair is beyond contest on what was read; a line and an entry match once |
| Classification | `classification/engine.py`, `service.py` | exceptions | `run_classification` | a decision about other rows, which no constraint arbitrates | the evidence still holds when it is written, and afterwards |
| Claim | `operations/claim.py` | row locks | `claim_residuals` | SKIP LOCKED and LIMIT | no residual has two claimants, none is left beside an idle worker |
| Proposal flow | `llm/` | evidence, proposals, citations | `propose_for_exception` | a provider call between two transactions; unusable answers | a proposal cites stored evidence of its own exception, and its event comes with it |
| Money | `money/calculator.py`, `policy.py` | none (a configured context, replaced by deployments) | `compute_adjustment` | the reasons not to calculate; the context changing between pricing and recording | an operation is one configuration's price of what was approved |
| Security, API, frontend, observability, demo, fixtures, naive baseline | `security.py`, `routes.py`, ... | none that other parts depend on | | | |

**How they interact.** A delivery stores the lines of a settlement file. A matcher pairs
lines with ledger entries; a classifier puts what is left under exceptions. Neither knows
of the other's runs: they meet through row locks on lines, unique indexes on matches and
the composite key by which an exception needs an unmatched line. Workers claim
exceptions, ask a provider about one, and a caller prices a treatment; a human approves
one, and the enqueuer records the priced instruction under the lock of its approval. An
approved adjustment is enqueued as an outbox row. Retry passes
claim due rows, release the claim and call the dispatcher; replays and reconciliation
passes call the same dispatcher. They share nothing but the database and meet through
its rows, its unique indexes and its triggers. The ledger is on the other side of a wire
that loses and delays. Operators act through the recovery queue. No component calls
another back, and there is no scheduler in the package: somebody has to invoke the
passes.

Rows of different adjustments share no lock, no index entry and no state, so **the posting
models are about one operation**; several workers work on it at once. What relates the
operations of one exception is the supersession interlock: **the gate model is about one
exception** with an operation per resolution version. What comes before an operation is
about many lines at once, because a match or a classification of one depends on the
others: **the pipeline model has several deliveries, lines, entries and exceptions**, and
sessions that do anything with them.

## 2. Modules

| Module | Models | State and actions |
|---|---|---|
| `LedgerPort` | `port.py`, and the pure decisions of dispatcher, retry and reconcile | no variables; `effective_capabilities`, `resend_decision`, `resend_is_within_bounds`, `negative_answer_is_trustworthy`, backoff and budgets |
| `ControlState` | `control.py`, the triggers, `audit.emit` | all variables, `TypeOK`, `Init` (the state `enqueue_posting` leaves) |
| `LedgerBooks` | ledger, wire and clock | `LedgerTakes`, `DropRequest`, `QueryAnswers`, `Tick` |
| `Dispatcher` | `dispatch_once` | `DispatchGate` (T1), `WriteAhead` (T2), `AdapterPost`, `ConnectFails`, `AnswerUnknown`, `PostRaises`, `RecordOutcome` (T3) |
| `Retry` | `retry.py` | `run_due_once`, `attempt_one`, `resolve_not_sent`, `retry_or_dead_letter`, `dead_letter_rejection`, `replay_dead_letter`, `close_entry` |
| `Reconcile` | `reconcile.py` | `reconcile_once`, `get_by_operation_id`, `reconcile_by_query` |
| `Recovery` | `recovery.py` | `open_item`, `resolve_item` |
| `ControlPlane` | their composition | `Crash`, `Next`, `Spec`, `PromptSpec`, all properties, the refinement |
| `PostingOnce` | the promise of PROJECT_SPEC 13.5 and 13.6 | `Apply`, `Confirm`, `Reject` |
| `OperationLife` | one operation as the interlock sees it (abstract) | no variables; `blocked` (the three conditions of the interlock), `Successors` |
| `Supersession` | what `supersession_is_blocked` reads of `ControlPlane` | `life`; `ControlPlane` is shown to implement `OperationLife` |
| `SendBudget` | the sends that are replays, counted beside `ControlPlane` | the history variable `replayed`, `ReplaySends`, `CountedSpec`, `SendsWithinBudget` |
| `Approvals` | `approval.py`, the decision routes, `service.py`, the interlock trigger | `record_decision`, `flush`, `index`, `commit`, `audit_refusal`, `enqueue_posting`, `insert_posting`, `operate`, `Crash` |
| `MCApprovals` | instances of the gate | an analyst and a controller |
| `ApprovalProofs` | theorems about the gate | section 6 |
| `MCControlPlane`, `MCWeak` | instances for TLC | capability records of the reference adapters, scaled to ticks; `MCWeak` has `SendBudget` beside them |
| `TypeProofs`, `SafetyProofs`, `HistoryProofs`, `VerdictProofs`, `RecordProofs` | theorems | section 6 |
| `SettlementFile` | `ingest/parser.py`, `normalise.py`, the columns of `settlement_line` | no variables; `defects_of` (every defect of a file, of a row and of a field), `NormalisedLine`, `storable` (what the columns and checks admit), `accounting_period` |
| `IntakeState` | the tables, locks and constraints of intake | its variables, `InitIntake`, row locks in id order (`LockLine`), `End` of a transaction |
| `Ingest` | `ingest/service.py` | `record_receipt`, `claim_batch`, `settle` |
| `Matching` | `matching/engine.py`, `service.py` | `eligible`, `accept_mutually_unique`, `match`; `load_lines`, `decide_matches`, `lock_proposed`, `drop_under_exception`, `insert_match`, `commit_matches` |
| `Classification` | `classification/engine.py`, `service.py` | the three rules and `rule_for`; `load_residuals`, `load_context`, `pin`, `decide_rules`, `persist` |
| `Pricing` | `money/calculator.py`, `policy.py`, `operations/identity.py` | no variables; `blocks` (the reasons not to calculate), `instruction_for`, `postable`, `derive_identity` |
| `DeskState` | the tables that hang off an exception | its variables, `InitDesk`, `Leave` (end of a transaction) |
| `Proposing` | `operations/claim.py`, `llm/` | `claim_residuals`, `release_claim`; `load_subject`, `persist_evidence`, `ask`, `record_answer` |
| `Enqueue` | the caller that prices, `operations/service.py` | `compute_adjustment`, `approve`, `reconfigure`, `lock_approval`, `look_up`, `insert_operation`, `take_answer` |
| `Pipeline` | their composition | `IntakeStep`, `DeskStep`, `Elsewhere`, `AbortVictim`, `Crash`, all properties of the pipeline |
| `MCPipeline` | one instance for TLC | six payloads, two entries, two configurations, five answers, the rosters |
| `IntakeProofs`, `DeskProofs` | theorems about the pipeline | section 6 |

From `LedgerPort` to `ControlPlane`, each module extends the one before it, so an action of `ControlPlane` is exactly one
handler step.

**Correspondence.** `outbox`, `attempts`, `dlq`, `queries`, `recovery` are the rows of
the tables of those names, restricted to the columns some guard or property reads:
`attempts[n]` is the row with `attempt_no = n`, `queries[i]` the answer with
`query_no = i`. `posting_ref` is whether `adjustment.posting_ref` is set. `trail` counts
audit events per tool. `task[w]` is a worker's program counter with the locals that
outlive a transaction: the `now` of its pass, its adapter's endpoint, the attempt number,
the answer in hand, and what reconciliation has read. `wire`, `applied`, `partial` are
the ledger's side; the books keep one entry per posting really made, so a duplicate is
two entries. An action is one database transaction or one exchange with the ledger, the
granularity at which PostgreSQL lets other workers in. A transaction that a trigger or a
unique index refuses is modelled as what the caller then does with nothing written.

Callers of `dispatch_once` differ only in what they do afterwards (`after_outcome`) and
with a raise: retry and replay wrap the adapter in `AttributedAdapter` and classify the
failure, the reconciliation pass does not.

In `Approvals`, `approvals`, `adjustments` and `audit` are the committed rows (`audit` those
of tool APPROVE), `ops[v]` the life of the operation of version `v`, and `task[c]` an open
session: a decision request between its checks, the insert's trigger (`flush`), the unique
indexes (`index`, where an insert waits for an uncommitted rival) and its commit; or an
enqueuer holding the row lock of its approval. The statements of one transaction are
actions of their own because PostgreSQL's READ COMMITTED lets others in between them.
`operate(v)` is one step of whoever works on an operation: dispatcher, ledger,
reconciliation or operator. Its steps are not invented for the gate: `ImplementsLife` checks
that every step of the detailed `ControlPlane` is one of them.

In `Pipeline`, `batch`, `settlement_line`, `match_state` (the state column of a line),
`match_result`, `exception`, `evidence`, `proposal`, `approval`, `adjustment` and `outbox`
are committed rows; `job[s].inserted` are the match rows of session `s` that are not
committed and yet hold their unique keys. `batch_lock`, `line_lock`, `exception_lock` and
`approval_lock` name the session that holds a row `FOR UPDATE`. `matched_events`,
`proposal_events` and `compute_events` count the audit events of their tools. `job[s]` is
where session `s` is in a delivery, a matching or a classification, with what it has read
(`read`), still wants to lock (`want`) and has decided; `desk[s]` the same for a claim, a
proposal or an enqueue. An action is one statement wherever another session can get in
between two of them and matter: a row lock, an insert that waits for an uncommitted rival,
a second read of one transaction. A settlement line has the id its batch and row number
give it, an exception the id of its line and an approval the id of its exception (first
resolution: the later ones are the subject of `Approvals`). A session that waits for a row
or for an insert is a disabled action; `WaitsFor` says for whom, and `AbortVictim` is
PostgreSQL ending one member of a cycle. A session whose statement meets a constraint the
code does not absorb goes to "refused" and stays there: `NeverRefused` says that none does.

Bodies are translated, and their data abstracted to what some guard tells apart: text is
its identity, whether it fits its column, and whether it holds the characters that
normalisation or PostgreSQL treats specially; an amount is an integer in units of a
`Fraction`-th of the currency; a date is a number and a period a number of `Month` days;
an account code is a model value; a digest is the tuple of what it binds. The digest of a
payload is the payload.

**Mutants.** Definitions marked as mutants in the comments are never part of
`Next`. Each is a plausible bug of the definition that follows it, and is listed in
`PROJECT.json` with the property that it breaks.

## 3. Properties

Each is stated with its comment in `ControlPlane.tla`, `Supersession.tla`, `Approvals.tla`
or, from `NeverRefused` on, `Pipeline.tla`.

| Property | Kind | Claim |
|---|---|---|
| `TypeOK` | invariant | rows, tasks, books are in their sets |
| `AtMostOneEffect` | invariant | the books move at most once |
| `VerdictTrue` | invariant | confirmed only over an effect, rejected only over none, also later |
| `EvidenceTruthful` | invariant | an attempt recorded as never applied is neither on the books nor under way |
| `RejectionEvidenced` | invariant | a concluded rejection rests on a full uninterrupted run of not-found answers |
| `OnlyLastAttemptLive` | invariant | without key enforcement only the newest attempt can have an effect |
| `ReplayedMeansTerminal` | invariant | a closed dead letter means a finished operation |
| `TrailComplete` | invariant | the audit counts agree with the rows |
| `SendsWithinBudget` | invariant | an operation has at most `max_attempts` attempts, and one more for each further worker, each death of a process and each replay |
| `RejectionLettered` | invariant | with nobody at work a declined attempt has its dead letter, unless a process died or the re-send was the reconciliation's |
| `EvidenceImmutable` | action | attempts and answers are append-only |
| `TerminalForever` | action | a terminal outcome never changes |
| `NoSendOfSettled` | action | no request is written for an operation in a known terminal state |
| `EventuallyHandled` | liveness | every operation is settled, dead-lettered or before an operator |
| `AmbiguityEnds` | liveness | an undetermined outcome is resolved or reaches an operator |
| `ImplementsPostingOnce` | refinement | the control plane implements `PostingOnce` |
| `InterlockSound` | invariant | an unjudged operation that blocks no successor is known: nothing under way, the books moved exactly if confirmed |
| `ImplementsLife` | refinement | the control plane implements the life that `Approvals` composes |
| `OneDecision` | invariant | no two decisions share a version or a token |
| `AuthorisedPosting` | invariant | every posting rests on a controller's decision for its treatment, countersigned if edited, never on an escalation |
| `NoIntegrityError` | invariant | the loser of an enqueue race sees a finished record, not a constraint violation |
| `IntentWithOperation` | invariant | an outbox row exactly for a recorded operation (proved; no run of its own, `OperationComplete` says it of the pipeline) |
| `AuditTruthful` | action | events of decisions come with their row; events of refusals claim no authority that is not held |
| `UnknownNotSuperseded` | action | nothing unknown and unjudged passes the interlock |
| `NeverRefused` | invariant | whatever other sessions did since it read, no session's write meets a constraint it was not written to absorb |
| `LineLocksOrdered` | invariant | only matchers waiting for each other's inserts can deadlock, nobody waiting for lines |
| `BatchWhole` | invariant | a parsed batch has every row stored and storable, any other none; a quarantine accounts for every defect |
| `OneFate` | invariant | a line is matched once, against an entry of its own, with one event; or under an exception; never both |
| `BookedCounterpart` | invariant | what an exception says it reverses is a movement the ledger carries, as long as the exception exists |
| `ProposalTrail` | invariant | one event per proposal and abstention; a proposal cites stored evidence of its own exception |
| `OperationComplete` | invariant | an adjustment is one configuration's price of the approved treatment, the only one of its approval, with its event and outbox row |
| `AnsweredForItself` | invariant | a caller told its posting is on record is told of its own: account, period and configuration included |
| `AccruedElsewhere` | invariant | an accrued cross-period refund never lands in the period it settled in |
| `DecisionSound` | action | a pair a run goes on to write was beyond contest on everything the run had read |
| `ClassifiedOnWhatStands` | action | an exception commits only while the rows it was decided from still say so |
| `ClaimsDisjointAndFull` | action | no residual goes to two workers, and a claim that is short of its limit has all that nobody else held |

## 4. Runs, bounds, fairness

`gate` and `live_twice` use `MCApprovals`, `pipeline` uses `MCPipeline`, `weak` uses `MCWeak`, all
other runs `MCControlPlane`, where one tick
stands for whatever unit the capability record is scaled to.

| Run | Ledger | Result |
|---|---|---|
| `weak` | no suppression, no query; every answer, lost requests, failed connections, a crash | all fifteen properties hold (about 800 000 states, replays counted) |
| `queryable` | query with a lag of 1, in-flight window 2, no throttling; a crash | rejections evidenced, `PostingOnce` (and with it that verdicts are true) and `OperationLife` implemented (470 000) |
| `enforcing` | key held 2 ticks per endpoint, two endpoints, no throttling | at most one effect (350 000) |
| `live` | queryable, throttling and failed connections, a crash | both liveness properties (74 000) |
| `gate` | two clients, an analyst and a controller, two versions, two tokens, a postable and an unpostable treatment | six properties of the gate (670 000) |
| `pipeline` | two sessions, six payloads, two entries, two configurations, five answers; crashes and deadlocks broken | all thirteen properties of the pipeline (177 000) |
| `stale_read`, `lag`, `overwrite`, `unpaused`, `interlock`, `live_twice` | see section 5 | violated |

**Bounds** (all are constants named as bounds): `MaxTime`, the last instant; `MaxSends`,
beyond which no job that may send is started; `MaxItems`, recovery items opened;
`MaxCrashes`; `MaxStall`, ticks between a pass reading `now` and its socket write. Two
workers are enough for each race of the code, which is always between one step of one
caller and the steps of another; three sends admit an attempt before and an attempt
behind the ambiguous one; two or three ticks cross each window from both sides. The proofs
of section 6 have none of these bounds in their way: they hold for any number of workers,
attempts and crashes. `Symmetry` permutes workers and is not used in `live`.
`CHECK_DEADLOCK FALSE`: a finished operation really stops.

In the gate, `MaxEvents` distinct audit events end the asking (two decisions, or a decision
and a refusal: no race of the code has more parties), `Operated` are the versions whose
operation is carried on (in `gate` the first, which the second must or must not supersede;
in `live_twice` both), and `Outcomes` are the outcomes that occur: one of each kind that
`blocked` distinguishes, and both terminal ones. An operator's role, which may decide
nothing, is in the theorems and not in the run.

In the pipeline, a **roster** says which session does what, on which payloads: two
sessions at intake, both of which deliver, match and classify; two deliveries of every kind of payload
(clean, unstorable text, a file without its header, every kind of row defect, more than
`MAX_REPORTED_DEFECTS` of them); one session at intake that also claims and proposes beside one
that claims and proposes; and the same with pricing. All rosters of all the sessions at once
do not finish in minutes, and every hazard of the list is between the duties of one
roster. Two sessions are enough for each: every race is between one run's read and one other
run's write, and the one cycle of waits that the code leaves (`LineLocksOrdered`) needs
two. The payloads are chosen for the rules: two lines of one order that contest an
entry, one of them exactly and one within the tolerance; a chargeback and its reversal in
two files; a capture and the refund of it in another period; a fee of a capture that
another file delivers. `MaxAsks` = 3 answers are recorded in one behaviour, which admits two
about one exception beside one about another; claims are of one or two exceptions
(`claiming`), below, at and beyond the number there is; `Treatments` are the two that the
configurations map accounts for: a treatment that cannot be priced stops at
`compute_adjustment`, and the theorems are about all four. `Scopes` are one batch and
all of them. `MaxCandidates` = 1 makes evidence leave an entry out. Sessions are
interchangeable (every roster is there with its sessions exchanged), so `Symmetry` is sound.

`InterlockSound` and `ImplementsLife` are checked for the ledgers that suppress nothing.
Under key enforcement they fail for the reason of finding `overwrite`: a throttled re-send
replaces the recorded unknown, and the interlock no longer sees that the books may have
moved.

**Fairness** (`PromptSpec`). A live worker goes on with what it has started (weak
fairness). Somebody keeps invoking the due pass and the reconciliation pass (strong
fairness, because each is enabled only between other workers' steps): the package
contains no scheduler for them, `reconcile_once` is called only by the demonstration,
so this is an assumption on the deployment and the properties say what it buys. Requests
leave the wire and time passes. Nothing is assumed of replays and operators. A due row is
claimed within the tick in which it is due (`PromptTick`), and `MaxSends` is
`MaxAttempts + MaxCrashes`, so that the bounds on time and sends do not end the run
before the budgets do: in `live` there is one worker, so that only a death can cost an
attempt beyond `max_attempts` before the row leaves the due pass (`SendsWithinBudget`).

## 5. Findings

* **`stale_read`**: PROJECT_SPEC.md:534 measures both windows "since the last send". A pass
  reads the last send before it queries and does not read it again. When another
  worker's attempt is resolved as throttled and retried in between, the pass settles
  REJECTED by the older send, and the newer request is applied. `queryable` shows that
  without throttling, where no attempt can follow an ambiguous one, the verdict is true.
* **`lag`**: PROJECT_SPEC.md:598 says the later appearance of a posting "is observed". The
  code waits for the longer of visibility bound and in-flight window since the send; a
  request that lands at the end of the one is visible only after the other on top of it.
  The run uses equal windows; `queryable` uses windows for which the longer is enough.
* **`overwrite`**: README.md:214 says an UNKNOWN is never overwritten and never enters the
  retry path. Under key enforcement, a re-send that is throttled replaces it in
  `outbox.last_outcome`, and the retry then sends without the bounds of a re-send.
* **`unpaused`**: PROJECT_SPEC.md:468 says no send is initiated for a settled operation.
  The check and the write are two transactions and an open recovery item does not stop
  the retry path, so an operator's judgement in between is followed by a send. The
  `weak` run assumes that operators judge "not applied" only while no worker stands
  between its check and its send (`RunnersPaused`), and there the property holds. No
  document of the repository asks for that: the evidence procedures in
  `operations/recovery.py:133-195` ask only for the vendor's confirmation, dated after the
  in-flight window. The finding shows that the condition is needed.
* **`interlock`**: approval.py:169 says that adjudication releases the interlock, so that no
  ambiguity is a dead end. The interlock also blocks on an attempt row in flight, and
  `resolve_item` settles the outbox row without touching the attempt. After a crash or an
  unclassified failure in the middle of a send nobody else does either. The repository's own
  test of the release (`test_reconcile_postgres.py`) adjudicates a recorded UNKNOWN, whose
  attempt is already resolved.
* **`live_twice`**: approval.py:105 says that one exception must never have two live
  resolutions. The interlock only looks at operations that were sent: a version approved or
  enqueued and not dispatched yet does not block the next one, and then both are sent.

Eight further observations have no run. PROJECT_SPEC.md:459 says "there is no committed approval
without an outbox row": the decision routes commit the approval alone, and only the
demonstration calls `enqueue_posting`; what holds is `IntentWithOperation`. And
`record_decision` never compares an approved treatment with the proposed one, so whether a
decision is an edit is the client's statement; the model therefore lets an approval name any
treatment. And the rule for a cross-period refund compares the two periods with `!=`
(`classification/engine.py`), where its docstring, `classification/engine.py:157`, speaks of
a refund in a later accounting period: a refund that settles in an earlier period than
the capture it reverses is classified in the same way. `AccruedElsewhere` holds of both.
Three more are why `SendsWithinBudget` and `RejectionLettered` say what they say.
docs/deployment.md:160 calls `max_attempts` the "maximum sends per operation, the first
included". The code does not keep that: the count is compared after a send, in a transaction
of its own (`retry.py:481`), and neither the claim nor the gate looks at it. Until that
transaction the row is still due, and a second pass that claims it sends attempt
`max_attempts + 1` with nothing having failed; a process that dies before it costs one
more; and a replay sends without counting at all. `SendsWithinBudget` says that this is all:
one for each worker beyond the first, one for each death, one for each replay. In `weak` the
bound is met and cannot be lowered: two workers reach `max_attempts + 1` attempts without a
death or a replay, and one more with one of either. PROJECT_SPEC.md:619 sends every 4xx "straight to DLQ": the runner
writes the letter after the dispatcher has returned, and a re-send of the reconciliation that is
declined is settled and reported without one (`reconcile.py:543`). And `recovery.py:420` says
an operation judged `resolved_unverified` is "permanently closed to the automatic path": only
an open item stops a pass, and under key enforcement, inside the window, a pass with the
adapter of the original scope re-sends it (`reconcile.py:531`); without enforcement, a retry
whose attempt was resolved as not sent after the item was opened goes on as well.
`AtMostOneEffect` in `enforcing`, where that re-send happens, shows that it moves the books no second time.
The last two are why the proofs under key enforcement have the conditions they have, and
TLC shows each of them on `enforcing` with other constants. `resend_is_within_bounds` compares
the key's window with the clock of the gate (`dispatcher.py:168`) and does not add the
in-flight window: a re-send that is permitted just before the key expires, and that lands as
late as the adapter allows, finds no key and posts a second time; `KeyOutlastsFlight` excludes
it. And the original endpoint and time are those of the first attempt on record
(`dispatcher.py:362`), also where that attempt was turned away: an operation throttled at one endpoint
and undetermined at another may be sent to the first again under a key per endpoint, which never saw
it; `OneScope` or `NeverTurnsAway` excludes that.

## 6. Proofs

`tlapm` checks the eight proof modules to the last leaf. Constants are only assumed to be
what `CapabilityAssumption`, `PolicyAssumption`, `ModelAssumption`, `NullAssumption`,
`LedgerAssumption`, `ConnectAssumption`, `RecoveryAssumption`, `CrashAssumption` and, for the
count of sends, `WorkersAssumption` (finitely many workers) say
(for the gate: `RolesAssumption`, `OutcomesAssumption`, `OperatedAssumption`, `AbsentAssumption`): any
capability record, policy, set of workers, answers and bounds. For the pipeline these are
`FractionAssumption`, `BoundAssumption`, `MonthAssumption`, `NullAssumption`,
`PayloadAssumption`, `IdAssumption` (finitely many lines, with ids that no two rows share),
`EntryAssumption`, `PolicyAssumption` (of `Matching`: a tolerance per currency, and a window), `ScopeAssumption`,
`AbsenceAssumption`, `ContextAssumption` (what `__post_init__` refuses is not configured),
`AnswersAssumption` and `RosterAssumption`: any files, entries, configurations, answers, any
number of sessions and any assignment of duties, all duties to all sessions included.

* `TypeProofs`: `TypeInvariant` and `TypeCorrect` (`TypeOK`). `TypeOK` alone is not
  inductive: `WriteAhead` needs the number to be at most one beyond the rows,
  `RecordOutcome` needs the answer to be an outcome. `TypeInv` adds `TaskFits`, what each
  worker's locals are at the point where they are used. One lemma per action.
* `SafetyProofs`, any ledger: `FlightInvariant` and `EvidenceIsTruthful`. `FlightInv` says
  that an attempt in work has one owner and is in flight (`Owned`), that nothing of it is
  outside before the socket write (`Unsent`), that a request is on the wire, applied or
  partial and never two of these (`RequestOnce`), and that an answer about to be recorded
  is true (`AnswerTrue`). Ownership is what makes `_resolve_not_sent` close its own row:
  its worker's attempt is in flight, so where exactly one is, it is that one.
* `SafetyProofs`, a ledger that does not suppress duplicates: `SerialInvariant`,
  `OnlyLastAttemptIsLive`, `AtMostOnce`. Every attempt but the newest was turned away
  before the books (`OnlyLast`); unless the operation is settled the outbox outcome is the
  newest attempt's (`LastAgrees`); and a worker that the gate let through and whose number
  is still free follows only turned-away attempts (`WriteFresh`). The last one carries
  the argument that the code makes in a comment: the lock of transaction 1 is gone, but
  whoever changed the world since has taken the number, and the unique index refuses the
  other. `AtMostOneEffect` follows, since evidence is truthful and so an effect can only
  be the newest attempt's.
* `HistoryProofs`: `TerminalIsForever` and `EvidenceIsImmutable`, from the triggers as
  `OutboxPermits` and `AttemptPermits` and the frame of every action.
* `VerdictProofs`, any ledger: `ClosedIsFinished` (`ReplayedMeansTerminal`). A worker about
  to close an entry has read a terminal outcome, which is forever (`ClosedInv`).
* `VerdictProofs`, a ledger that neither suppresses duplicates nor answers queries, operators
  judging with the runners paused: `SettledInvariant`, `VerdictIsTrue`, `NothingSentOnceSettled`
  and `PostsOnce`, the refinement of `PostingOnce`. A true verdict is not inductive: a
  rejection could be overtaken. `SettledInv` adds that a rejected operation has nothing on the
  wire and that nobody is about to send a settled one (`Sending`: at the socket, or holding
  the next free number); `NoQuery`, that nobody asks a ledger that cannot be asked. Whoever gives a verdict ends
  the newest attempt, so every other worker's number is taken (`OnlyNewestLives`), or has
  evidence that excludes a sender, which is where the pause is needed.
* `VerdictProofs`, a ledger that suppresses no duplicates and may be asked: `QueriedVerdictIsTrue`,
  `QueriedNothingSentOnceSettled` and `QueriedPostsOnce`. The step that is new is the conclusion of a
  reconciliation pass, and `FreshConclusion` says when it is sound. `QueryInv` is the calendar it
  needs: what a worker read of the clock is past, and recent before a send, which is dated
  with it (`ClockRead`); a request is under way or moved the books inside the in-flight window of its
  recorded time (`LandsInWindow`); a posting found stays, and one not found was too young to be visible, or
  came later (`AnswersStand`). `NothingIsComing` puts it together: past both windows of the
  newest send, for an operation still undetermined, the books have not moved, the wire is
  empty and nobody is about to send. Two conditions remain, one for each finding about
  queries. `QueryFits`: the socket is written inside the in-flight window, and one of visibility
  bound and in-flight window is at most one tick; that is exactly where the longer of the two
  is as long as one after the other (`lag`). `[][~StaleRejection]_vars`: no rejection is
  concluded after the operation was sent again or is undetermined no more (`stale_read`).
  `PostsOnceWhereAnswered` needs no such condition on behaviours: a ledger and a transport that
  turn nothing away (`NeverTurnsAway`) leave no attempt that another may follow, so that what a
  pass has read of the last send stays the last send (`FreshPasses`).
* `VerdictProofs`, a ledger that enforces the key: `EnforcedPostsOnce` and
  `EnforcedPostsOnceWhereAnswered`, `AtMostOneEffect` where sends do repeat. An attempt **stands** that
  was not turned away. `KeyInv` says that the gate sees it (`GateSees`: the operation is undetermined or
  finished), that whoever writes or has written behind it is within the scope and
  the window of the first send (`WritesBounded`, `SendsBounded`), and that a posting is later than the
  sends on record when its request was written (`PostedAfter`). `KeyCatches` concludes that a
  request that arrives behind a posting finds the key held, whichever of the two was sent
  first. The conditions: `KeyOutlastsFlight` (section 5); and either one endpoint, or a scope
  without endpoints, and no step that hides an attempt that stands behind one turned away
  (`[][~Overwritten]_vars`, finding `overwrite`), or a ledger that turns nothing away, as in `enforcing`.
* `RecordProofs`, any ledger: `TrailIsComplete` and `RejectionIsEvidenced`. The first is
  inductive by counting rows and events together (`CountOneMore`).
* `RecordProofs`, a ledger that suppresses nothing: `RejectionsAreLettered`. `LetterInv` says that a
  rejection has its letter, a worker on its way to write it, or a death to account for it; that
  only retries and replays send, and a replay has a letter already; and that a settled row is
  terminal, so that the trigger does not refuse the letter.
* `RecordProofs`, the same ledger: `SendsAreWithinBudget`, of `CountedSpec`, for any finite set of
  workers. `BudgetInv` counts: while the row is retry work without a letter, the attempts at or
  beyond the ceiling that were turned away and that no runner is about to count (`Uncounted`)
  are no more than the deaths so far. So the attempts and the retry passes that may still add
  one (`Able`: past the claim, before the write-ahead) fit into the ceiling, the further
  workers and the deaths (`OpenRoom`: a worker about to count an attempt is not able to add one).
  `SendInv` carries that past the moment the row leaves the due pass: nobody turns able any
  more, an insert is paid for by the pass that stops being able or by a replay
  (`InsertionPaid`), and behind an attempt that is not turned away nothing is inserted (`Stuck`).
* `RecordProofs`, the weak ledger again: `InterlockIsSound`, and `ImplementsTheLife`, that
  every step is a step of the `OperationLife` which `Approvals` composes and `ApprovalProofs` proves
  about. `LifeInv` says that at most one recovery item is open and that an undetermined
  outcome belongs to an attempt; with `SettledInv` it makes a write-ahead possible only
  while nothing is undetermined or final, and a judgement close the only open item.
  `QueriedInterlockIsSound` and `QueriedImplementsTheLife` are the same for a ledger that can be asked, under
  the conditions of `QueriedVerdictIsTrue`, and `LivesWhereAnswered` under those of `PostsOnceWhereAnswered`, which
  the run `queryable` meets: what a pass concludes is then a step of the life too (`LivedConcluded`).
* `ApprovalProofs`: all seven properties of the gate. `DecisionInv` says what a session past
  its checks holds and that a row past the unique indexes conflicts with no committed row and
  with no other uncommitted one (`IndexInv`, without which `OneDecision` is not inductive).
  `EnqueueInv` says that an approval has one lock holder (`LockInv`); with `OneDecision`,
  approvals of one version are one row, so an insert cannot surprise another enqueuer.
  `KnownInv` says of an operation that is not in flight, not ambiguous and not judged that its
  recorded outcome tells what the books did: it got there by a true record and only its own
  sender could have moved the books since. `UnknownNotSuperseded` follows, since the trigger
  lets nothing else pass.

* `IntakeProofs`: the parts of `IntakeInv`, and from them every property of
  ingestion, matching and classification. No property is inductive alone: what a session
  will write rests on what it has read, and others write in between. `HoldsWhatItNeeds` says
  which rows a session at each step has locked, `KnowsWhatStands` what it knows of them
  that cannot have changed (the lines a matcher is about to mark are under no
  exception; a classifier's decision is the one its locked rows still give), and `InsertsApart` that
  uncommitted inserts conflict with nothing committed and not with each other, so that a
  unique index only ever meets what `insert_match` absorbs. `RowsOnlyGrow` and `OthersKeepTheirs`
  are what a step of one session may do to what the others know: it changes no locked row
  of theirs, a line's content never changes, a booked line stays booked. The last two are
  why a classification may go on trusting the booked rows it has not locked. `LineLocksAreOrdered` is the classic argument: of the
  sessions that wait for a line, the one that waits for the least id would have to be waited
  for by one that waits lower still. `CleanRowIsStorable` is the lemma that normalisation refuses
  all that the columns would (one direction only: it may refuse more).
* `DeskProofs`, on top of it: `DeskInv` and all properties of claims, proposals and operations.
  `AtTheDesk` says what a session holds and what its instruction is: the price of its
  exception under some configuration (`Priced`), which stays one while intake goes on
  (`PriceStands`: the facts are of rows that do not change, and the counterpart's period is of a
  booked line). Under the lock of its approval, what an enqueuer has seen of the adjustments
  stands (`DeskGrows`: only the holder of the lock adds a row). `RowsRight` and `BooksRight`
  are what has been recorded. `OriginIsCounterpart` is the point of `AccruedElsewhere`: the one
  booked offset that `originating_period` finds must be the capture that the exception was
  raised for, since that one is still booked.

Every safety property of a passing run is stated by a theorem, under conditions that the run's
constants meet. Only model-checked: the liveness properties (fairness and ENABLED are out of the prover's
reach), and what the six runs of section 5 refute.

## 7. What is not modelled

* In the posting models, amounts, accounts, currencies and references: there an operation is
  one operation, and that a replay carries the persisted instruction and identifier is by
  construction. `Enqueue` and `Pricing` are about how they got there.
* Database failures other than refusals, which propagate like a process death.
* A pass over several rows: its batch is one claim per operation and a common `now`,
  which `MaxStall` stands for.
* Conformance runs: `Verified` is their result.
* Provider text, audit scopes and correlation identifiers, metrics and logs, HTTP.
* Deliveries name one payload each and a payload has one digest; two payloads with equal
  bytes are one. The memo and the presentment columns of a line are checked like the others and
  then dropped: nothing reads them.
* In a claim, the order of open exceptions by age: exceptions of one run have the same
  time and are then ordered by a random id, so any may be the oldest. `external_ref` is unique,
  which makes the ranking of candidates total.
* What a piece of evidence says: its id is derived from the exception and the source, and
  what it is assembled from does not change. Prompts, cassettes and wire formats.
* `load_subject` reads the exception and the candidates in one step, although the code
  runs two statements: both are only read, and the evidence they become is checked where it is stored.
* A second resolution of an exception is in `Approvals` only, and the lives of recorded operations
  in `ControlPlane` only; `Enqueue` ends where their `Init` begins, with the adjustment and its
  outbox row committed.
* Liveness of the pipeline: the package contains no scheduler for any of its passes, so that
  nothing has to happen.
* The components listed as `not_modelled` in `PROJECT.json`: the frontend, which keeps no
  state; observability and configuration; fixtures and the naive baseline, which are not part of
  the product.

## 8. What could follow

1. The conformance scenarios of `ledger/conformance.py`, so that `Verified` is derived and
   not given.
2. The recovery and replay routes, and segregation of duties between approver and resolver.
3. Runs for the two observations about the key's bounds (section 5): a window as long as the
   in-flight window, and an operation throttled at one endpoint and undetermined at another.
4. Verdicts under key enforcement: which of a re-send's answers may be recorded while the first
   request is still under way.
