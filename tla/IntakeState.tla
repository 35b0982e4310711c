------------------------------ MODULE IntakeState ------------------------------
(***************************************************************************)
(* The tables between a settlement file and its exceptions (db/models.py,  *)
(* db/control.py) and the database sessions that work on them: what is     *)
(* committed, which row locks are held, and what each session has read and *)
(* not yet written.  A statement of READ COMMITTED sees what is committed; *)
(* an uncommitted row is the session's own.                                *)
(***************************************************************************)
EXTENDS SettlementFile, FiniteSetsExt

CONSTANTS
    Sessions,       \* database sessions: deliveries, matchers, classifiers, desks
    Batches,        \* distinct payloads, by their content hash
    Payload,        \* what each one says
    Lines,          \* settlement line ids, which order as the uuids do
    LineId,         \* the id each row of a payload is given if it is stored
    Entries,        \* the imported ledger snapshot
    Entry,          \* amount, currency, booking date and external_ref of each
    Band,           \* TolerancePolicy.amount, in sub-units, per currency
    Window,         \* TolerancePolicy.value_date_window_days
    Scopes          \* bound: the batch_id arguments in use, NULL for all batches

Rows(b) == Numbered(Payload[b])

\* Rows are numbered from one, and a plain decimal is a number.
ASSUME PayloadAssumption ==
    \A b \in Batches :
      /\ DOMAIN Payload[b].rows \subseteq Nat \ {0} /\ IsFiniteSet(DOMAIN Payload[b].rows)
      /\ \A n \in Rows(b) :
           LET row == Payload[b].rows[n]
           IN  row.width = SETTLEMENT_COLUMNS /\ row.amount.plain => row.amount.value \in Int
ASSUME IdAssumption ==
    /\ Lines \subseteq Nat /\ IsFiniteSet(Lines)
    /\ \A b \in Batches : \A n \in Rows(b) : LineId[b][n] \in Lines
    /\ \A b, c \in Batches : \A m \in Rows(b), n \in Rows(c) :
         LineId[b][m] = LineId[c][n] => b = c /\ m = n
LedgerEntry == [amount : Int, currency : Currencies, booked_on : Nat, external_ref : Nat]
ASSUME EntryAssumption == Entry \in [Entries -> LedgerEntry]
ASSUME ScopeAssumption == Scopes \subseteq Batches \cup {NULL}

\* The row of settlement_line that row n of payload b becomes.
line_of(b, n) == NormalisedLine(b, n, Payload[b].rows[n])
SettlementLine == UNION {{line_of(b, n) : n \in Rows(b)} : b \in Batches}

MatchRule == {"exact_amount", "amount_within_tolerance"}
ClassificationRule == {"reversal_of_booked_chargeback",
                       "refund_of_booked_capture_across_periods",
                       "fees_deducted_from_a_capture", "no_rule_matched"}
ASSUME AbsenceAssumption ==
    /\ NULL \notin Sessions /\ NULL \notin Batches
    /\ NULL \notin SettlementLine /\ NULL \notin ClassificationRule
ProposedMatch == [line : Lines, entry : Entries, rule : MatchRule]

VARIABLES
    batch,          \* settlement_batch: status, and the reason when quarantined
    settlement_line, \* settlement_line: what the file said, NULL when absent
    match_state,    \* settlement_line: absent, or its match_state
    match_result,   \* match_result rows
    exception,      \* the rule of the exception raised for a line, NULL for none
    matched_events, \* audit_event rows of tool MATCH, per line
    batch_lock,     \* FOR UPDATE on settlement_batch, the session holding it
    line_lock,      \* FOR UPDATE on settlement_line, likewise
    job             \* what each session is doing

tables == <<batch, settlement_line, match_state, match_result, exception, matched_events>>
intakeVars == <<batch, settlement_line, match_state, match_result, exception,
                matched_events, batch_lock, line_lock, job>>

Reason == [shown : 0 .. MAX_REPORTED_DEFECTS, more : Nat]
BatchStatus == {"received", "parsed", "quarantined"}
BatchRow == [status : BatchStatus \cup {"absent"}, reason : Reason \cup {NULL}]
MatchState == {"unmatched", "matched"}
ExceptionRecord == ClassificationRule \cup {NULL}
Step == {"idle", "claim", "settle",                 \* ingest
         "entries", "lock", "examine", "insert",    \* run_matching
         "context", "pin", "decide", "persist",     \* run_classification
         "desk", "refused"}
Job == [pc : Step, batch : Batches \cup {NULL}, read : SUBSET Lines,
        want : SUBSET Lines, proposed : SUBSET ProposedMatch,
        inserted : SUBSET ProposedMatch,
        verdict : [Lines -> ClassificationRule \cup {NULL}]]

Idle == [pc |-> "idle", batch |-> NULL, read |-> {}, want |-> {}, proposed |-> {},
         inserted |-> {}, verdict |-> [l \in Lines |-> NULL]]

Do(s, j) == job' = [job EXCEPT ![s] = j]

\* The transaction of s is over: its locks are gone, and what it had not
\* committed with them.
Release(s) ==
    /\ batch_lock' = [b \in Batches |-> IF batch_lock[b] = s THEN NULL ELSE batch_lock[b]]
    /\ line_lock'  = [l \in Lines |-> IF line_lock[l] = s THEN NULL ELSE line_lock[l]]
EndAs(s, pc) == Release(s) /\ Do(s, [Idle EXCEPT !.pc = pc])
End(s) == EndAs(s, "idle")

Pinned(s) == {l \in Lines : line_lock[l] = s}

\* Mutant: a matcher locks in whatever order its matches came.
as_they_came(s) == IF job[s].pc = "lock" THEN Max(job[s].want) ELSE Min(job[s].want)

\* SELECT ... ORDER BY id FOR UPDATE takes its rows in id order.
next_wanted(s) == Min(job[s].want)

\* One row lock; s waits while another session holds the row.
LockLine(s, next) ==
    /\ line_lock[next_wanted(s)] = NULL
    /\ line_lock' = [line_lock EXCEPT ![next_wanted(s)] = s]
    /\ LET rest == job[s].want \ {next_wanted(s)}
       IN  Do(s, [job[s] EXCEPT !.want = rest,
                                !.pc = IF rest = {} THEN next ELSE job[s].pc])
    /\ UNCHANGED <<tables, batch_lock>>

\* Lines neither matched nor under an exception, which matching and
\* classification both select.
eligible_lines(scope) ==
    {l \in Lines : /\ match_state[l] = "unmatched"
                   /\ \A row \in match_result : row.line # l
                   /\ exception[l] = NULL
                   /\ scope # NULL => settlement_line[l].batch_id = scope}

InitIntake ==
    /\ batch = [b \in Batches |-> [status |-> "absent", reason |-> NULL]]
    /\ settlement_line = [l \in Lines |-> NULL]
    /\ match_state = [l \in Lines |-> "absent"]
    /\ match_result = {}
    /\ exception = [l \in Lines |-> NULL]
    /\ matched_events = [l \in Lines |-> 0]
    /\ batch_lock = [b \in Batches |-> NULL]
    /\ line_lock = [l \in Lines |-> NULL]
    /\ job = [s \in Sessions |-> Idle]
===============================================================================
