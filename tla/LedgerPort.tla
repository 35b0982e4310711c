------------------------------ MODULE LedgerPort ------------------------------
(***************************************************************************)
(* The capability record an adapter declares, what of it a caller may act  *)
(* on, and the pure decisions every other module takes from it:            *)
(* ledger/port.py, the branch and the bounds of operations/dispatcher.py,  *)
(* the windows of operations/reconcile.py, the budgets of                  *)
(* operations/retry.py.  Durations and instants are natural numbers.       *)
(***************************************************************************)
EXTENDS Integers

CONSTANTS
    NULL,           \* SQL NULL / Python None
    Unbounded,      \* port.Unbounded.UNBOUNDED, a window that never expires
    Declared,       \* what the adapter declares of itself
    Verified,       \* which of its strong claims the conformance run proved
    BaseDelay, Multiplier, Cap,         \* RetryPolicy: the backoff curve
    MaxAttempts, TimeBudget,            \* RetryPolicy: the two bounds
    ConsecutiveNotFound, MaxQueries     \* ReconciliationPolicy

IdempotencyMode  == {"none", "accepts_key", "enforces_key"}
PostingQueryMode == {"none", "by_operation_id"}
IdempotencyScope == {"global", "per_endpoint", "per_account"}

\* query_consistency is folded into the lag it means: LINEARIZABLE is a visibility
\* bound of zero, EVENTUAL(v) one of v (visibility_bound_of reads nothing else).
LedgerAdapterCapabilities ==
    [idempotency : IdempotencyMode,
     idempotency_window : Nat \cup {Unbounded},
     idempotency_scope : IdempotencyScope,
     posting_identity_query : PostingQueryMode,
     linearizable : BOOLEAN,
     visibility_bound : Nat,
     max_inflight_window : Nat]

VerifiedCapabilities == [suppression_proven : BOOLEAN, query_proven : BOOLEAN]

ASSUME CapabilityAssumption ==
    /\ Declared \in LedgerAdapterCapabilities
    /\ Verified \in VerifiedCapabilities
    /\ Unbounded \notin Nat

\* RetryPolicy.__post_init__ and ReconciliationPolicy.__post_init__.  The multiplier
\* is a float of at least 1.0 in the code; here it is an integer.
ASSUME PolicyAssumption ==
    /\ BaseDelay \in Nat \ {0} /\ Multiplier \in Nat \ {0}
    /\ Cap \in Nat /\ Cap >= BaseDelay
    /\ MaxAttempts \in Nat \ {0} /\ TimeBudget \in Nat \ {0}
    /\ ConsecutiveNotFound \in Nat \ {0}
    /\ MaxQueries \in Nat /\ MaxQueries >= ConsecutiveNotFound

-------------------------------------------------------------------------------
\* Downgrade every strong claim that has no passing conformance run behind it.
effective_capabilities(declared, verified) ==
    [declared EXCEPT
        !.idempotency =
            IF verified.suppression_proven \/ @ # "enforces_key" THEN @ ELSE "none",
        !.posting_identity_query =
            IF verified.query_proven \/ @ # "by_operation_id" THEN @ ELSE "none"]

Caps == effective_capabilities(Declared, Verified)

suppresses_duplicates == Caps.idempotency = "enforces_key"
queryable_by_operation_id == Caps.posting_identity_query = "by_operation_id"

\* The capability branch for an operation whose outcome is undetermined.
resend_decision ==
    IF suppresses_duplicates THEN "permitted"
    ELSE IF queryable_by_operation_id THEN "reconcile_first" ELSE "manual_recovery"

\* Mutant: the window is checked, the scope forgotten.
window_without_scope(first_sent_at, now, original_endpoint, target_endpoint) ==
    IF ~suppresses_duplicates \/ first_sent_at = NULL THEN "not_enforced"
    ELSE IF Caps.idempotency_window = Unbounded THEN "permitted"
    ELSE IF now - first_sent_at < Caps.idempotency_window
         THEN "permitted" ELSE "window_expired"

\* The two bounds on a permitted re-send: the key's scope and the key's window,
\* both measured from the first attempt on record.
resend_is_within_bounds(first_sent_at, now, original_endpoint, target_endpoint) ==
    IF ~suppresses_duplicates \/ first_sent_at = NULL THEN "not_enforced"
    ELSE IF /\ Caps.idempotency_scope = "per_endpoint"
            /\ original_endpoint = NULL \/ original_endpoint # target_endpoint
         THEN "scope_unproven"
    ELSE IF Caps.idempotency_window = Unbounded THEN "permitted"
    ELSE IF now - first_sent_at < Caps.idempotency_window
         THEN "permitted" ELSE "window_expired"

visibility_bound_of == IF Caps.linearizable THEN 0 ELSE Caps.visibility_bound

\* Mutant: the visibility bound alone, as if every request had landed when asked.
visible_only(last_sent_at, now) == now - last_sent_at >= visibility_bound_of

\* Both windows, since the last send.
negative_answer_is_trustworthy(last_sent_at, now) ==
    /\ now - last_sent_at >= visibility_bound_of
    /\ now - last_sent_at >= Caps.max_inflight_window

-------------------------------------------------------------------------------
MinOf(a, b) == IF a <= b THEN a ELSE b
MaxOf(a, b) == IF a >= b THEN a ELSE b

\* base * multiplier ** (attempt_no - 1), capped.
backoff_ceiling(attempt_no) == MinOf(BaseDelay * Multiplier ^ (attempt_no - 1), Cap)

\* Full jitter: any delay up to the ceiling.
backoff_delay(attempt_no) == 0 .. backoff_ceiling(attempt_no)

\* The wall-clock budget is spent, or would be before the delayed attempt ran.
budget_exhausted(first_sent_at, now, delay) ==
    /\ first_sent_at # NULL
    /\ now + delay - first_sent_at >= TimeBudget
===============================================================================
