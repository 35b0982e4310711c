----------------------------- MODULE MCControlPlane -----------------------------
(***************************************************************************)
(* Instances of the control plane for TLC: the three reference adapters of *)
(* ledger/simulated.py with their durations scaled to ticks.               *)
(***************************************************************************)
EXTENDS Supersession, TLC

CONSTANTS w1, w2, e1, e2, op1, boss


\* NonIdempotentLedger: every field at its default; UNDECLARED_LAG outlasts the model.
WeakLedger ==
    [idempotency |-> "none", idempotency_window |-> 0,
     idempotency_scope |-> "per_endpoint", posting_identity_query |-> "none",
     linearizable |-> FALSE, visibility_bound |-> 99, max_inflight_window |-> 99]

\* A queryable ledger that enforces nothing.  QueryableNonIdempotentLedger declares
\* LINEARIZABLE; an EVENTUAL lag of one tick adds the answers only it can give.
QueryableLedger ==
    [idempotency |-> "none", idempotency_window |-> 0,
     idempotency_scope |-> "per_endpoint",
     posting_identity_query |-> "by_operation_id",
     linearizable |-> FALSE, visibility_bound |-> 1, max_inflight_window |-> 2]

\* The same ledger with a lag as long as its in-flight window.
LaggingLedger == [QueryableLedger EXCEPT !.visibility_bound = 2]

\* A ledger that enforces the key for two ticks per endpoint and cannot be queried;
\* its requests land in the tick they are sent in.
EnforcingLedger ==
    [idempotency |-> "enforces_key", idempotency_window |-> 2,
     idempotency_scope |-> "per_endpoint", posting_identity_query |-> "none",
     linearizable |-> FALSE, visibility_bound |-> 99, max_inflight_window |-> 1]

BothProven == [suppression_proven |-> TRUE, query_proven |-> TRUE]
NoneProven == [suppression_proven |-> FALSE, query_proven |-> FALSE]

Symmetry == Permutations(Workers)
===============================================================================
