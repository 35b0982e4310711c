----------------------------- MODULE Classification -----------------------------
(***************************************************************************)
(* classification/engine.py, taxonomy.py and service.py: what a residual   *)
(* line is, decided from the other lines of its order.  One transaction    *)
(* locks every line the decision will read, reads them again, decides, and *)
(* raises one exception per residual.                                      *)
(***************************************************************************)
EXTENDS Matching

MovementType == {"capture", "fee", "refund", "chargeback", "chargeback_reversal",
                 "adjustment"}

\* A type outside the closed vocabulary is no evidence.
movement_type(l) ==
    LET declared == settlement_line[l].transaction_type
    IN  IF declared # NULL /\ declared.value \in MovementType
        THEN declared.value ELSE NULL

\* One order: one merchant reference and one currency.  Absence relates nothing.
same_order(l, m) ==
    /\ settlement_line[l].merchant_reference # NULL
    /\ settlement_line[l].merchant_reference = settlement_line[m].merchant_reference
    /\ settlement_line[l].currency = settlement_line[m].currency

related(l, context) == {m \in context \ {l} : same_order(l, m)}

booked_offsets(l, context, booked) ==
    {m \in related(l, context) \cap booked :
        settlement_line[m].amount = -settlement_line[l].amount}
\* Mutant: a movement the ledger does not carry can be reversed.
offsets_booked_or_not(l, context, booked, kind) ==
    {m \in related(l, context) : settlement_line[m].amount = -settlement_line[l].amount
                                   /\ movement_type(m) = kind}
booked_offsets_of_type(l, context, booked, kind) ==
    {m \in booked_offsets(l, context, booked) : movement_type(m) = kind}

reversal_of_booked_chargeback(l, context, booked) ==
    /\ movement_type(l) = "chargeback_reversal"
    /\ settlement_line[l].amount > 0
    /\ Cardinality(booked_offsets_of_type(l, context, booked, "chargeback")) = 1

refund_of_booked_capture_across_periods(l, context, booked) ==
    LET offsets == booked_offsets_of_type(l, context, booked, "capture")
    IN  /\ movement_type(l) = "refund"
        /\ settlement_line[l].amount < 0
        /\ Cardinality(offsets) = 1
        /\ \A m \in offsets : accounting_period(settlement_line[m].value_date)
                                # accounting_period(settlement_line[l].value_date)

\* A line the reversal rules have a claim on is not available to this one.
fees_deducted_from_a_capture(l, context, booked) ==
    LET group      == {l} \cup (related(l, context) \ booked)
        amount(m)  == settlement_line[m].amount
        inflows    == {m \in group : movement_type(m) = "capture" /\ amount(m) > 0}
        deductions == {m \in group : movement_type(m) = "fee" /\ amount(m) < 0}
    IN  /\ movement_type(l) \in {"capture", "fee"}
        /\ booked_offsets(l, context, booked) = {}
        /\ inflows # {} /\ deductions # {}
        /\ -SumFunction([m \in deductions |-> amount(m)]) < Max({amount(m) : m \in inflows})

\* RULES, in RULE_PRECEDENCE.
RulePrecedence == <<"reversal_of_booked_chargeback",
                    "refund_of_booked_capture_across_periods",
                    "fees_deducted_from_a_capture">>
fires(rule, l, context, booked) ==
    CASE rule = "reversal_of_booked_chargeback" ->
           reversal_of_booked_chargeback(l, context, booked)
      [] rule = "refund_of_booked_capture_across_periods" ->
           refund_of_booked_capture_across_periods(l, context, booked)
      [] rule = "fees_deducted_from_a_capture" ->
           fees_deducted_from_a_capture(l, context, booked)

\* classify(): every rule is evaluated, and the first that fired wins.
rule_for(l, context, booked) ==
    LET fired == {i \in DOMAIN RulePrecedence : fires(RulePrecedence[i], l, context, booked)}
    IN  IF fired = {} THEN "no_rule_matched" ELSE RulePrecedence[Min(fired)]

-------------------------------------------------------------------------------
Stored == {l \in Lines : settlement_line[l] # NULL}
Booked == {l \in Lines : match_state[l] = "matched"}

\* The residuals of a parsed batch.
residual_lines(scope) ==
    {l \in eligible_lines(scope) : batch[settlement_line[l].batch_id].status = "parsed"}

\* _load_context: every stored line of a residual's orders, matched or not, in
\* any batch.
context_of(lines) ==
    {m \in Stored : /\ batch[settlement_line[m].batch_id].status = "parsed"
                    /\ \E l \in lines : /\ settlement_line[l].merchant_reference # NULL
                                        /\ settlement_line[l].merchant_reference
                                             = settlement_line[m].merchant_reference}

load_residuals(s, scope) ==
    /\ job[s].pc = "idle"
    /\ residual_lines(scope) # {}
    /\ Do(s, [Idle EXCEPT !.pc = "context", !.batch = scope,
                          !.read = residual_lines(scope)])
    /\ UNCHANGED <<tables, batch_lock, line_lock>>

ids_to_pin(s) == job[s].read \cup context_of(job[s].read)

\* Mutant: only the residuals are locked, not what explains them.
pin_residuals_only(s) ==
    /\ job[s].pc = "context"
    /\ Do(s, [job[s] EXCEPT !.pc = "pin", !.want = job[s].read, !.read = ids_to_pin(s)])
    /\ UNCHANGED <<tables, batch_lock, line_lock>>

\* Everything the decision will read is to be locked.
load_context(s) ==
    /\ job[s].pc = "context"
    /\ Do(s, [job[s] EXCEPT !.pc = "pin", !.want = ids_to_pin(s), !.read = ids_to_pin(s)])
    /\ UNCHANGED <<tables, batch_lock, line_lock>>

pin(s) == job[s].pc = "pin" /\ LockLine(s, "decide")

\* The second read, under the locks, and the decision: a residual that moved
\* drops out, and a line that appeared since is left for the next run.
decide_rules(s) ==
    LET subjects == residual_lines(job[s].batch) \cap job[s].read
        context  == subjects \cup (context_of(subjects) \cap job[s].read)
    IN  /\ job[s].pc = "decide"
        /\ IF subjects = {} THEN End(s)
           ELSE /\ Do(s, [job[s] EXCEPT
                     !.pc = "persist",
                     !.verdict = [l \in Lines |-> IF l \in subjects
                                                  THEN rule_for(l, context, Booked)
                                                  ELSE NULL]])
                /\ UNCHANGED <<batch_lock, line_lock>>
        /\ UNCHANGED tables

\* The subjects of a decision that no exception row exists for.
raised(s) == {l \in Lines : job[s].verdict[l] # NULL /\ exception[l] = NULL}

\* The foreign key of exception, from the other side.
raise_refused(s) == \E l \in raised(s) : match_state[l] # "unmatched"

\* One exception per residual, ON CONFLICT DO NOTHING, and the commit.
persist(s) ==
    /\ job[s].pc = "persist"
    /\ IF raise_refused(s)
         THEN EndAs(s, "refused") /\ UNCHANGED exception
         ELSE /\ exception' = [l \in Lines |-> IF l \in raised(s) THEN job[s].verdict[l]
                                               ELSE exception[l]]
              /\ End(s)
    /\ UNCHANGED <<batch, settlement_line, match_state, match_result, matched_events>>

run_classification(s, scopes) ==
    \/ \E scope \in scopes : load_residuals(s, scope)
    \/ load_context(s)
    \/ pin(s)
    \/ decide_rules(s)
    \/ persist(s)
===============================================================================
