--------------------------------- MODULE Pricing ---------------------------------
(***************************************************************************)
(* money/calculator.py, money/policy.py and operations/identity.py: what   *)
(* an approved treatment posts, the reason it posts nothing, and the       *)
(* identifier an instruction is recorded under.  A digest is the tuple of  *)
(* what it binds.                                                          *)
(***************************************************************************)
EXTENDS SettlementFile

CONSTANTS
    Accounts,       \* well-formed account codes
    Versions,       \* ledger context versions, changed by hand with the contents
    Context         \* what each version configures

Treatment == {"rebook", "accrue", "write_off", "escalate"}
Class == {"chargeback_reversal", "cross_period_refund", "fee_split", "unclassified"}
LedgerContext ==
    [functional_currency : Currencies, earliest_open_period : Nat,
     accounts : [Class \X Treatment -> Accounts \cup {NULL}]]

\* LedgerContext.__post_init__ and AccountPolicy.__post_init__: a configuration
\* that breaks these is refused where it is built.
ASSUME ContextAssumption ==
    /\ NULL \notin Accounts /\ NULL \notin Treatment /\ Versions # {}
    /\ Context \in [Versions -> LedgerContext]
    /\ \A v \in Versions, c \in Class : Context[v].accounts[c, "escalate"] = NULL

ROUNDING == "half_up"
MONEY_QUANTUM == Fraction

is_period(p) == p \in Nat
is_open(v, p) == p \in Nat /\ p >= Context[v].earliest_open_period
within_money_contract(amount) ==
    within_money_scale(amount) /\ Distance(amount, 0) < MoneyBound * Fraction

\* Mutant: accrue falls back to the date the line settled on.
period_settled(facts, treatment) == accounting_period(facts.value_date)

\* _period_for: accrue recognises the movement where its counterpart was.
period_for(facts, treatment) ==
    IF treatment = "accrue" THEN facts.originating_period
    ELSE accounting_period(facts.value_date)

account_for(facts, treatment, v) == Context[v].accounts[facts.classification, treatment]

\* NonCalculable, in the order compute_adjustment asks: the answer is the same
\* whichever of them is given as the reason.
NonCalculable == {"treatment_not_recognised", "treatment_is_escalate",
                  "no_account_mapped", "currency_not_functional", "amount_is_zero",
                  "amount_outside_money_contract", "no_originating_period",
                  "period_malformed", "period_closed"}

blocks(reason, facts, treatment, v) ==
    LET period == period_for(facts, treatment)
    IN  CASE reason = "treatment_not_recognised" -> treatment \notin Treatment
          [] reason = "treatment_is_escalate"    -> treatment = "escalate"
          [] reason = "no_account_mapped" ->
               treatment \in Treatment /\ account_for(facts, treatment, v) = NULL
          [] reason = "currency_not_functional" ->
               facts.currency # Context[v].functional_currency
          [] reason = "amount_is_zero" -> facts.amount = 0
          [] reason = "amount_outside_money_contract" -> ~within_money_contract(facts.amount)
          [] reason = "no_originating_period" -> period = NULL
          [] reason = "period_malformed"      -> ~is_period(period)
          [] reason = "period_closed"         -> ~is_open(v, period)

\* Nothing is posted unless nothing stops the calculation.
priceable(facts, treatment, v) ==
    \A reason \in NonCalculable : ~blocks(reason, facts, treatment, v)

\* AdjustmentInstruction: the line's own amount, sign and all.
instruction_for(facts, treatment, v) ==
    [exception_id           |-> facts.exception_id,
     treatment              |-> treatment,
     amount                 |-> facts.amount,
     currency               |-> facts.currency,
     account_code           |-> account_for(facts, treatment, v),
     period                 |-> period_for(facts, treatment),
     quantum                |-> MONEY_QUANTUM,
     rounding               |-> ROUNDING,
     ledger_context_version |-> v]

\* _assert_instruction_is_postable.
postable(i) ==
    /\ i.treatment \in Treatment \ {"escalate"}
    /\ i.account_code \in Accounts
    /\ is_period(i.period)
    /\ i.currency \in Currencies
    /\ within_money_contract(i.amount)
    /\ i.amount # 0

-------------------------------------------------------------------------------
\* PAYLOAD_COMPONENTS: every field that determines the financial effect.
instruction_payload(i) ==
    <<i.exception_id, i.treatment, i.amount, i.currency, i.account_code, i.period,
      i.quantum, i.rounding, i.ledger_context_version>>

derive_identity(i, exception_id, resolution_version) ==
    [operation_id             |-> <<exception_id, resolution_version, instruction_payload(i)>>,
     instruction_payload_hash |-> instruction_payload(i)]
===============================================================================
