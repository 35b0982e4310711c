----------------------------- MODULE SettlementFile -----------------------------
(***************************************************************************)
(* What a settlement payload says (ingest/parser.py, normalise.py,         *)
(* errors.py): a payload is read into typed lines, or refused with every   *)
(* defect it has.  A text field is NULL when blank, and otherwise a value  *)
(* with what the column must know of it: whether it fits and which         *)
(* characters it holds.  A decimal is an integer number of 1/Fraction of   *)
(* the money quantum, so that it can be too precise to store.              *)
(***************************************************************************)
EXTENDS Integers, FiniteSets

CONSTANTS
    NULL,
    Currencies,     \* the ISO 4217 codes in use; anything else is malformed
    Fraction,       \* sub-units of the quantum 0.0001 a file can express
    MoneyBound,     \* MONEY_MAGNITUDE_EXCLUSIVE_BOUND, in quanta
    Month           \* days of an accounting period

ASSUME FractionAssumption == Fraction \in Nat \ {0}
ASSUME BoundAssumption    == MoneyBound \in Nat
ASSUME MonthAssumption    == Month \in Nat \ {0}
ASSUME NullAssumption     == NULL \notin Currencies \cup Int

SETTLEMENT_COLUMNS == 10
MAX_REPORTED_DEFECTS == 5

Distance(a, b) == IF a < b THEN b - a ELSE a - b
Least(a, b)    == IF a < b THEN a ELSE b

-------------------------------------------------------------------------------
Defect(line, column, code) == [line |-> line, column |-> column, code |-> code]

\* The file-level refusals, in the order parse() looks for them.
FILE_CODES == {"empty_payload", "undecodable_payload", "malformed_csv",
               "header_mismatch"}

\* The rows of csv.reader that are not blank: number n is the row's offset.
Numbered(payload) == {n \in DOMAIN payload.rows : payload.rows[n].width # 0}

\* parse(): the defects of the file and of the rows that are not ten fields wide.
parse_defects(payload) ==
    IF payload.form \in FILE_CODES
      THEN {Defect(IF payload.form = "header_mismatch" THEN 0 ELSE NULL,
                   NULL, payload.form)}
      ELSE {Defect(n, NULL, "row_field_count_mismatch") :
              n \in {m \in Numbered(payload) :
                        payload.rows[m].width # SETTLEMENT_COLUMNS}}

-------------------------------------------------------------------------------
within_money_scale(value) == value % Fraction = 0

\* A supplied text is judged only for what its column can hold.
text_defects(line, column, text) ==
    LET refuse(code) == {Defect(line, column, code)}
    IN  IF text = NULL THEN {}
        ELSE IF ~text.fits THEN refuse("field_too_long")
        ELSE IF text.chars # "plain" THEN refuse("unstorable_character")
        ELSE {}

\* _money: the first of three refusals.
money_defects(line, column, text) ==
    LET refuse(code) == {Defect(line, column, code)}
    IN  IF ~text.plain THEN refuse("invalid_amount")
        ELSE IF ~within_money_scale(text.value)
             THEN refuse("amount_precision_exceeded")
        ELSE IF Distance(text.value, 0) >= MoneyBound * Fraction
             THEN refuse("amount_out_of_range")
        ELSE {}

currency_defects(line, column, code) ==
    IF code \in Currencies THEN {} ELSE {Defect(line, column, "invalid_currency")}

\* _normalise_presentment: the three columns tell one story, and nothing is
\* converted.
presentment_defects(line, row) ==
    LET amount   == row.presentment_amount
        currency == row.presentment_currency
        rate     == row.fx_rate
        incoherent(column) == Defect(line, column, "incoherent_presentment_fields")
    IN  UNION {
          IF (amount = NULL) # (currency = NULL)
            THEN {incoherent("presentment_amount")} ELSE {},
          IF rate # NULL /\ currency = NULL THEN {incoherent("fx_rate")} ELSE {},
          IF amount = NULL THEN {}
            ELSE money_defects(line, "presentment_amount", amount),
          IF currency = NULL THEN {}
            ELSE currency_defects(line, "presentment_currency", currency),
          IF rate # NULL /\ (~rate.plain \/ rate.value <= 0)
            THEN {Defect(line, "fx_rate", "invalid_fx_rate")} ELSE {}}

\* normalise(): every field is judged before the row is.
row_defects(line, row) ==
    UNION {
      IF row.psp_reference = NULL
        THEN {Defect(line, "psp_reference", "missing_required_field")}
        ELSE text_defects(line, "psp_reference", row.psp_reference),
      text_defects(line, "merchant_reference", row.merchant_reference),
      text_defects(line, "transaction_type", row.transaction_type),
      money_defects(line, "amount", row.amount),
      currency_defects(line, "currency", row.currency),
      IF row.value_date \in Nat THEN {} ELSE {Defect(line, "value_date", "invalid_date")},
      presentment_defects(line, row)}

\* The columns of settlement_line; the presentment columns have none.
NormalisedLine(batch_id, line, row) ==
    [batch_id           |-> batch_id,
     line_number        |-> line,
     psp_reference      |-> row.psp_reference,
     merchant_reference |-> row.merchant_reference,
     transaction_type   |-> row.transaction_type,
     amount             |-> row.amount.value,
     currency           |-> row.currency,
     value_date         |-> row.value_date]

\* interpret(): an unreadable file hides its rows' defects.
defects_of(payload) ==
    IF parse_defects(payload) # {} THEN parse_defects(payload)
    ELSE UNION {row_defects(n, payload.rows[n]) : n \in Numbered(payload)}

\* Mutant: every defect is spelled out.
all_named(defects) == [shown |-> Cardinality(defects), more |-> 0]

\* render_reason: at most five are named and the others are counted.
render_reason(defects) ==
    LET shown == Least(Cardinality(defects), MAX_REPORTED_DEFECTS)
    IN  [shown |-> shown, more |-> Cardinality(defects) - shown]

-------------------------------------------------------------------------------
\* The scale and magnitude constraints of a money column.
money_admitted(amount) ==
    within_money_scale(amount) /\ Distance(amount, 0) < MoneyBound * Fraction

\* What the constraints of settlement_line admit.
text_storable(text) == text = NULL \/ (text.fits /\ text.chars # "nul")
storable(line) ==
    /\ line.line_number > 0
    /\ line.psp_reference # NULL
    /\ text_storable(line.psp_reference)
    /\ text_storable(line.merchant_reference)
    /\ text_storable(line.transaction_type)
    /\ money_admitted(line.amount)
    /\ line.currency \in Currencies
    /\ line.value_date \in Nat

accounting_period(value_date) == value_date \div Month
===============================================================================
