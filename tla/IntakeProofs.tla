------------------------------- MODULE IntakeProofs -------------------------------
(***************************************************************************)
(* Ingestion, matching and classification, whatever the desk does next to  *)
(* them: the invariant IntakeInv, that every step keeps it, and what it    *)
(* shows.                                                                  *)
(***************************************************************************)
EXTENDS Pipeline, FiniteSetTheorems, TLAPS

-------------------------------------------------------------------------------
(* Numbers and finite sets.                                                *)

\* A nonempty set of line ids has a least one: this is what id order means.
LEMMA LeastElement ==
  ASSUME NEW S \in SUBSET Nat, S # {}
  PROVE  Min(S) \in S /\ \A y \in S : Min(S) <= y
<1> DEFINE F == {0 .. n : n \in S}
<1>1. IsWellFoundedOn(StrictSubsetOrdering(Nat), FiniteSubsetsOf(Nat))
  BY FS_StrictSubsetOrderingWellFounded
<1>2. F \subseteq FiniteSubsetsOf(Nat) /\ F # {}
  <2>1. ASSUME NEW n \in S  PROVE 0 .. n \in FiniteSubsetsOf(Nat)
    BY FS_Interval DEF FiniteSubsetsOf
  <2> QED BY <2>1
<1>3. PICK X \in F : \A Y \in F : ~(<<Y, X>> \in StrictSubsetOrdering(Nat))
  <2> HIDE DEF F
  <2> QED BY <1>1, <1>2, WFMin
<1>4. PICK n \in S : X = 0 .. n
  BY <1>3
<1>5. ASSUME NEW m \in S, m < n  PROVE FALSE
  <2>1. 0 .. m \in F /\ 0 .. m \subseteq X /\ 0 .. m # X /\ 0 .. m \subseteq Nat /\ X \subseteq Nat
    <3>1. n \in 0 .. n /\ n \notin 0 .. m
      BY <1>5
    <3> QED BY <1>4, <1>5, <3>1
  <2>2. <<0 .. m, X>> \in StrictSubsetOrdering(Nat)
    BY <2>1 DEF StrictSubsetOrdering
  <2> QED BY <1>3, <2>1, <2>2
<1>6. \A m \in S : n <= m
  BY <1>5
<1> QED BY <1>4, <1>6 DEF Min

\* The same for one nonempty choice of a rule of RulePrecedence.
LEMMA FirstOfThree ==
  ASSUME NEW S \in SUBSET (1 .. 3), S # {}
  PROVE  Min(S) \in S
BY LeastElement

-------------------------------------------------------------------------------
(* What normalisation lets through.                                        *)

\* A row without a defect becomes a line every constraint of settlement_line
\* admits: normalise refuses all that the columns cannot hold.
LEMMA CleanRowIsStorable ==
  ASSUME NEW b \in Batches, NEW n \in Rows(b), defects_of(Payload[b]) = {}
  PROVE  storable(line_of(b, n)) /\ line_of(b, n).amount \in Int
<1> DEFINE row == Payload[b].rows[n]
<1>1. parse_defects(Payload[b]) = {} /\ row_defects(n, row) = {}
  BY DEF defects_of, Rows
<1>2. row.width = SETTLEMENT_COLUMNS
  <2>1. Payload[b].form \notin FILE_CODES
    BY <1>1 DEF parse_defects
  <2> QED BY <1>1, <2>1 DEF parse_defects, Rows
<1>3. /\ (IF row.psp_reference = NULL
           THEN {Defect(n, "psp_reference", "missing_required_field")}
           ELSE text_defects(n, "psp_reference", row.psp_reference)) = {}
      /\ text_defects(n, "merchant_reference", row.merchant_reference) = {}
      /\ text_defects(n, "transaction_type", row.transaction_type) = {}
      /\ money_defects(n, "amount", row.amount) = {}
      /\ currency_defects(n, "currency", row.currency) = {}
      /\ (IF row.value_date \in Nat THEN {} ELSE {Defect(n, "value_date", "invalid_date")}) = {}
  BY <1>1 DEF row_defects
<1>4. row.psp_reference # NULL /\ row.value_date \in Nat /\ row.currency \in Currencies
  BY <1>3 DEF currency_defects
<1>5. ASSUME NEW c, NEW t, text_defects(n, c, t) = {}
      PROVE  text_storable(t)
  BY <1>5 DEF text_defects, text_storable
<1>6. /\ row.amount.plain /\ within_money_scale(row.amount.value)
      /\ ~(Distance(row.amount.value, 0) >= MoneyBound * Fraction)
  BY <1>3 DEF money_defects
<1>7. row.amount.value \in Int
  BY <1>2, <1>6, PayloadAssumption
<1>8. Distance(row.amount.value, 0) < MoneyBound * Fraction
  <2>1. Distance(row.amount.value, 0) \in Nat
    BY <1>7 DEF Distance
  <2>2. MoneyBound * Fraction \in Int
    BY BoundAssumption, FractionAssumption
  <2> QED BY <1>6, <2>1, <2>2
<1>9. n > 0
  BY PayloadAssumption DEF Rows, Numbered
<1>10. text_storable(row.psp_reference) /\ text_storable(row.merchant_reference)
         /\ text_storable(row.transaction_type)
  BY <1>3, <1>4, <1>5
<1> QED BY <1>4, <1>6, <1>7, <1>8, <1>9, <1>10 DEF storable, money_admitted, line_of, NormalisedLine

LEMMA FewAreFinite ==
  ASSUME NEW S, NEW x, S \subseteq {x}
  PROVE  IsFiniteSet(S)
BY FS_Singleton, FS_Subset

\* The defects of a finite file are finitely many, so that they can be counted.
LEMMA DefectsAreFinite ==
  ASSUME NEW b \in Batches
  PROVE  IsFiniteSet(defects_of(Payload[b]))
<1> DEFINE p == Payload[b]
           N == Numbered(p)
<1>1. IsFiniteSet(N)
  BY PayloadAssumption, FS_Subset DEF Numbered
<1>2. ASSUME NEW f, DOMAIN f = N, \A n \in N : IsFiniteSet(f[n])
      PROVE  IsFiniteSet(UNION {f[n] : n \in N})
  <2> DEFINE T == {f[n] : n \in N}
  <2>1. [n \in N |-> f[n]] \in Surjection(N, T)
    BY DEF Surjection
  <2>2. IsFiniteSet(T)
    BY <1>1, <2>1, FS_Surjection
  <2>3. \A S \in T : IsFiniteSet(S)
    BY <1>2
  <2> QED BY <2>2, <2>3, FS_UNION
<1>3. IsFiniteSet(parse_defects(p))
  <2>1. CASE p.form \in FILE_CODES
    BY <2>1, FewAreFinite DEF parse_defects
  <2>2. CASE p.form \notin FILE_CODES
    <3> DEFINE wide == {m \in N : p.rows[m].width # SETTLEMENT_COLUMNS}
               f == [n \in N |-> IF n \in wide
                                 THEN {Defect(n, NULL, "row_field_count_mismatch")} ELSE {}]
    <3>1. parse_defects(p) = UNION {f[n] : n \in N}
      BY <2>2 DEF parse_defects
    <3>2. \A n \in N : IsFiniteSet(f[n])
      BY FS_Singleton, FS_EmptySet
    <3> HIDE DEF f
    <3>3. DOMAIN f = N
      BY DEF f
    <3> QED BY <1>2, <3>1, <3>2, <3>3
  <2> QED BY <2>1, <2>2
<1>4. ASSUME NEW n, NEW c, NEW t
      PROVE  /\ IsFiniteSet(text_defects(n, c, t)) /\ IsFiniteSet(money_defects(n, c, t))
             /\ IsFiniteSet(currency_defects(n, c, t))
  <2>1. \E x : text_defects(n, c, t) \subseteq {x}
    BY DEF text_defects
  <2>2. \E x : money_defects(n, c, t) \subseteq {x}
    BY DEF money_defects
  <2>3. \E x : currency_defects(n, c, t) \subseteq {x}
    BY DEF currency_defects
  <2> QED BY <2>1, <2>2, <2>3, FewAreFinite
<1>5. ASSUME NEW n, NEW row
      PROVE  IsFiniteSet(presentment_defects(n, row))
  <2> DEFINE incoherent(column) == Defect(n, column, "incoherent_presentment_fields")
             A == IF (row.presentment_amount = NULL) # (row.presentment_currency = NULL)
                    THEN {incoherent("presentment_amount")} ELSE {}
             B == IF row.fx_rate # NULL /\ row.presentment_currency = NULL
                    THEN {incoherent("fx_rate")} ELSE {}
             C == IF row.presentment_amount = NULL THEN {}
                    ELSE money_defects(n, "presentment_amount", row.presentment_amount)
             D == IF row.presentment_currency = NULL THEN {}
                    ELSE currency_defects(n, "presentment_currency", row.presentment_currency)
             E == IF row.fx_rate # NULL /\ (~row.fx_rate.plain \/ row.fx_rate.value <= 0)
                    THEN {Defect(n, "fx_rate", "invalid_fx_rate")} ELSE {}
  <2>1. IsFiniteSet(A) /\ IsFiniteSet(B) /\ IsFiniteSet(C) /\ IsFiniteSet(D) /\ IsFiniteSet(E)
    BY <1>4, FS_Singleton, FS_EmptySet
  <2>2. presentment_defects(n, row) = UNION {A, B, C, D, E}
    BY DEF presentment_defects
  <2> HIDE DEF A, B, C, D, E
  <2>3. presentment_defects(n, row) = A \cup B \cup C \cup D \cup E
    BY <2>2
  <2>4. IsFiniteSet(A \cup B)
    BY <2>1, FS_Union
  <2>5. IsFiniteSet((A \cup B) \cup C)
    BY <2>1, <2>4, FS_Union
  <2>6. IsFiniteSet(((A \cup B) \cup C) \cup D)
    BY <2>1, <2>5, FS_Union
  <2>7. IsFiniteSet((((A \cup B) \cup C) \cup D) \cup E)
    BY <2>1, <2>6, FS_Union
  <2> QED BY <2>3, <2>7
<1>6. ASSUME NEW n, NEW row
      PROVE  IsFiniteSet(row_defects(n, row))
  <2> DEFINE A == IF row.psp_reference = NULL
                    THEN {Defect(n, "psp_reference", "missing_required_field")}
                    ELSE text_defects(n, "psp_reference", row.psp_reference)
             B == text_defects(n, "merchant_reference", row.merchant_reference)
             C == text_defects(n, "transaction_type", row.transaction_type)
             D == money_defects(n, "amount", row.amount)
             E == currency_defects(n, "currency", row.currency)
             F == IF row.value_date \in Nat THEN {}
                    ELSE {Defect(n, "value_date", "invalid_date")}
             G == presentment_defects(n, row)
  <2>1. /\ IsFiniteSet(A) /\ IsFiniteSet(B) /\ IsFiniteSet(C) /\ IsFiniteSet(D)
        /\ IsFiniteSet(E) /\ IsFiniteSet(F) /\ IsFiniteSet(G)
    BY <1>4, <1>5, FS_Singleton, FS_EmptySet
  <2>2. row_defects(n, row) = UNION {A, B, C, D, E, F, G}
    BY DEF row_defects
  <2> HIDE DEF A, B, C, D, E, F, G
  <2>3. row_defects(n, row) = (A \cup B \cup C) \cup (D \cup E \cup F \cup G)
    BY <2>2
  <2>4. IsFiniteSet(A \cup B)
    BY <2>1, FS_Union
  <2>5. IsFiniteSet((A \cup B) \cup C)
    BY <2>1, <2>4, FS_Union
  <2>6. IsFiniteSet(D \cup E)
    BY <2>1, FS_Union
  <2>7. IsFiniteSet((D \cup E) \cup F)
    BY <2>1, <2>6, FS_Union
  <2>8. IsFiniteSet(((D \cup E) \cup F) \cup G)
    BY <2>1, <2>7, FS_Union
  <2> QED BY <2>3, <2>5, <2>8, FS_Union
<1>7. IsFiniteSet(UNION {row_defects(n, p.rows[n]) : n \in N})
  <2> DEFINE f == [n \in N |-> row_defects(n, p.rows[n])]
  <2>1. {row_defects(n, p.rows[n]) : n \in N} = {f[n] : n \in N}
    OBVIOUS
  <2>2. DOMAIN f = N /\ \A n \in N : IsFiniteSet(f[n])
    BY <1>6
  <2> HIDE DEF f
  <2> QED BY <1>2, <2>1, <2>2
<1> QED BY <1>3, <1>7 DEF defects_of

-------------------------------------------------------------------------------
(* What a rule looks at.                                                   *)

\* The rule of a line depends on the lines of its order, and on which of them are
\* booked.
LEMMA RuleIsLocal ==
  ASSUME NEW l, NEW C, NEW D, NEW B, related(l, C) = related(l, D)
  PROVE  rule_for(l, C, B) = rule_for(l, D, B)
<1>1. booked_offsets(l, C, B) = booked_offsets(l, D, B)
  BY DEF booked_offsets
<1>2. \A k : booked_offsets_of_type(l, C, B, k) = booked_offsets_of_type(l, D, B, k)
  BY <1>1 DEF booked_offsets_of_type
<1>3. reversal_of_booked_chargeback(l, C, B) = reversal_of_booked_chargeback(l, D, B)
  BY <1>2 DEF reversal_of_booked_chargeback
<1>4. refund_of_booked_capture_across_periods(l, C, B)
        = refund_of_booked_capture_across_periods(l, D, B)
  BY <1>2 DEF refund_of_booked_capture_across_periods
<1>5. fees_deducted_from_a_capture(l, C, B) = fees_deducted_from_a_capture(l, D, B)
  BY <1>1 DEF fees_deducted_from_a_capture
<1>6. \A i \in DOMAIN RulePrecedence :
        fires(RulePrecedence[i], l, C, B) = fires(RulePrecedence[i], l, D, B)
  BY <1>3, <1>4, <1>5 DEF fires, RulePrecedence
<1>7. {i \in DOMAIN RulePrecedence : fires(RulePrecedence[i], l, C, B)}
        = {i \in DOMAIN RulePrecedence : fires(RulePrecedence[i], l, D, B)}
  BY <1>6
<1> QED BY <1>7 DEF rule_for

\* The rule a line is given is one that fired, or the fallback.
LEMMA RuleFired ==
  ASSUME NEW l, NEW C, NEW B
  PROVE  /\ rule_for(l, C, B) \in ClassificationRule
         /\ rule_for(l, C, B) = "reversal_of_booked_chargeback"
              => reversal_of_booked_chargeback(l, C, B)
         /\ rule_for(l, C, B) = "refund_of_booked_capture_across_periods"
              => refund_of_booked_capture_across_periods(l, C, B)
<1> DEFINE fired == {i \in DOMAIN RulePrecedence : fires(RulePrecedence[i], l, C, B)}
<1>1. CASE fired = {}
  BY <1>1 DEF rule_for, ClassificationRule
<1>2. CASE fired # {}
  <2>1. DOMAIN RulePrecedence = 1 .. 3
    BY DEF RulePrecedence
  <2>2. Min(fired) \in fired
    BY <1>2, <2>1, FirstOfThree
  <2>3. rule_for(l, C, B) = RulePrecedence[Min(fired)]
    BY <1>2 DEF rule_for
  <2>4. Min(fired) \in 1 .. 3 /\ fires(RulePrecedence[Min(fired)], l, C, B)
    BY <2>1, <2>2
  <2> HIDE DEF fired
  <2>5. rule_for(l, C, B) \in ClassificationRule
    BY <2>3, <2>4 DEF RulePrecedence, ClassificationRule
  <2>6. fires(rule_for(l, C, B), l, C, B)
    BY <2>3, <2>4
  <2> QED BY <2>5, <2>6 DEF fires
<1> QED BY <1>1, <1>2

\* What a classifier in the middle of its decision would decide now.
Seen(s, l)   == context_of({l}) \cap job[s].read
AsRead(s, l) == rule_for(l, Seen(s, l), Booked)

\* As long as the rows it read are what they were, so is its decision.
LEMMA DecisionStands ==
  ASSUME NEW s, NEW l, l \in job[s].read, (job[s].read)' = job[s].read,
         \A m \in job[s].read : settlement_line'[m] = settlement_line[m],
         Seen(s, l)' = Seen(s, l),
         \A m \in job[s].read : m \in Booked' <=> m \in Booked
  PROVE  AsRead(s, l)' = AsRead(s, l)
<1> DEFINE Rel == related(l, Seen(s, l))
           Off == booked_offsets(l, Seen(s, l), Booked)
           OfType(k) == booked_offsets_of_type(l, Seen(s, l), Booked, k)
           Group == {l} \cup (Rel \ Booked)
           Amount(m) == settlement_line[m].amount
           Inflows == {m \in Group : movement_type(m) = "capture" /\ Amount(m) > 0}
           Deductions == {m \in Group : movement_type(m) = "fee" /\ Amount(m) < 0}
<1>1. Seen(s, l) \subseteq job[s].read
  BY DEF Seen
<1>2. \A m \in job[s].read : /\ movement_type(m)' = movement_type(m)
                             /\ same_order(l, m)' = same_order(l, m)
  BY DEF movement_type, same_order
<1>3. Rel' = Rel /\ Rel \subseteq job[s].read
  BY <1>1, <1>2 DEF related
<1>4. Off' = Off /\ Off \subseteq job[s].read
  BY <1>3 DEF booked_offsets
<1>5. /\ OfType("chargeback")' = OfType("chargeback")
      /\ OfType("capture")' = OfType("capture") /\ OfType("capture") \subseteq job[s].read
  BY <1>2, <1>4 DEF booked_offsets_of_type
<1>6. reversal_of_booked_chargeback(l, Seen(s, l), Booked)'
        = reversal_of_booked_chargeback(l, Seen(s, l), Booked)
  BY <1>2, <1>5 DEF reversal_of_booked_chargeback
<1>7. refund_of_booked_capture_across_periods(l, Seen(s, l), Booked)'
        = refund_of_booked_capture_across_periods(l, Seen(s, l), Booked)
  BY <1>2, <1>5 DEF refund_of_booked_capture_across_periods
<1>8. fees_deducted_from_a_capture(l, Seen(s, l), Booked)'
        = fees_deducted_from_a_capture(l, Seen(s, l), Booked)
  <2>1. Group' = Group /\ Group \subseteq job[s].read
    BY <1>3
  <2>2. \A m \in Group : Amount(m)' = Amount(m)
    BY <2>1
  <2> HIDE DEF Group
  <2>3. Inflows' = Inflows /\ Inflows \subseteq Group
    BY <1>2, <2>1, <2>2
  <2>4. Deductions' = Deductions /\ Deductions \subseteq Group
    BY <1>2, <2>1, <2>2
  <2> HIDE DEF Inflows, Deductions
  <2>5. {Amount(m) : m \in Inflows}' = {Amount(m) : m \in Inflows}
    BY <2>2, <2>3
  <2>6. [m \in Deductions |-> Amount(m)]' = [m \in Deductions |-> Amount(m)]
    BY <2>2, <2>4
  <2>7. fees_deducted_from_a_capture(l, Seen(s, l), Booked) =
          (/\ movement_type(l) \in {"capture", "fee"}
           /\ Off = {} /\ Inflows # {} /\ Deductions # {}
           /\ -SumFunction([m \in Deductions |-> Amount(m)]) < Max({Amount(m) : m \in Inflows}))
    BY DEF fees_deducted_from_a_capture, Group, Inflows, Deductions
  <2>8. fees_deducted_from_a_capture(l, Seen(s, l), Booked)' =
          (/\ movement_type(l) \in {"capture", "fee"}
           /\ Off = {} /\ Inflows # {} /\ Deductions # {}
           /\ -SumFunction([m \in Deductions |-> Amount(m)]) < Max({Amount(m) : m \in Inflows}))'
    BY DEF fees_deducted_from_a_capture, Group, Inflows, Deductions
  <2> QED BY <1>2, <1>4, <2>3, <2>4, <2>5, <2>6, <2>7, <2>8
<1>9. \A i \in DOMAIN RulePrecedence :
        fires(RulePrecedence[i], l, Seen(s, l), Booked)'
          = fires(RulePrecedence[i], l, Seen(s, l), Booked)
  BY <1>6, <1>7, <1>8 DEF fires, RulePrecedence
<1>10. {i \in DOMAIN RulePrecedence : fires(RulePrecedence[i], l, Seen(s, l), Booked)}'
         = {i \in DOMAIN RulePrecedence : fires(RulePrecedence[i], l, Seen(s, l), Booked)}
  BY <1>9
<1> QED BY <1>10 DEF AsRead, rule_for

-------------------------------------------------------------------------------
(* The inductive invariant of intake.                                      *)

\* What an exception of this rule on this line asserts of the ledger.
Carried(l, rule) ==
    /\ rule = "reversal_of_booked_chargeback" =>
         \E m \in Booked : Reverses(l, m, "chargeback")
    /\ rule = "refund_of_booked_capture_across_periods" =>
         \E m \in Booked : /\ Reverses(l, m, "capture")
                           /\ accounting_period(settlement_line[m].value_date)
                               # accounting_period(settlement_line[l].value_date)

IntakeTypes ==
    /\ batch \in [Batches -> BatchRow]
    /\ settlement_line \in [Lines -> SettlementLine \cup {NULL}]
    /\ match_state \in [Lines -> MatchState \cup {"absent"}]
    /\ match_result \subseteq ProposedMatch
    /\ exception \in [Lines -> ExceptionRecord]
    /\ matched_events \in [Lines -> Nat]
    /\ batch_lock \in [Batches -> Sessions \cup {NULL}]
    /\ line_lock \in [Lines -> Sessions \cup {NULL}]
    /\ job \in [Sessions -> Job]

\* A stored line is a row of a parsed batch, whose payload had no defect.
Provenance ==
    \A l \in Lines : settlement_line[l] # NULL =>
      \E b \in Batches : \E n \in Rows(b) :
        l = LineId[b][n] /\ batch[b].status = "parsed" /\ defects_of(Payload[b]) = {}

\* What a session holds and has read fits the step it is about to take.
Matchers    == {"lock", "examine", "insert"}
Classifiers == {"pin", "decide", "persist"}
HoldsWhatItNeeds(s) ==
    LET j == job[s]
    IN  /\ j.pc \in {"claim", "settle"} => j.batch \in Batches
        /\ j.pc = "settle" => batch_lock[j.batch] = s /\ batch[j.batch].status = "received"
        /\ \A b \in Batches : batch_lock[b] = s => j.pc = "settle"
        /\ j.pc \notin Matchers \cup Classifiers => Pinned(s) = {}
        /\ j.pc = "context" => j.read # {}
        /\ j.pc \in {"lock", "pin"} =>
             j.want # {} /\ \A l \in Pinned(s), m \in j.want : l < m
        /\ j.pc = "lock" => \A p \in j.proposed : p.line \in j.want \cup Pinned(s)
        /\ j.pc \in {"examine", "insert"} =>
             \A p \in j.proposed \cup j.inserted : p.line \in Pinned(s)
        /\ j.pc = "pin" => j.read \subseteq j.want \cup Pinned(s)
        /\ j.pc \in {"decide", "persist"} => j.read \subseteq Pinned(s)
KnowsWhatStands(s) ==
    LET j == job[s]
    IN  /\ j.pc # "refused"
        /\ j.read \subseteq Stored
        /\ \A p \in j.proposed \cup j.inserted : p.line \in j.read
        /\ j.pc # "insert" => j.inserted = {}
        /\ j.pc = "insert" => \A p \in j.proposed \cup j.inserted : exception[p.line] = NULL
        /\ j.pc = "persist" =>
             \A l \in Lines : j.verdict[l] # NULL =>
               /\ l \in j.read /\ match_state[l] = "unmatched" /\ exception[l] = NULL
               /\ j.verdict[l] = AsRead(s, l) /\ Carried(l, j.verdict[l])

\* No two uncommitted inserts collide, and none collides with what is committed.
InsertsApart ==
    /\ \A s, t \in Sessions : \A p \in job[s].inserted, q \in job[t].inserted :
         Conflicts(p, q) => s = t /\ p = q
    /\ \A s \in Sessions : \A p \in job[s].inserted, q \in match_result : ~Conflicts(p, q)

StoredRight == Provenance /\ BatchWhole /\ OneFate /\ BookedCounterpart
IntakeInv ==
    /\ roster \in Rosters
    /\ IntakeTypes
    /\ StoredRight
    /\ \A s \in Sessions : HoldsWhatItNeeds(s) /\ KnowsWhatStands(s)
    /\ InsertsApart

-------------------------------------------------------------------------------
(* A step of one session, seen by the others.                              *)

OthersKeepTheirs(s) ==
    \A t \in Sessions \ {s} :
      /\ job'[t] = job[t]
      /\ \A b \in Batches : batch_lock'[b] = t <=> batch_lock[b] = t
      /\ \A l \in Lines : line_lock'[l] = t <=> line_lock[l] = t

\* What is stored, booked or raised stays so.
TablesGrow ==
    /\ \A l \in Stored : settlement_line'[l] = settlement_line[l]
    /\ \A l \in Lines : match_state[l] = "matched" => match_state'[l] = "matched"
    /\ \A l \in Lines : exception[l] # NULL => exception'[l] = exception[l]

\* A row changes only under its lock.
RowsOnlyGrow(s) ==
    /\ TablesGrow
    /\ \A b \in Batches : batch[b].status # "absent" /\ batch_lock[b] # s
         => batch'[b].status = batch[b].status
    /\ \A b \in Batches : batch[b].status = "parsed" => batch'[b].status = "parsed"
    /\ \A l \in Stored : line_lock[l] # s
         => match_state'[l] = match_state[l] /\ exception'[l] = exception[l]

LEMMA StoredInItsBatch ==
  ASSUME IntakeTypes, StoredRight, NEW l \in Stored
  PROVE  settlement_line[l].batch_id \in Batches
           /\ batch[settlement_line[l].batch_id].status = "parsed"
<1>1. PICK b \in Batches : \E n \in Rows(b) : l = LineId[b][n] /\ batch[b].status = "parsed"
  BY DEF StoredRight, Provenance, Stored
<1>2. PICK n \in Rows(b) : l = LineId[b][n] /\ batch[b].status = "parsed"
  BY <1>1
<1>3. settlement_line[l] = line_of(b, n)
  BY <1>2 DEF StoredRight, BatchWhole
<1> QED BY <1>2, <1>3 DEF line_of, NormalisedLine

\* What the ledger carries it goes on carrying.
LEMMA CarriedStands ==
  ASSUME IntakeTypes, StoredRight, NEW s, RowsOnlyGrow(s), NEW l \in Stored, NEW rule,
         Carried(l, rule)
  PROVE  Carried(l, rule)'
<1>1. \A m \in Booked : m \in Stored /\ m \in Booked'
  BY DEF StoredRight, OneFate, Booked, Stored, RowsOnlyGrow, TablesGrow
<1>2. ASSUME NEW m \in Booked, NEW kind, Reverses(l, m, kind)
      PROVE  /\ Reverses(l, m, kind)'
             /\ settlement_line'[m] = settlement_line[m]
             /\ settlement_line'[l] = settlement_line[l]
  <2>1. settlement_line'[m] = settlement_line[m] /\ settlement_line'[l] = settlement_line[l]
    BY <1>1 DEF RowsOnlyGrow, TablesGrow
  <2> QED BY <1>2, <2>1 DEF Reverses, same_order, movement_type
<1>3. ASSUME rule = "reversal_of_booked_chargeback"
      PROVE  \E m \in Booked' : Reverses(l, m, "chargeback")'
  BY <1>1, <1>2, <1>3 DEF Carried
<1>4. ASSUME rule = "refund_of_booked_capture_across_periods"
      PROVE  \E m \in Booked' : /\ Reverses(l, m, "capture")'
                                /\ accounting_period(settlement_line'[m].value_date)
                                    # accounting_period(settlement_line'[l].value_date)
  BY <1>1, <1>2, <1>4 DEF Carried
<1> QED BY <1>3, <1>4 DEF Carried

\* A decision waiting to be written stands while others take their steps.
LEMMA VerdictStands ==
  ASSUME IntakeTypes, StoredRight, NEW s, RowsOnlyGrow(s), NEW t, NEW l \in job[t].read,
         (job[t].read)' = job[t].read, job[t].read \subseteq Stored,
         \A m \in job[t].read : match_state'[m] = match_state[m]
  PROVE  AsRead(t, l)' = AsRead(t, l)
<1>1. \A m \in job[t].read : settlement_line'[m] = settlement_line[m]
  BY DEF RowsOnlyGrow, TablesGrow
<1>2. \A m \in job[t].read : m \in Booked' <=> m \in Booked
  BY DEF Booked
<1>3. \A m \in job[t].read : m \in context_of({l})' <=> m \in context_of({l})
  <2> SUFFICES ASSUME NEW m \in job[t].read
               PROVE  m \in context_of({l})' <=> m \in context_of({l})
    OBVIOUS
  <2>1. settlement_line[m].batch_id \in Batches
          /\ batch[settlement_line[m].batch_id].status = "parsed"
    BY StoredInItsBatch
  <2>2. batch'[settlement_line[m].batch_id].status = "parsed"
    BY <2>1 DEF RowsOnlyGrow, TablesGrow
  <2>3. m \in Stored /\ m \in Stored'
    BY <1>1 DEF Stored
  <2> QED BY <1>1, <2>1, <2>2, <2>3 DEF context_of
<1>4. Seen(t, l)' = Seen(t, l)
  BY <1>3 DEF Seen
<1> QED BY <1>1, <1>2, <1>4, DecisionStands

LEMMA OthersFit ==
  ASSUME IntakeInv, NEW s, OthersKeepTheirs(s), RowsOnlyGrow(s), NEW t \in Sessions \ {s}
  PROVE  HoldsWhatItNeeds(t)' /\ KnowsWhatStands(t)'
<1>1. /\ IntakeTypes /\ StoredRight /\ HoldsWhatItNeeds(t) /\ KnowsWhatStands(t)
      /\ job'[t] = job[t] /\ job[t] \in Job /\ Pinned(t)' = Pinned(t)
      /\ \A b \in Batches : batch_lock'[b] = t <=> batch_lock[b] = t
  BY DEF IntakeInv, OthersKeepTheirs, Pinned, IntakeTypes
<1>2. HoldsWhatItNeeds(t)'
  <2>1. job[t].pc = "settle" => batch'[job[t].batch].status = "received"
    <3> SUFFICES ASSUME job[t].pc = "settle" PROVE batch'[job[t].batch].status = "received"
      OBVIOUS
    <3>1. /\ job[t].batch \in Batches /\ batch_lock[job[t].batch] = t
          /\ batch[job[t].batch].status = "received"
      BY <1>1 DEF HoldsWhatItNeeds
    <3> QED BY <3>1 DEF RowsOnlyGrow, TablesGrow
  <2> QED BY <1>1, <2>1 DEF HoldsWhatItNeeds
<1>3. KnowsWhatStands(t)'
  <2> DEFINE j == job[t]
  <2>1. j.read \subseteq Stored /\ j.read \subseteq Stored'
    BY <1>1 DEF KnowsWhatStands, Stored, RowsOnlyGrow, TablesGrow
  <2>2. \A l \in j.read \cap Pinned(t) :
          match_state'[l] = match_state[l] /\ exception'[l] = exception[l]
    BY <2>1 DEF RowsOnlyGrow, TablesGrow, Pinned
  <2>3. j.pc = "insert" => \A p \in j.proposed \cup j.inserted : exception'[p.line] = NULL
    BY <1>1, <2>2 DEF KnowsWhatStands, HoldsWhatItNeeds
  <2>4. ASSUME j.pc = "persist", NEW l \in Lines, j.verdict[l] # NULL
        PROVE  /\ l \in j.read /\ match_state'[l] = "unmatched" /\ exception'[l] = NULL
               /\ j.verdict[l] = AsRead(t, l)' /\ Carried(l, j.verdict[l])'
    <3>1. /\ l \in j.read /\ match_state[l] = "unmatched" /\ exception[l] = NULL
          /\ j.verdict[l] = AsRead(t, l) /\ Carried(l, j.verdict[l])
      BY <1>1, <2>4 DEF KnowsWhatStands
    <3>2. j.read \subseteq Pinned(t)
      BY <1>1, <2>4 DEF HoldsWhatItNeeds
    <3>3. (job[t].read)' = job[t].read
      BY <1>1
    <3>4. AsRead(t, l)' = AsRead(t, l)
      BY <1>1, <2>1, <2>2, <3>1, <3>2, <3>3, VerdictStands
    <3>5. Carried(l, j.verdict[l])'
      <4> DEFINE r == j.verdict[l]
      <4>1. r' = r
        BY <1>1
      <4> QED BY <1>1, <2>1, <3>1, <4>1, CarriedStands
    <3> QED BY <2>2, <3>1, <3>2, <3>4, <3>5
  <2>5. /\ j.pc # "refused" /\ j.pc # "insert" => j.inserted = {}
        /\ \A p \in j.proposed \cup j.inserted : p.line \in j.read
    BY <1>1 DEF KnowsWhatStands
  <2> QED BY <1>1, <2>1, <2>3, <2>4, <2>5 DEF KnowsWhatStands
<1> QED BY <1>2, <1>3

\* What an exception names stays carried.
LEMMA CounterpartsStand ==
  ASSUME IntakeTypes, StoredRight, NEW s, RowsOnlyGrow(s), exception' = exception
  PROVE  BookedCounterpart'
<1>1. \A l \in Lines : exception[l] # NULL => l \in Stored /\ Carried(l, exception[l])
  BY DEF StoredRight, OneFate, BookedCounterpart, Stored, Carried
<1>2. ASSUME NEW l \in Lines, exception[l] # NULL
      PROVE  Carried(l, exception[l])'
  <2>1. PICK r : r = exception[l]
    OBVIOUS
  <2>2. Carried(l, r)'
    BY <1>1, <1>2, <2>1, CarriedStands
  <2> QED BY <2>1, <2>2
<1>3. \A l \in Lines : exception'[l] # NULL => Carried(l, exception[l])'
  BY <1>2
<1> QED BY <1>3, AbsenceAssumption DEF Carried, BookedCounterpart, ClassificationRule

\* A step that writes nothing keeps everybody's part of the invariant, and its
\* own if its session is where it ought to be.
LEMMA QuietStep ==
  ASSUME IntakeInv, NEW s \in Sessions, UNCHANGED <<tables, roster>>, OthersKeepTheirs(s),
         job' \in [Sessions -> Job],
         batch_lock' \in [Batches -> Sessions \cup {NULL}],
         line_lock' \in [Lines -> Sessions \cup {NULL}],
         (job[s].inserted)' \subseteq job[s].inserted,
         HoldsWhatItNeeds(s)', KnowsWhatStands(s)'
  PROVE  IntakeInv' /\ TablesGrow
<1>1. RowsOnlyGrow(s)
  BY DEF RowsOnlyGrow, TablesGrow, tables
<1>2. \A t \in Sessions : HoldsWhatItNeeds(t)' /\ KnowsWhatStands(t)'
  BY <1>1, OthersFit
<1>3. IntakeTypes'
  BY DEF IntakeInv, IntakeTypes, tables
<1>4. StoredRight'
  <2>1. batch' = batch /\ settlement_line' = settlement_line /\ match_state' = match_state
          /\ match_result' = match_result /\ exception' = exception
          /\ matched_events' = matched_events
    BY DEF tables
  <2>2. Provenance' /\ BatchWhole' /\ OneFate'
    BY <2>1 DEF IntakeInv, StoredRight, Provenance, BatchWhole, OneFate
  <2>3. BookedCounterpart'
    BY <2>1 DEF IntakeInv, StoredRight, BookedCounterpart, Booked, Reverses, same_order,
                movement_type
  <2> QED BY <2>2, <2>3 DEF StoredRight
<1>5. InsertsApart'
  <2>1. \A t \in Sessions : (job[t].inserted)' \subseteq job[t].inserted
    BY DEF OthersKeepTheirs
  <2>2. match_result' = match_result
    BY DEF tables
  <2> QED BY <2>1, <2>2 DEF IntakeInv, InsertsApart
<1> QED BY <1>1, <1>2, <1>3, <1>4, <1>5 DEF IntakeInv, RowsOnlyGrow

\* The end of a transaction gives up the locks of its session and no others.
LEMMA ReleaseOwn ==
  ASSUME IntakeTypes, NEW s \in Sessions, Release(s)
  PROVE  /\ batch_lock' \in [Batches -> Sessions \cup {NULL}]
         /\ line_lock' \in [Lines -> Sessions \cup {NULL}]
         /\ \A b \in Batches : batch_lock'[b] # s
         /\ \A l \in Lines : line_lock'[l] # s
         /\ \A t \in Sessions \ {s} :
              /\ \A b \in Batches : batch_lock'[b] = t <=> batch_lock[b] = t
              /\ \A l \in Lines : line_lock'[l] = t <=> line_lock[l] = t
BY AbsenceAssumption DEF IntakeTypes, Release

LEMMA IdleIsJob ==
  Idle \in Job
BY DEF Idle, Job, Step

\* A session with nothing under way owes nothing.
LEMMA IdleFits ==
  ASSUME NEW s \in Sessions, job'[s] = Idle,
         \A b \in Batches : batch_lock'[b] # s, \A l \in Lines : line_lock'[l] # s
  PROVE  HoldsWhatItNeeds(s)' /\ KnowsWhatStands(s)'
<1>1. HoldsWhatItNeeds(s)'
  BY DEF HoldsWhatItNeeds, Idle, Matchers, Classifiers, Pinned
<1>2. KnowsWhatStands(s)'
  BY DEF KnowsWhatStands, Idle
<1> QED BY <1>1, <1>2

LEMMA DoesOnly ==
  ASSUME IntakeTypes, NEW s \in Sessions, NEW j \in Job, Do(s, j)
  PROVE  /\ job' \in [Sessions -> Job] /\ job'[s] = j
         /\ \A t \in Sessions \ {s} : job'[t] = job[t]
BY DEF IntakeTypes, Do

\* A transaction that ends with nothing written.
LEMMA EndQuiet ==
  ASSUME IntakeInv, NEW s \in Sessions, End(s), UNCHANGED <<tables, roster>>
  PROVE  IntakeInv' /\ TablesGrow
<1>1. Release(s) /\ Do(s, Idle)
  BY DEF End, EndAs, Idle
<1>2. IntakeTypes
  BY DEF IntakeInv
<1>3. /\ job' \in [Sessions -> Job] /\ job'[s] = Idle
      /\ \A t \in Sessions \ {s} : job'[t] = job[t]
  BY <1>1, <1>2, IdleIsJob, DoesOnly
<1>4. /\ batch_lock' \in [Batches -> Sessions \cup {NULL}]
      /\ line_lock' \in [Lines -> Sessions \cup {NULL}]
      /\ HoldsWhatItNeeds(s)' /\ KnowsWhatStands(s)' /\ OthersKeepTheirs(s)
  BY <1>1, <1>2, <1>3, ReleaseOwn, IdleFits DEF OthersKeepTheirs
<1>5. (job[s].inserted)' \subseteq job[s].inserted
  BY <1>3 DEF Idle
<1> QED BY <1>3, <1>4, <1>5, QuietStep

-------------------------------------------------------------------------------
(* Every step of intake keeps the invariant.                               *)

LEMMA InitFits ==
  ASSUME Init
  PROVE  IntakeInv
<1>1. /\ batch = [b \in Batches |-> [status |-> "absent", reason |-> NULL]]
      /\ settlement_line = [l \in Lines |-> NULL]
      /\ match_state = [l \in Lines |-> "absent"]
      /\ match_result = {}
      /\ exception = [l \in Lines |-> NULL]
      /\ matched_events = [l \in Lines |-> 0]
      /\ batch_lock = [b \in Batches |-> NULL]
      /\ line_lock = [l \in Lines |-> NULL]
      /\ job = [s \in Sessions |-> Idle]
      /\ roster \in Rosters
  BY DEF Init, InitIntake
<1>2. IntakeTypes
  <2>1. [status |-> "absent", reason |-> NULL] \in BatchRow
    BY DEF BatchRow
  <2> QED BY <1>1, <2>1, IdleIsJob DEF IntakeTypes, ExceptionRecord
<1>3. Provenance /\ BatchWhole /\ OneFate
  <2>1. Provenance
    BY <1>1 DEF Provenance
  <2>2. BatchWhole
    BY <1>1, IdAssumption DEF BatchWhole
  <2>3. OneFate
    BY <1>1 DEF OneFate
  <2> QED BY <2>1, <2>2, <2>3
<1>4. BookedCounterpart
  BY <1>1, AbsenceAssumption DEF BookedCounterpart, ClassificationRule
<1>5. ASSUME NEW s \in Sessions
      PROVE  HoldsWhatItNeeds(s) /\ KnowsWhatStands(s)
  <2>1. job[s] = Idle /\ Pinned(s) = {} /\ \A b \in Batches : batch_lock[b] # s
    BY <1>1, AbsenceAssumption DEF Pinned
  <2>2. HoldsWhatItNeeds(s)
    BY <2>1 DEF HoldsWhatItNeeds, Idle, Matchers, Classifiers
  <2>3. KnowsWhatStands(s)
    BY <2>1 DEF KnowsWhatStands, Idle
  <2> QED BY <2>2, <2>3
<1>6. InsertsApart
  BY <1>1 DEF InsertsApart, Idle
<1> QED BY <1>1, <1>2, <1>3, <1>4, <1>5, <1>6 DEF IntakeInv, StoredRight

\* The session takes its next step without touching a lock or a row.
LEMMA StepQuiet ==
  ASSUME IntakeInv, NEW s \in Sessions, NEW j \in Job, Do(s, j),
         UNCHANGED <<tables, roster, batch_lock, line_lock>>,
         j.inserted \subseteq job[s].inserted,
         HoldsWhatItNeeds(s)', KnowsWhatStands(s)'
  PROVE  IntakeInv' /\ TablesGrow
<1>1. IntakeTypes
  BY DEF IntakeInv
<1>2. /\ job' \in [Sessions -> Job] /\ job'[s] = j
      /\ \A t \in Sessions \ {s} : job'[t] = job[t]
  BY <1>1, DoesOnly
<1>3. OthersKeepTheirs(s)
  BY <1>2 DEF OthersKeepTheirs
<1>4. UNCHANGED <<tables, roster>> /\ (job[s].inserted)' \subseteq job[s].inserted
  BY <1>2
<1>5. /\ batch_lock' \in [Batches -> Sessions \cup {NULL}]
      /\ line_lock' \in [Lines -> Sessions \cup {NULL}]
  BY <1>1 DEF IntakeTypes
<1> QED BY <1>2, <1>3, <1>4, <1>5, QuietStep

LEMMA EligibleAreStored ==
  ASSUME IntakeTypes, StoredRight, NEW scope
  PROVE  /\ eligible_lines(scope) \subseteq Stored
         /\ \A l \in eligible_lines(scope) : match_state[l] = "unmatched" /\ exception[l] = NULL
BY DEF eligible_lines, StoredRight, OneFate, Stored

LEMMA OfThisSession ==
  ASSUME IntakeInv, NEW s \in Sessions
  PROVE  /\ IntakeTypes /\ StoredRight /\ HoldsWhatItNeeds(s) /\ KnowsWhatStands(s)
         /\ InsertsApart /\ job[s] \in Job
BY DEF IntakeInv, IntakeTypes

LEMMA LoadLines ==
  ASSUME IntakeInv, NEW s \in Sessions, NEW scope \in Scopes, load_lines(s, scope),
         UNCHANGED roster
  PROVE  IntakeInv' /\ TablesGrow
<1> DEFINE j == [Idle EXCEPT !.pc = "entries", !.read = eligible_lines(scope)]
<1>1. /\ job[s].pc = "idle" /\ Do(s, j)
      /\ UNCHANGED <<tables, roster, batch_lock, line_lock>>
  BY DEF load_lines
<1>2. j \in Job /\ j.pc = "entries" /\ j.inserted = {} /\ j.proposed = {}
        /\ j.read = eligible_lines(scope)
  BY DEF Idle, Job, Step, eligible_lines
<1> HIDE DEF j
<1>3. IntakeTypes /\ StoredRight /\ HoldsWhatItNeeds(s) /\ KnowsWhatStands(s)
  BY OfThisSession
<1>4. job'[s] = j
  BY <1>1, <1>2, <1>3, DoesOnly
<1>5. HoldsWhatItNeeds(s)'
  BY <1>1, <1>2, <1>3, <1>4 DEF HoldsWhatItNeeds, Pinned, Matchers, Classifiers, tables
<1>6. KnowsWhatStands(s)'
  BY <1>1, <1>2, <1>3, <1>4, EligibleAreStored DEF KnowsWhatStands, Stored, tables
<1> QED BY <1>1, <1>2, <1>5, <1>6, StepQuiet

LEMMA MatchProposals ==
  ASSUME NEW L, L \subseteq Lines, NEW E, E \subseteq Entries
  PROVE  /\ match(L, E) \subseteq ProposedMatch
         /\ \A p \in match(L, E) : p.line \in L
BY DEF match, accept_mutually_unique, settled_lines, settled_entries, ProposedMatch, MatchRule

LEMMA DecideMatches ==
  ASSUME IntakeInv, NEW s \in Sessions, decide_matches(s), UNCHANGED roster
  PROVE  IntakeInv' /\ TablesGrow
<1> DEFINE outcome == match(job[s].read, unconsumed_entries(job[s].read))
           j == [job[s] EXCEPT !.pc = "lock", !.proposed = outcome,
                               !.want = {p.line : p \in outcome}]
<1>1. IntakeTypes /\ StoredRight /\ HoldsWhatItNeeds(s) /\ KnowsWhatStands(s) /\ job[s] \in Job
  BY OfThisSession
<1>2. /\ job[s].pc = "entries" /\ UNCHANGED <<tables, roster, batch_lock, line_lock>>
  BY DEF decide_matches
<1>3. Pinned(s) = {} /\ Pinned(s)' = {} /\ \A b \in Batches : batch_lock[b] # s
  BY <1>1, <1>2 DEF HoldsWhatItNeeds, Pinned, Matchers, Classifiers
<1>4. CASE outcome = {}
  <2>1. Do(s, Idle)
    BY <1>4 DEF decide_matches
  <2>2. job'[s] = Idle /\ Idle \in Job /\ Idle.inserted = {}
    BY <1>1, <2>1, IdleIsJob, DoesOnly DEF Idle
  <2>3. HoldsWhatItNeeds(s)' /\ KnowsWhatStands(s)'
    BY <1>2, <1>3, <2>2, IdleFits DEF Pinned
  <2> QED BY <1>2, <2>1, <2>2, <2>3, StepQuiet
<1>5. CASE outcome # {}
  <2>1. Do(s, j)
    BY <1>5 DEF decide_matches
  <2>2. outcome \subseteq ProposedMatch /\ \A p \in outcome : p.line \in job[s].read
    BY <1>1, MatchProposals DEF unconsumed_entries, Job
  <2> HIDE DEF outcome
  <2>3. /\ j \in Job /\ j.pc = "lock" /\ j.proposed = outcome /\ j.read = job[s].read
        /\ j.want = {p.line : p \in outcome} /\ j.inserted = job[s].inserted
    <3>1. {p.line : p \in outcome} \subseteq Lines
      BY <2>2 DEF ProposedMatch
    <3> QED BY <1>1, <2>2, <3>1 DEF Job, Step
  <2> HIDE DEF j
  <2>4. job'[s] = j
    BY <1>1, <2>1, <2>3, DoesOnly
  <2>5. HoldsWhatItNeeds(s)'
    BY <1>2, <1>3, <1>5, <2>3, <2>4 DEF HoldsWhatItNeeds, Matchers, Classifiers
  <2>6. KnowsWhatStands(s)'
    BY <1>1, <1>2, <2>2, <2>3, <2>4 DEF KnowsWhatStands, Stored, tables
  <2> QED BY <1>2, <2>1, <2>3, <2>5, <2>6, StepQuiet
<1> QED BY <1>4, <1>5

\* One more row lock, taken below every one still wanted.
LEMMA LockOne ==
  ASSUME IntakeInv, NEW s \in Sessions, job[s].pc \in {"lock", "pin"},
         LockLine(s, IF job[s].pc = "lock" THEN "examine" ELSE "decide"), UNCHANGED roster
  PROVE  IntakeInv' /\ TablesGrow
<1> DEFINE m == next_wanted(s)
           rest == job[s].want \ {m}
           next == IF job[s].pc = "lock" THEN "examine" ELSE "decide"
           j == [job[s] EXCEPT !.want = rest, !.pc = IF rest = {} THEN next ELSE job[s].pc]
<1>1. IntakeTypes /\ StoredRight /\ HoldsWhatItNeeds(s) /\ KnowsWhatStands(s) /\ job[s] \in Job
  BY OfThisSession
<1>2. job[s].want # {} /\ job[s].want \subseteq Lines /\ Lines \subseteq Nat
  BY <1>1, IdAssumption DEF HoldsWhatItNeeds, Job
<1>3. m \in job[s].want /\ \A x \in rest : m < x
  <2>1. m \in job[s].want /\ \A x \in job[s].want : m <= x
    BY <1>2, LeastElement DEF next_wanted
  <2>2. m \in Nat /\ \A x \in rest : x \in Nat /\ x \in job[s].want /\ x # m
    BY <1>2, <2>1
  <2> HIDE DEF m, rest
  <2> QED BY <2>1, <2>2
<1>4. /\ line_lock[m] = NULL /\ line_lock' = [line_lock EXCEPT ![m] = s]
      /\ Do(s, j) /\ UNCHANGED <<tables, batch_lock>>
  BY DEF LockLine
<1> HIDE DEF m
<1>5. /\ j \in Job /\ j.want = rest /\ j.pc = IF rest = {} THEN next ELSE job[s].pc
      /\ j.proposed = job[s].proposed /\ j.inserted = job[s].inserted
      /\ j.read = job[s].read /\ j.batch = job[s].batch
  BY <1>1, <1>2 DEF Job, Step
<1> HIDE DEF j
<1>6. /\ job' \in [Sessions -> Job] /\ job'[s] = j
      /\ \A t \in Sessions \ {s} : job'[t] = job[t]
  BY <1>1, <1>4, <1>5, DoesOnly
<1>7. /\ line_lock' \in [Lines -> Sessions \cup {NULL}] /\ Pinned(s)' = Pinned(s) \cup {m}
      /\ \A t \in Sessions \ {s} : \A l \in Lines : line_lock'[l] = t <=> line_lock[l] = t
  BY <1>1, <1>2, <1>3, <1>4, AbsenceAssumption DEF IntakeTypes, Pinned
<1>8. OthersKeepTheirs(s)
  BY <1>4, <1>6, <1>7 DEF OthersKeepTheirs
<1>9. batch_lock' \in [Batches -> Sessions \cup {NULL}] /\ batch_lock' = batch_lock
  BY <1>1, <1>4 DEF IntakeTypes
<1>10. HoldsWhatItNeeds(s)'
  <2>1. \A b \in Batches : batch_lock[b] # s
    BY <1>1 DEF HoldsWhatItNeeds
  <2>2. \A l \in Pinned(s)', x \in rest : l < x
    BY <1>1, <1>3, <1>7 DEF HoldsWhatItNeeds
  <2>3. job[s].want \cup Pinned(s) = rest \cup Pinned(s)'
    BY <1>3, <1>7
  <2>4. rest = {} => Pinned(s)' = job[s].want \cup Pinned(s)
    BY <2>3
  <2>5. job[s].pc = "lock" =>
          /\ \A p \in j.proposed : p.line \in rest \cup Pinned(s)'
          /\ j.inserted = {}
    BY <1>1, <1>5, <2>3 DEF HoldsWhatItNeeds, KnowsWhatStands
  <2>6. job[s].pc = "pin" => j.read \subseteq rest \cup Pinned(s)'
    BY <1>1, <1>5, <2>3 DEF HoldsWhatItNeeds
  <2>7. CASE rest = {}
    BY <1>5, <1>6, <1>9, <2>1, <2>5, <2>6, <2>7 DEF HoldsWhatItNeeds, Matchers, Classifiers
  <2>8. CASE rest # {}
    BY <1>5, <1>6, <1>9, <2>1, <2>2, <2>5, <2>6, <2>8 DEF HoldsWhatItNeeds, Matchers, Classifiers
  <2> QED BY <2>7, <2>8
<1>11. KnowsWhatStands(s)'
  BY <1>1, <1>4, <1>5, <1>6 DEF KnowsWhatStands, Stored, tables
<1>12. (job[s].inserted)' \subseteq job[s].inserted
  BY <1>5, <1>6
<1> QED BY <1>4, <1>6, <1>7, <1>8, <1>9, <1>10, <1>11, <1>12, QuietStep

LEMMA DropUnderException ==
  ASSUME IntakeInv, NEW s \in Sessions, drop_under_exception(s), UNCHANGED roster
  PROVE  IntakeInv' /\ TablesGrow
<1> DEFINE kept == {p \in job[s].proposed : exception[p.line] = NULL}
           j == [job[s] EXCEPT !.pc = "insert", !.proposed = kept]
<1>1. IntakeTypes /\ StoredRight /\ HoldsWhatItNeeds(s) /\ KnowsWhatStands(s) /\ job[s] \in Job
  BY OfThisSession
<1>2. /\ job[s].pc = "examine" /\ UNCHANGED <<tables, roster, batch_lock, line_lock>>
      /\ Do(s, j)
  BY DEF drop_under_exception
<1>3. /\ j \in Job /\ j.pc = "insert" /\ j.proposed = kept /\ j.read = job[s].read
      /\ j.inserted = job[s].inserted /\ job[s].inserted = {}
  BY <1>1, <1>2 DEF Job, Step, KnowsWhatStands
<1> HIDE DEF j
<1>4. job'[s] = j
  BY <1>1, <1>2, <1>3, DoesOnly
<1>5. HoldsWhatItNeeds(s)'
  BY <1>1, <1>2, <1>3, <1>4 DEF HoldsWhatItNeeds, Matchers, Classifiers, Pinned
<1>6. KnowsWhatStands(s)'
  BY <1>1, <1>2, <1>3, <1>4 DEF KnowsWhatStands, Stored, tables
<1> QED BY <1>2, <1>3, <1>5, <1>6, StepQuiet

LEMMA InsertMatch ==
  ASSUME IntakeInv, NEW s \in Sessions, insert_match(s), UNCHANGED roster
  PROVE  IntakeInv' /\ TablesGrow
<1>1. /\ IntakeTypes /\ StoredRight /\ HoldsWhatItNeeds(s) /\ KnowsWhatStands(s)
      /\ InsertsApart /\ job[s] \in Job
  BY OfThisSession
<1>2. /\ job[s].pc = "insert" /\ InsertBlockedBy(s) = {}
      /\ UNCHANGED <<tables, roster, batch_lock, line_lock>>
  BY DEF insert_match
<1>3. PICK p \in next_insert(s) :
        Do(s, [job[s] EXCEPT
                 !.proposed = @ \ {p},
                 !.inserted = IF \E q \in match_result \cup job[s].inserted : Conflicts(p, q)
                              THEN @ ELSE @ \cup {p}])
  BY DEF insert_match
<1> DEFINE taken == \E q \in match_result \cup job[s].inserted : Conflicts(p, q)
           j == [job[s] EXCEPT !.proposed = job[s].proposed \ {p},
                               !.inserted = IF taken THEN job[s].inserted
                                            ELSE job[s].inserted \cup {p}]
<1>4. Do(s, j) /\ p \in job[s].proposed
  BY <1>3 DEF next_insert
<1>5. /\ j \in Job /\ j.pc = "insert" /\ j.proposed = job[s].proposed \ {p}
      /\ j.inserted = IF taken THEN job[s].inserted ELSE job[s].inserted \cup {p}
      /\ j.read = job[s].read
  BY <1>1, <1>2, <1>4 DEF Job
<1> HIDE DEF j
<1>6. /\ job' \in [Sessions -> Job] /\ job'[s] = j
      /\ \A t \in Sessions \ {s} : job'[t] = job[t]
  BY <1>1, <1>4, <1>5, DoesOnly
<1>7. HoldsWhatItNeeds(s)'
  BY <1>1, <1>2, <1>4, <1>5, <1>6 DEF HoldsWhatItNeeds, Matchers, Classifiers, Pinned
<1>8. KnowsWhatStands(s)'
  BY <1>1, <1>2, <1>4, <1>5, <1>6 DEF KnowsWhatStands, Stored, tables
<1>9. OthersKeepTheirs(s) /\ RowsOnlyGrow(s)
  BY <1>2, <1>6 DEF OthersKeepTheirs, RowsOnlyGrow, TablesGrow, tables
<1>10. \A t \in Sessions : HoldsWhatItNeeds(t)' /\ KnowsWhatStands(t)'
  BY <1>7, <1>8, <1>9, OthersFit
<1>11. IntakeTypes' /\ StoredRight'
  <2>1. IntakeTypes'
    BY <1>1, <1>2, <1>6 DEF IntakeTypes, tables
  <2>2. StoredRight'
    <3>1. batch' = batch /\ settlement_line' = settlement_line /\ match_state' = match_state
            /\ match_result' = match_result /\ exception' = exception
            /\ matched_events' = matched_events
      BY <1>2 DEF tables
    <3>2. Provenance' /\ BatchWhole' /\ OneFate'
      BY <1>1, <3>1 DEF StoredRight, Provenance, BatchWhole, OneFate
    <3>3. BookedCounterpart'
      BY <1>1, <1>9, <3>1, CounterpartsStand
    <3> QED BY <3>2, <3>3 DEF StoredRight
  <2> QED BY <2>1, <2>2
<1>12. InsertsApart'
  <2>1. \A t \in Sessions \ {s} : \A q \in job[t].inserted : ~Conflicts(p, q)
    BY <1>2, <1>3 DEF InsertBlockedBy
  <2>2. ~taken => \A q \in match_result \cup job[s].inserted : ~Conflicts(p, q)
    OBVIOUS
  <2>3. \A q, r : Conflicts(q, r) <=> Conflicts(r, q)
    BY DEF Conflicts
  <2>4. match_result' = match_result
    BY <1>2 DEF tables
  <2> HIDE DEF taken
  <2>5. \A t \in Sessions : \A q \in job'[t].inserted :
          q \in job[t].inserted \/ (t = s /\ q = p /\ ~taken)
    BY <1>5, <1>6
  <2>6. \A t, u \in Sessions : \A q \in job'[t].inserted, r \in job'[u].inserted :
          Conflicts(q, r) => t = u /\ q = r
    BY <1>1, <2>1, <2>2, <2>3, <2>5 DEF InsertsApart
  <2>7. \A t \in Sessions : \A q \in job'[t].inserted, r \in match_result : ~Conflicts(q, r)
    BY <1>1, <2>2, <2>5 DEF InsertsApart
  <2> QED BY <2>4, <2>6, <2>7 DEF InsertsApart
<1> QED BY <1>2, <1>9, <1>10, <1>11, <1>12 DEF IntakeInv, RowsOnlyGrow

LEMMA LoadResiduals ==
  ASSUME IntakeInv, NEW s \in Sessions, NEW scope \in Scopes, load_residuals(s, scope),
         UNCHANGED roster
  PROVE  IntakeInv' /\ TablesGrow
<1> DEFINE j == [Idle EXCEPT !.pc = "context", !.batch = scope, !.read = residual_lines(scope)]
<1>1. /\ job[s].pc = "idle" /\ Do(s, j)
      /\ UNCHANGED <<tables, roster, batch_lock, line_lock>>
  BY DEF load_residuals
<1>2. j \in Job /\ j.pc = "context" /\ j.inserted = {} /\ j.proposed = {}
        /\ j.read = residual_lines(scope)
  <2>1. scope \in Batches \cup {NULL}
    BY ScopeAssumption
  <2> QED BY <2>1 DEF Idle, Job, Step, eligible_lines, residual_lines
<1> HIDE DEF j
<1>3. IntakeTypes /\ StoredRight /\ HoldsWhatItNeeds(s) /\ KnowsWhatStands(s)
  BY OfThisSession
<1>4. job'[s] = j
  BY <1>1, <1>2, <1>3, DoesOnly
<1>5. HoldsWhatItNeeds(s)'
  <2>1. residual_lines(scope) # {}
    BY DEF load_residuals
  <2> QED BY <1>1, <1>2, <1>3, <1>4, <2>1
          DEF HoldsWhatItNeeds, Pinned, Matchers, Classifiers, tables
<1>6. KnowsWhatStands(s)'
  BY <1>1, <1>2, <1>3, <1>4, EligibleAreStored
     DEF KnowsWhatStands, Stored, tables, residual_lines
<1> QED BY <1>1, <1>2, <1>5, <1>6, StepQuiet

LEMMA LoadContext ==
  ASSUME IntakeInv, NEW s \in Sessions, load_context(s), UNCHANGED roster
  PROVE  IntakeInv' /\ TablesGrow
<1> DEFINE ids == ids_to_pin(s)
           j == [job[s] EXCEPT !.pc = "pin", !.want = ids, !.read = ids]
<1>1. IntakeTypes /\ StoredRight /\ HoldsWhatItNeeds(s) /\ KnowsWhatStands(s) /\ job[s] \in Job
  BY OfThisSession
<1>2. /\ job[s].pc = "context" /\ UNCHANGED <<tables, roster, batch_lock, line_lock>>
      /\ Do(s, j)
  BY DEF load_context
<1>3. ids # {} /\ ids \subseteq Stored /\ ids \subseteq Lines /\ job[s].read \subseteq ids
  BY <1>1, <1>2 DEF ids_to_pin, HoldsWhatItNeeds, KnowsWhatStands, context_of, Stored
<1> HIDE DEF ids
<1>4. /\ j \in Job /\ j.pc = "pin" /\ j.proposed = job[s].proposed /\ j.read = ids
      /\ j.want = ids /\ j.inserted = job[s].inserted
  BY <1>1, <1>3 DEF Job, Step
<1>5. Pinned(s) = {} /\ \A b \in Batches : batch_lock[b] # s
  BY <1>1, <1>2 DEF HoldsWhatItNeeds, Matchers, Classifiers
<1> HIDE DEF j
<1>6. job'[s] = j
  BY <1>1, <1>2, <1>4, DoesOnly
<1>7. HoldsWhatItNeeds(s)'
  BY <1>2, <1>3, <1>4, <1>5, <1>6 DEF HoldsWhatItNeeds, Matchers, Classifiers, Pinned
<1>8. KnowsWhatStands(s)'
  <2>1. Stored' = Stored
    BY <1>2 DEF Stored, tables
  <2> QED BY <1>1, <1>2, <1>3, <1>4, <1>6, <2>1 DEF KnowsWhatStands
<1>9. j.inserted \subseteq job[s].inserted
  BY <1>4
<1> QED BY <1>2, <1>4, <1>7, <1>8, <1>9, StepQuiet

\* A rule that says a line reverses something found it among the booked lines.
LEMMA RuleIsCarried ==
  ASSUME NEW l, NEW C
  PROVE  Carried(l, rule_for(l, C, Booked))
<1>1. ASSUME NEW kind, Cardinality(booked_offsets_of_type(l, C, Booked, kind)) = 1
      PROVE  \E m \in booked_offsets_of_type(l, C, Booked, kind) :
               m \in Booked /\ Reverses(l, m, kind)
  <2>1. booked_offsets_of_type(l, C, Booked, kind) # {}
    BY <1>1, FS_EmptySet
  <2> QED BY <2>1 DEF booked_offsets_of_type, booked_offsets, related, Reverses
<1>2. ASSUME rule_for(l, C, Booked) = "reversal_of_booked_chargeback"
      PROVE  \E m \in Booked : Reverses(l, m, "chargeback")
  <2>1. reversal_of_booked_chargeback(l, C, Booked)
    BY <1>2, RuleFired
  <2> QED BY <1>1, <2>1 DEF reversal_of_booked_chargeback
<1>3. ASSUME rule_for(l, C, Booked) = "refund_of_booked_capture_across_periods"
      PROVE  \E m \in Booked : /\ Reverses(l, m, "capture")
                               /\ accounting_period(settlement_line[m].value_date)
                                   # accounting_period(settlement_line[l].value_date)
  <2>1. refund_of_booked_capture_across_periods(l, C, Booked)
    BY <1>3, RuleFired
  <2> QED BY <1>1, <2>1 DEF refund_of_booked_capture_across_periods
<1> QED BY <1>2, <1>3 DEF Carried

\* What decide_rules hands to the rules holds all that a rule looks at.
LEMMA ContextIsEnough ==
  ASSUME IntakeTypes, StoredRight, NEW s \in Sessions, job[s] \in Job, NEW scope,
         NEW subjects, subjects = residual_lines(scope) \cap job[s].read, NEW l \in subjects
  PROVE  rule_for(l, subjects \cup (context_of(subjects) \cap job[s].read), Booked)
           = AsRead(s, l)
<1> DEFINE context == subjects \cup (context_of(subjects) \cap job[s].read)
<1>1. \A m \in subjects : m \in Stored /\ m \in job[s].read
                            /\ batch[settlement_line[m].batch_id].status = "parsed"
  BY EligibleAreStored DEF residual_lines
<1>2. ASSUME NEW m
      PROVE  m \in related(l, context) <=> m \in related(l, Seen(s, l))
  <2>1. ASSUME m \in related(l, context) PROVE m \in related(l, Seen(s, l))
    <3>1. m \in context /\ m # l /\ same_order(l, m)
      BY <2>1 DEF related
    <3>2. m \in Stored /\ batch[settlement_line[m].batch_id].status = "parsed"
            /\ m \in job[s].read
      BY <1>1, <3>1 DEF context_of
    <3> QED BY <3>1, <3>2 DEF related, Seen, context_of, same_order
  <2>2. ASSUME m \in related(l, Seen(s, l)) PROVE m \in related(l, context)
    BY <2>2 DEF related, Seen, context_of
  <2> QED BY <2>1, <2>2
<1>3. related(l, context) = related(l, Seen(s, l))
  BY <1>2 DEF related
<1> QED BY <1>3, RuleIsLocal DEF AsRead

LEMMA DecideRules ==
  ASSUME IntakeInv, NEW s \in Sessions, decide_rules(s), UNCHANGED roster
  PROVE  IntakeInv' /\ TablesGrow
<1> DEFINE subjects == residual_lines(job[s].batch) \cap job[s].read
           context == subjects \cup (context_of(subjects) \cap job[s].read)
           verdict == [l \in Lines |-> IF l \in subjects THEN rule_for(l, context, Booked)
                                       ELSE NULL]
           j == [job[s] EXCEPT !.pc = "persist", !.verdict = verdict]
<1>1. IntakeTypes /\ StoredRight /\ HoldsWhatItNeeds(s) /\ KnowsWhatStands(s) /\ job[s] \in Job
  BY OfThisSession
<1>2. job[s].pc = "decide" /\ UNCHANGED <<tables, roster>>
  BY DEF decide_rules
<1>3. CASE subjects = {}
  <2>1. End(s)
    BY <1>3 DEF decide_rules
  <2> QED BY <1>2, <2>1, EndQuiet
<1>4. CASE subjects # {}
  <2>1. Do(s, j) /\ UNCHANGED <<batch_lock, line_lock>>
    BY <1>4 DEF decide_rules
  <2>2. \A l \in subjects : /\ l \in job[s].read /\ match_state[l] = "unmatched"
                            /\ exception[l] = NULL
    BY <1>1, EligibleAreStored DEF residual_lines
  <2>3. \A l \in subjects : rule_for(l, context, Booked) = AsRead(s, l)
    BY <1>1, ContextIsEnough
  <2>4. \A l \in subjects : /\ rule_for(l, context, Booked) \in ClassificationRule
                            /\ Carried(l, rule_for(l, context, Booked))
    BY RuleFired, RuleIsCarried
  <2>5. verdict \in [Lines -> ClassificationRule \cup {NULL}]
    BY <2>4
  <2>6. \A l \in Lines : verdict[l] # NULL =>
          l \in subjects /\ verdict[l] = AsRead(s, l) /\ Carried(l, verdict[l])
    BY <2>3, <2>4
  <2> HIDE DEF verdict, subjects, context
  <2>7. /\ j \in Job /\ j.pc = "persist" /\ j.verdict = verdict /\ j.read = job[s].read
        /\ j.proposed = job[s].proposed /\ j.inserted = job[s].inserted
    BY <1>1, <2>5 DEF Job, Step
  <2> HIDE DEF j
  <2>8. /\ job' \in [Sessions -> Job] /\ job'[s] = j
        /\ \A t \in Sessions \ {s} : job'[t] = job[t]
    BY <1>1, <2>1, <2>7, DoesOnly
  <2>9. HoldsWhatItNeeds(s)'
    BY <1>1, <1>2, <2>1, <2>7, <2>8 DEF HoldsWhatItNeeds, Matchers, Classifiers, Pinned
  <2>10. KnowsWhatStands(s)'
    <3>1. RowsOnlyGrow(s) /\ match_state' = match_state /\ exception' = exception
      BY <1>2 DEF RowsOnlyGrow, TablesGrow, tables
    <3>2. job[s].read \subseteq Stored /\ Stored' = Stored
      BY <1>1, <1>2 DEF KnowsWhatStands, Stored, tables
    <3>3. ASSUME NEW l \in Lines, verdict[l] # NULL
          PROVE  /\ l \in job[s].read /\ match_state'[l] = "unmatched" /\ exception'[l] = NULL
                 /\ (job[s].verdict[l])' = AsRead(s, l)' /\ Carried(l, job[s].verdict[l])'
      <4>1. l \in subjects /\ verdict[l] = AsRead(s, l) /\ Carried(l, verdict[l])
        BY <2>6, <3>3
      <4>2. l \in job[s].read /\ match_state[l] = "unmatched" /\ exception[l] = NULL
        BY <2>2, <4>1
      <4>3. (job[s].read)' = job[s].read /\ (job[s].verdict[l])' = verdict[l]
        BY <2>7, <2>8
      <4>4. AsRead(s, l)' = AsRead(s, l)
        BY <1>1, <3>1, <3>2, <4>2, <4>3, VerdictStands
      <4>5. Carried(l, job[s].verdict[l])'
        <5>1. PICK r : r = verdict[l]
          OBVIOUS
        <5>2. Carried(l, r)'
          BY <1>1, <3>1, <3>2, <4>1, <4>2, <5>1, CarriedStands
        <5> QED BY <4>3, <5>1, <5>2
      <4> QED BY <3>1, <4>1, <4>2, <4>3, <4>4, <4>5
    <3> QED BY <1>1, <1>2, <2>7, <2>8, <3>1, <3>2, <3>3 DEF KnowsWhatStands
  <2>11. j.inserted \subseteq job[s].inserted
    BY <2>7
  <2> QED BY <1>2, <2>1, <2>7, <2>9, <2>10, <2>11, StepQuiet
<1> QED BY <1>3, <1>4

LEMMA EndIsIdle ==
  ASSUME NEW s, End(s)
  PROVE  Release(s) /\ Do(s, Idle)
BY DEF End, EndAs, Idle

\* A transaction that commits what its session had in hand.
LEMMA EndWrites ==
  ASSUME IntakeInv, NEW s \in Sessions, End(s), RowsOnlyGrow(s), UNCHANGED roster,
         batch' \in [Batches -> BatchRow],
         settlement_line' \in [Lines -> SettlementLine \cup {NULL}],
         match_state' \in [Lines -> MatchState \cup {"absent"}],
         match_result' \subseteq ProposedMatch,
         exception' \in [Lines -> ExceptionRecord],
         matched_events' \in [Lines -> Nat],
         StoredRight',
         match_result' \subseteq match_result \cup job[s].inserted
  PROVE  IntakeInv' /\ TablesGrow
<1>1. /\ IntakeTypes /\ StoredRight /\ HoldsWhatItNeeds(s) /\ KnowsWhatStands(s)
      /\ InsertsApart /\ job[s] \in Job
  BY OfThisSession
<1>2. Release(s) /\ Do(s, Idle)
  BY EndIsIdle
<1>3. /\ job' \in [Sessions -> Job] /\ job'[s] = Idle
      /\ \A t \in Sessions \ {s} : job'[t] = job[t]
  BY <1>1, <1>2, IdleIsJob, DoesOnly
<1>4. /\ batch_lock' \in [Batches -> Sessions \cup {NULL}]
      /\ line_lock' \in [Lines -> Sessions \cup {NULL}]
      /\ HoldsWhatItNeeds(s)' /\ KnowsWhatStands(s)' /\ OthersKeepTheirs(s)
  BY <1>1, <1>2, <1>3, ReleaseOwn, IdleFits DEF OthersKeepTheirs
<1>5. \A t \in Sessions : HoldsWhatItNeeds(t)' /\ KnowsWhatStands(t)'
  BY <1>4, OthersFit
<1>6. IntakeTypes'
  BY <1>3, <1>4 DEF IntakeTypes
<1>7. InsertsApart'
  <2>1. job'[s].inserted = {}
    BY <1>3 DEF Idle
  <2>2. \A t \in Sessions : \A q \in job'[t].inserted : t # s /\ q \in job[t].inserted
    BY <1>3, <2>1
  <2>3. \A t, u \in Sessions : \A q \in job'[t].inserted, r \in job'[u].inserted :
          Conflicts(q, r) => t = u /\ q = r
    BY <1>1, <2>2 DEF InsertsApart
  <2>4. \A t \in Sessions : \A q \in job'[t].inserted, r \in match_result' : ~Conflicts(q, r)
    BY <1>1, <2>2 DEF InsertsApart
  <2> QED BY <2>3, <2>4 DEF InsertsApart
<1> QED BY <1>5, <1>6, <1>7 DEF IntakeInv, RowsOnlyGrow

LEMMA RecordReceipt ==
  ASSUME IntakeInv, NEW s \in Sessions, NEW b \in Batches, record_receipt(s, b),
         UNCHANGED roster
  PROVE  IntakeInv' /\ TablesGrow
<1> DEFINE j == [Idle EXCEPT !.pc = "claim", !.batch = b]
<1>1. /\ IntakeTypes /\ StoredRight /\ HoldsWhatItNeeds(s) /\ KnowsWhatStands(s)
      /\ InsertsApart /\ job[s] \in Job
  BY OfThisSession
<1>2. /\ job[s].pc = "idle" /\ Do(s, j)
      /\ batch' = [batch EXCEPT ![b].status = IF @ = "absent" THEN "received" ELSE @]
      /\ UNCHANGED <<settlement_line, match_state, match_result, exception, matched_events,
                     batch_lock, line_lock>>
  BY DEF record_receipt
<1>3. j \in Job /\ j.pc = "claim" /\ j.batch = b /\ j.inserted = {} /\ j.proposed = {}
        /\ j.read = {}
  BY DEF Idle, Job, Step
<1> HIDE DEF j
<1>4. /\ job' \in [Sessions -> Job] /\ job'[s] = j
      /\ \A t \in Sessions \ {s} : job'[t] = job[t]
  BY <1>1, <1>2, <1>3, DoesOnly
<1>5. /\ batch' \in [Batches -> BatchRow]
      /\ \A c \in Batches : /\ batch'[c].reason = batch[c].reason
                            /\ batch'[c].status = IF batch[c].status = "absent" /\ c = b
                                                  THEN "received" ELSE batch[c].status
  <2>1. \A c \in Batches : batch[c] = [status |-> batch[c].status, reason |-> batch[c].reason]
                             /\ batch[c].status \in BatchStatus \cup {"absent"}
                             /\ batch[c].reason \in Reason \cup {NULL}
    BY <1>1 DEF IntakeTypes, BatchRow
  <2> DEFINE now == IF batch[b].status = "absent" THEN "received" ELSE batch[b].status
             row == [status |-> now, reason |-> batch[b].reason]
  <2>2. [batch[b] EXCEPT !.status = now] = row
    <3>1. batch[b] \in BatchRow
      BY <1>1 DEF IntakeTypes
    <3> HIDE DEF now
    <3> QED BY <3>1 DEF BatchRow
  <2>3. batch' = [batch EXCEPT ![b] = [batch[b] EXCEPT !.status = now]]
    BY <1>2
  <2>4. batch' = [batch EXCEPT ![b] = row]
    BY <2>2, <2>3
  <2>5. row \in BatchRow
    BY <2>1 DEF BatchRow, BatchStatus
  <2> HIDE DEF now
  <2>6. /\ batch' \in [Batches -> BatchRow] /\ batch'[b] = row
        /\ \A c \in Batches \ {b} : batch'[c] = batch[c]
    BY <1>1, <2>4, <2>5 DEF IntakeTypes
  <2> QED BY <2>6 DEF now
<1>6. RowsOnlyGrow(s)
  BY <1>2, <1>5 DEF RowsOnlyGrow, TablesGrow
<1>7. OthersKeepTheirs(s)
  BY <1>2, <1>4 DEF OthersKeepTheirs
<1>8. HoldsWhatItNeeds(s)' /\ KnowsWhatStands(s)'
  <2>1. HoldsWhatItNeeds(s)'
    BY <1>1, <1>2, <1>3, <1>4 DEF HoldsWhatItNeeds, Matchers, Classifiers, Pinned
  <2>2. KnowsWhatStands(s)'
    BY <1>3, <1>4 DEF KnowsWhatStands
  <2> QED BY <2>1, <2>2
<1>9. \A t \in Sessions : HoldsWhatItNeeds(t)' /\ KnowsWhatStands(t)'
  BY <1>6, <1>7, <1>8, OthersFit
<1>10. IntakeTypes'
  BY <1>1, <1>2, <1>4, <1>5 DEF IntakeTypes
<1>11. StoredRight'
  <2>1. Provenance'
    BY <1>1, <1>2, <1>5 DEF StoredRight, Provenance
  <2>2. BatchWhole'
    BY <1>1, <1>2, <1>5 DEF StoredRight, BatchWhole
  <2>3. OneFate'
    BY <1>1, <1>2 DEF StoredRight, OneFate
  <2>4. BookedCounterpart'
    BY <1>1, <1>2, <1>6, CounterpartsStand
  <2> QED BY <2>1, <2>2, <2>3, <2>4 DEF StoredRight
<1>12. InsertsApart'
  BY <1>1, <1>2, <1>3, <1>4 DEF InsertsApart
<1> QED BY <1>6, <1>9, <1>10, <1>11, <1>12 DEF IntakeInv, RowsOnlyGrow

LEMMA ClaimBatch ==
  ASSUME IntakeInv, NEW s \in Sessions, claim_batch(s), UNCHANGED roster
  PROVE  IntakeInv' /\ TablesGrow
<1> DEFINE b == job[s].batch
           j == [job[s] EXCEPT !.pc = "settle"]
<1>1. /\ IntakeTypes /\ StoredRight /\ HoldsWhatItNeeds(s) /\ KnowsWhatStands(s)
      /\ InsertsApart /\ job[s] \in Job
  BY OfThisSession
<1>2. job[s].pc = "claim" /\ batch_lock[b] = NULL /\ UNCHANGED <<tables, roster>>
        /\ b \in Batches
  BY <1>1 DEF claim_batch, HoldsWhatItNeeds
<1>3. CASE batch[b].status = "received"
  <2>1. batch_lock' = [batch_lock EXCEPT ![b] = s] /\ Do(s, j) /\ line_lock' = line_lock
    BY <1>3 DEF claim_batch
  <2>2. /\ j \in Job /\ j.pc = "settle" /\ j.batch = b /\ j.inserted = job[s].inserted
        /\ j.proposed = job[s].proposed /\ j.read = job[s].read
    BY <1>1 DEF Job, Step
  <2> HIDE DEF j
  <2>3. /\ job' \in [Sessions -> Job] /\ job'[s] = j
        /\ \A t \in Sessions \ {s} : job'[t] = job[t]
    BY <1>1, <2>1, <2>2, DoesOnly
  <2>4. /\ batch_lock' \in [Batches -> Sessions \cup {NULL}] /\ batch_lock'[b] = s
        /\ \A t \in Sessions \ {s} : \A c \in Batches : batch_lock'[c] = t <=> batch_lock[c] = t
        /\ line_lock' \in [Lines -> Sessions \cup {NULL}]
    BY <1>1, <1>2, <2>1, AbsenceAssumption DEF IntakeTypes
  <2>5. OthersKeepTheirs(s)
    BY <2>1, <2>3, <2>4 DEF OthersKeepTheirs
  <2>6. HoldsWhatItNeeds(s)'
    BY <1>1, <1>2, <1>3, <2>1, <2>2, <2>3, <2>4
       DEF HoldsWhatItNeeds, Matchers, Classifiers, Pinned, tables
  <2>7. KnowsWhatStands(s)'
    BY <1>1, <1>2, <2>2, <2>3 DEF KnowsWhatStands, Stored, tables
  <2>8. (job[s].inserted)' \subseteq job[s].inserted
    BY <2>2, <2>3
  <2> QED BY <1>2, <2>3, <2>4, <2>5, <2>6, <2>7, <2>8, QuietStep
<1>4. CASE batch[b].status # "received"
  <2>1. End(s)
    BY <1>4 DEF claim_batch
  <2> QED BY <1>2, <2>1, EndQuiet
<1> QED BY <1>3, <1>4

\* What a refusal keeps of the defects is all of them, named or counted.
LEMMA ReasonCounts ==
  ASSUME NEW b \in Batches
  PROVE  LET reason == render_reason(defects_of(Payload[b]))
         IN  /\ reason \in Reason
             /\ reason.shown + reason.more = Cardinality(defects_of(Payload[b]))
<1> DEFINE c == Cardinality(defects_of(Payload[b]))
           shown == Least(c, MAX_REPORTED_DEFECTS)
           reason == [shown |-> shown, more |-> c - shown]
<1>1. c \in Nat
  BY DefectsAreFinite, FS_CardinalityType
<1> HIDE DEF c
<1>2. shown \in 0 .. MAX_REPORTED_DEFECTS /\ c - shown \in Nat /\ shown + (c - shown) = c
  BY <1>1 DEF Least, MAX_REPORTED_DEFECTS
<1> HIDE DEF shown
<1>3. render_reason(defects_of(Payload[b])) = reason
  BY DEF render_reason, c, shown
<1>4. reason \in Reason /\ reason.shown + reason.more = c
  BY <1>2 DEF Reason
<1> QED BY <1>3, <1>4 DEF c

LEMMA Settle ==
  ASSUME IntakeInv, NEW s \in Sessions, settle(s), UNCHANGED roster
  PROVE  IntakeInv' /\ TablesGrow
<1> DEFINE b == job[s].batch
           defects == defects_of(Payload[b])
           kept == accepted_rows(b)
           new(l) == \E n \in kept : LineId[b][n] = l
<1>1. /\ IntakeTypes /\ StoredRight /\ HoldsWhatItNeeds(s) /\ KnowsWhatStands(s)
      /\ InsertsApart /\ job[s] \in Job
  BY OfThisSession
<1>2. /\ b \in Batches /\ batch_lock[b] = s /\ batch[b].status = "received"
      /\ UNCHANGED <<match_result, exception, matched_events, roster>>
  BY <1>1 DEF settle, HoldsWhatItNeeds
<1>3. kept \subseteq Rows(b) /\ (defects = {} => kept = Rows(b)) /\ (defects # {} => kept = {})
  BY DEF accepted_rows
<1>4. \A n \in Rows(b) : LineId[b][n] \in Lines /\ settlement_line[LineId[b][n]] = NULL
                           /\ match_state[LineId[b][n]] = "absent"
  BY <1>1, <1>2, IdAssumption DEF StoredRight, BatchWhole, OneFate
<1>5. \A n \in kept : storable(line_of(b, n)) /\ line_of(b, n) \in SettlementLine
                        /\ line_of(b, n) # NULL
  <2>1. \A n \in kept : storable(line_of(b, n))
    BY <1>2, <1>3, CleanRowIsStorable
  <2>2. \A n \in kept : line_of(b, n) \in SettlementLine
    BY <1>2, <1>3 DEF SettlementLine
  <2> QED BY <2>1, <2>2, AbsenceAssumption
<1>6. ~write_refused(b)
  BY <1>3, <1>4, <1>5 DEF write_refused
<1>7. /\ batch' = [batch EXCEPT ![b] =
              IF defects = {} THEN [status |-> "parsed", reason |-> NULL]
              ELSE [status |-> "quarantined", reason |-> render_reason(defects)]]
      /\ settlement_line' = [l \in Lines |->
              IF new(l) THEN line_of(b, CHOOSE n \in kept : LineId[b][n] = l)
              ELSE settlement_line[l]]
      /\ match_state' = [l \in Lines |-> IF new(l) THEN "unmatched" ELSE match_state[l]]
      /\ End(s)
  BY <1>6 DEF settle
<1>8. \A n \in kept : settlement_line'[LineId[b][n]] = line_of(b, n)
  <2> SUFFICES ASSUME NEW n \in kept
               PROVE  settlement_line'[LineId[b][n]] = line_of(b, n)
    OBVIOUS
  <2> DEFINE m == CHOOSE m \in kept : LineId[b][m] = LineId[b][n]
  <2>1. m \in kept /\ LineId[b][m] = LineId[b][n]
    OBVIOUS
  <2>2. m = n
    BY <1>2, <1>3, <2>1, IdAssumption
  <2>3. LineId[b][n] \in Lines /\ new(LineId[b][n])
    BY <1>3, <1>4
  <2> QED BY <1>7, <2>2, <2>3
<1>9. \A l \in Lines : ~new(l) => settlement_line'[l] = settlement_line[l]
                                    /\ match_state'[l] = match_state[l]
  BY <1>7
<1>10. \A l \in Lines : new(l) => /\ settlement_line[l] = NULL /\ match_state[l] = "absent"
                                  /\ settlement_line'[l] \in SettlementLine
                                  /\ match_state'[l] = "unmatched"
  BY <1>3, <1>4, <1>5, <1>7, <1>8
<1>11. /\ batch' \in [Batches -> BatchRow]
       /\ \A c \in Batches \ {b} : batch'[c] = batch[c]
       /\ batch'[b].status = IF defects = {} THEN "parsed" ELSE "quarantined"
       /\ batch'[b].reason = IF defects = {} THEN NULL ELSE render_reason(defects)
  <2> DEFINE row == IF defects = {} THEN [status |-> "parsed", reason |-> NULL]
                    ELSE [status |-> "quarantined", reason |-> render_reason(defects)]
  <2>1. render_reason(defects) \in Reason
    BY <1>2, ReasonCounts
  <2>2. row \in BatchRow
    BY <2>1 DEF BatchRow, BatchStatus
  <2> QED BY <1>1, <1>2, <1>7, <2>2 DEF IntakeTypes
<1>12. RowsOnlyGrow(s)
  <2>1. \A l \in Stored : ~new(l)
    BY <1>3, <1>4 DEF Stored
  <2>2. \A l \in Lines : match_state[l] = "matched" => ~new(l)
    BY <1>3, <1>4
  <2> HIDE DEF new
  <2> QED BY <1>2, <1>9, <1>11, <2>1, <2>2 DEF RowsOnlyGrow, TablesGrow, Stored
<1> HIDE DEF new
<1>13. /\ settlement_line' \in [Lines -> SettlementLine \cup {NULL}]
       /\ match_state' \in [Lines -> MatchState \cup {"absent"}]
  <2>1. settlement_line' = [l \in Lines |-> settlement_line'[l]]
    BY <1>7
  <2>2. \A l \in Lines : settlement_line'[l] \in SettlementLine \cup {NULL}
    BY <1>1, <1>9, <1>10 DEF IntakeTypes
  <2>3. match_state' \in [Lines -> MatchState \cup {"absent"}]
    BY <1>1, <1>7 DEF IntakeTypes, MatchState
  <2> QED BY <2>1, <2>2, <2>3
<1>14. StoredRight'
  <2>1. Provenance'
    <3> SUFFICES ASSUME NEW l \in Lines, settlement_line'[l] # NULL
                 PROVE  \E c \in Batches : \E n \in Rows(c) :
                          /\ l = LineId[c][n] /\ batch'[c].status = "parsed"
                          /\ defects_of(Payload[c]) = {}
      BY DEF Provenance
    <3>1. CASE new(l)
      BY <1>2, <1>3, <1>11, <3>1 DEF new
    <3>2. CASE ~new(l)
      <4>1. PICK c \in Batches : \E n \in Rows(c) :
              /\ l = LineId[c][n] /\ batch[c].status = "parsed"
              /\ defects_of(Payload[c]) = {}
        BY <1>1, <1>9, <3>2 DEF StoredRight, Provenance
      <4>2. c # b
        BY <1>2, <4>1
      <4> QED BY <1>11, <4>1, <4>2
    <3> QED BY <3>1, <3>2
  <2>2. BatchWhole'
    <3>1. ASSUME NEW c \in Batches, NEW n \in Rows(c)
          PROVE  IF batch'[c].status = "parsed"
                 THEN settlement_line'[LineId[c][n]] = line_of(c, n)
                        /\ storable(settlement_line'[LineId[c][n]])
                 ELSE settlement_line'[LineId[c][n]] = NULL
      <4>1. CASE c = b
        <5>1. CASE defects = {}
          BY <1>3, <1>5, <1>8, <1>11, <4>1, <5>1
        <5>2. CASE defects # {}
          BY <1>3, <1>4, <1>9, <1>11, <4>1, <5>2 DEF new
        <5> QED BY <5>1, <5>2
      <4>2. CASE c # b
        <5>1. ~new(LineId[c][n]) /\ LineId[c][n] \in Lines
          BY <1>2, <1>3, <4>2, IdAssumption DEF new
        <5> QED BY <1>1, <1>9, <1>11, <4>2, <5>1 DEF StoredRight, BatchWhole
      <4> QED BY <4>1, <4>2
    <3>2. ASSUME NEW c \in Batches
          PROVE  IF batch'[c].status = "quarantined"
                 THEN batch'[c].reason.shown + batch'[c].reason.more
                        = Cardinality(defects_of(Payload[c]))
                 ELSE batch'[c].reason = NULL
      <4>1. CASE c = b
        BY <1>2, <1>11, <4>1, ReasonCounts
      <4>2. CASE c # b
        BY <1>1, <1>11, <4>2 DEF StoredRight, BatchWhole
      <4> QED BY <4>1, <4>2
    <3> QED BY <3>1, <3>2 DEF BatchWhole
  <2>3. OneFate'
    <3>1. OneFate
      BY <1>1 DEF StoredRight
    <3>2. ASSUME NEW l \in Lines
          PROVE  /\ match_state'[l] = "absent" <=> settlement_line'[l] = NULL
                 /\ match_state'[l] = "matched" <=> \E p \in match_result' : p.line = l
                 /\ matched_events'[l] = IF match_state'[l] = "matched" THEN 1 ELSE 0
                 /\ exception'[l] # NULL => match_state'[l] = "unmatched"
      <4>1. /\ match_state[l] = "absent" <=> settlement_line[l] = NULL
            /\ match_state[l] = "matched" <=> \E p \in match_result : p.line = l
            /\ matched_events[l] = IF match_state[l] = "matched" THEN 1 ELSE 0
            /\ exception[l] # NULL => match_state[l] = "unmatched"
        BY <3>1 DEF OneFate
      <4>2. CASE new(l)
        BY <1>2, <1>10, <4>1, <4>2, AbsenceAssumption
      <4>3. CASE ~new(l)
        BY <1>2, <1>9, <4>1, <4>3
      <4> QED BY <4>2, <4>3
    <3>3. \A p, q \in match_result' : Conflicts(p, q) => p = q
      BY <1>2, <3>1 DEF OneFate
    <3> QED BY <3>2, <3>3 DEF OneFate
  <2>4. BookedCounterpart'
    BY <1>1, <1>2, <1>12, CounterpartsStand
  <2> QED BY <2>1, <2>2, <2>3, <2>4 DEF StoredRight
<1> QED
  <2>1. /\ match_result' \subseteq ProposedMatch
        /\ exception' \in [Lines -> ExceptionRecord]
        /\ matched_events' \in [Lines -> Nat]
        /\ match_result' \subseteq match_result \cup job[s].inserted
    BY <1>1, <1>2 DEF IntakeTypes
  <2> QED BY <1>2, <1>7, <1>11, <1>12, <1>13, <1>14, <2>1, EndWrites

LEMMA CommitMatches ==
  ASSUME IntakeInv, NEW s \in Sessions, commit_matches(s), UNCHANGED roster
  PROVE  IntakeInv' /\ TablesGrow
<1> DEFINE mine == job[s].inserted
           landed == {q.line : q \in mine}
<1>1. /\ IntakeTypes /\ StoredRight /\ HoldsWhatItNeeds(s) /\ KnowsWhatStands(s)
      /\ InsertsApart /\ job[s] \in Job
  BY OfThisSession
<1>2. job[s].pc = "insert" /\ UNCHANGED <<batch, settlement_line, exception, roster>>
  BY DEF commit_matches
<1>3. /\ mine \subseteq ProposedMatch
      /\ \A q \in mine : /\ exception[q.line] = NULL /\ line_lock[q.line] = s
                         /\ settlement_line[q.line] # NULL /\ q.line \in Lines
  <2>1. mine \subseteq ProposedMatch
    BY <1>1 DEF Job
  <2>2. \A q \in mine : exception[q.line] = NULL /\ q.line \in Pinned(s) /\ q.line \in Stored
    BY <1>1, <1>2 DEF HoldsWhatItNeeds, KnowsWhatStands
  <2> QED BY <2>1, <2>2 DEF Pinned, Stored
<1>4. ~update_refused(s)
  BY <1>3 DEF update_refused
<1>5. /\ match_result' = match_result \cup mine
      /\ match_state' = [l \in Lines |-> IF l \in landed THEN "matched" ELSE match_state[l]]
      /\ matched_events' = [l \in Lines |-> IF l \in landed THEN matched_events[l] + 1
                                            ELSE matched_events[l]]
      /\ End(s)
  BY <1>4 DEF commit_matches, audited
<1>6. OneFate
  BY <1>1 DEF StoredRight
<1>7. \A q \in mine : match_state[q.line] = "unmatched"
  <2> SUFFICES ASSUME NEW q \in mine PROVE match_state[q.line] = "unmatched"
    OBVIOUS
  <2>1. q.line \in Lines /\ settlement_line[q.line] # NULL
    BY <1>3
  <2>2. match_state[q.line] # "matched"
    <3>1. ASSUME match_state[q.line] = "matched" PROVE FALSE
      <4>1. PICK p \in match_result : p.line = q.line
        BY <1>6, <2>1, <3>1 DEF OneFate
      <4> QED BY <1>1, <4>1 DEF InsertsApart, Conflicts
    <3> QED BY <3>1
  <2> QED BY <1>1, <1>6, <2>1, <2>2 DEF OneFate, IntakeTypes, MatchState
<1>8. \A l \in landed : match_state[l] = "unmatched" /\ exception[l] = NULL /\ line_lock[l] = s
  BY <1>3, <1>7
<1>9. RowsOnlyGrow(s)
  <2>1. \A l \in Lines : line_lock[l] # s => l \notin landed
    BY <1>8
  <2> HIDE DEF landed
  <2> QED BY <1>2, <1>5, <2>1 DEF RowsOnlyGrow, TablesGrow, Stored
<1>10. \A l \in Lines : (\E p \in match_result' : p.line = l)
                          <=> l \in landed \/ \E p \in match_result : p.line = l
  BY <1>5
<1>11. \A p, q \in match_result' : Conflicts(p, q) => p = q
  <2>1. \A p, q : Conflicts(p, q) <=> Conflicts(q, p)
    BY DEF Conflicts
  <2> QED BY <1>1, <1>5, <1>6, <2>1 DEF InsertsApart, OneFate
<1> HIDE DEF landed
<1>12. OneFate'
  <2> SUFFICES ASSUME NEW l \in Lines
               PROVE  /\ match_state'[l] = "absent" <=> settlement_line'[l] = NULL
                      /\ match_state'[l] = "matched" <=> \E p \in match_result' : p.line = l
                      /\ matched_events'[l] = IF match_state'[l] = "matched" THEN 1 ELSE 0
                      /\ exception'[l] # NULL => match_state'[l] = "unmatched"
    BY <1>11 DEF OneFate
  <2>1. /\ match_state[l] = "absent" <=> settlement_line[l] = NULL
        /\ match_state[l] = "matched" <=> \E p \in match_result : p.line = l
        /\ matched_events[l] = IF match_state[l] = "matched" THEN 1 ELSE 0
        /\ exception[l] # NULL => match_state[l] = "unmatched"
    BY <1>6 DEF OneFate
  <2>2. CASE l \in landed
    BY <1>2, <1>5, <1>8, <1>10, <2>1, <2>2
  <2>3. CASE l \notin landed
    BY <1>2, <1>5, <1>10, <2>1, <2>3
  <2> QED BY <2>2, <2>3
<1>13. StoredRight'
  <2>1. Provenance' /\ BatchWhole'
    BY <1>1, <1>2 DEF StoredRight, Provenance, BatchWhole
  <2>2. BookedCounterpart'
    BY <1>1, <1>2, <1>9, CounterpartsStand
  <2> QED BY <1>12, <2>1, <2>2 DEF StoredRight
<1>14. /\ batch' \in [Batches -> BatchRow]
       /\ settlement_line' \in [Lines -> SettlementLine \cup {NULL}]
       /\ match_state' \in [Lines -> MatchState \cup {"absent"}]
       /\ match_result' \subseteq ProposedMatch
       /\ exception' \in [Lines -> ExceptionRecord]
       /\ matched_events' \in [Lines -> Nat]
  BY <1>1, <1>2, <1>3, <1>5 DEF IntakeTypes, MatchState
<1>15. match_result' \subseteq match_result \cup job[s].inserted
  BY <1>5
<1> QED BY <1>2, <1>5, <1>9, <1>13, <1>14, <1>15, EndWrites

LEMMA Persist ==
  ASSUME IntakeInv, NEW s \in Sessions, persist(s), UNCHANGED roster
  PROVE  IntakeInv' /\ TablesGrow
<1> DEFINE verdict == job[s].verdict
           new == raised(s)
<1>1. /\ IntakeTypes /\ StoredRight /\ HoldsWhatItNeeds(s) /\ KnowsWhatStands(s)
      /\ InsertsApart /\ job[s] \in Job
  BY OfThisSession
<1>2. /\ job[s].pc = "persist"
      /\ UNCHANGED <<batch, settlement_line, match_state, match_result, matched_events, roster>>
  BY DEF persist
<1>3. \A l \in new : /\ l \in Lines /\ verdict[l] # NULL /\ match_state[l] = "unmatched"
                     /\ line_lock[l] = s /\ Carried(l, verdict[l])
  BY <1>1, <1>2 DEF raised, KnowsWhatStands, HoldsWhatItNeeds, Pinned
<1>4. ~raise_refused(s)
  BY <1>3 DEF raise_refused
<1>5. /\ exception' = [l \in Lines |-> IF l \in new THEN verdict[l] ELSE exception[l]]
      /\ End(s)
  BY <1>4 DEF persist
<1>6. exception' \in [Lines -> ExceptionRecord]
  BY <1>1, <1>5 DEF IntakeTypes, ExceptionRecord, Job
<1> HIDE DEF new
<1>7. RowsOnlyGrow(s)
  <2>1. \A l \in Lines : exception[l] # NULL \/ line_lock[l] # s => l \notin new
    BY <1>3 DEF new, raised
  <2> QED BY <1>2, <1>5, <2>1 DEF RowsOnlyGrow, TablesGrow, Stored
<1>8. StoredRight'
  <2>1. Provenance' /\ BatchWhole'
    BY <1>1, <1>2 DEF StoredRight, Provenance, BatchWhole
  <2>2. OneFate'
    BY <1>1, <1>2, <1>3, <1>5 DEF StoredRight, OneFate
  <2>3. BookedCounterpart'
    <3>1. \A l \in Lines : exception'[l] # NULL => Carried(l, exception'[l])
      BY <1>1, <1>3, <1>5 DEF StoredRight, BookedCounterpart, Carried
    <3> QED BY <1>2, <3>1, AbsenceAssumption
            DEF BookedCounterpart, Carried, Booked, Reverses, same_order, movement_type,
                ClassificationRule
  <2> QED BY <2>1, <2>2, <2>3 DEF StoredRight
<1>9. /\ batch' \in [Batches -> BatchRow]
      /\ settlement_line' \in [Lines -> SettlementLine \cup {NULL}]
      /\ match_state' \in [Lines -> MatchState \cup {"absent"}]
      /\ match_result' \subseteq ProposedMatch
      /\ matched_events' \in [Lines -> Nat]
      /\ match_result' \subseteq match_result \cup job[s].inserted
  BY <1>1, <1>2 DEF IntakeTypes
<1> QED BY <1>2, <1>5, <1>6, <1>7, <1>8, <1>9, EndWrites

\* What the desk and the world outside do leaves intake as it is.
LEMMA IntakeUntouched ==
  ASSUME IntakeInv, UNCHANGED <<intakeVars, roster>>
  PROVE  IntakeInv' /\ TablesGrow
<1>1. /\ UNCHANGED <<batch, settlement_line, match_state, match_result, exception,
                     matched_events>>
      /\ UNCHANGED <<batch_lock, line_lock, job, roster>>
  BY DEF intakeVars
<1>2. OthersKeepTheirs(NULL) /\ RowsOnlyGrow(NULL)
  BY <1>1 DEF OthersKeepTheirs, RowsOnlyGrow, TablesGrow
<1>3. \A t \in Sessions : HoldsWhatItNeeds(t)' /\ KnowsWhatStands(t)'
  BY <1>2, OthersFit, AbsenceAssumption
<1>4. IntakeTypes' /\ InsertsApart'
  BY <1>1 DEF IntakeInv, IntakeTypes, InsertsApart
<1>5. StoredRight'
  <2>1. Provenance' /\ BatchWhole' /\ OneFate'
    BY <1>1 DEF IntakeInv, StoredRight, Provenance, BatchWhole, OneFate
  <2>2. BookedCounterpart'
    BY <1>1, <1>2, CounterpartsStand DEF IntakeInv
  <2> QED BY <2>1, <2>2 DEF StoredRight
<1> QED BY <1>1, <1>2, <1>3, <1>4, <1>5 DEF IntakeInv, RowsOnlyGrow

LEMMA RosterKnown ==
  ASSUME IntakeInv
  PROVE  roster.deliveries \subseteq Batches /\ roster.scopes \subseteq Scopes
BY RosterAssumption DEF IntakeInv

LEMMA IntakeKept ==
  ASSUME IntakeInv, [Next]_vars
  PROVE  IntakeInv' /\ TablesGrow
<1>1. CASE UNCHANGED vars
  BY <1>1, IntakeUntouched DEF vars
<1>2. ASSUME NEW s \in Sessions, IntakeStep(s)
      PROVE  IntakeInv' /\ TablesGrow
  <2>1. UNCHANGED roster
    BY <1>2 DEF IntakeStep
  <2>2. CASE ingest(s, roster.deliveries)
    <3>1. ASSUME NEW b \in roster.deliveries, record_receipt(s, b) PROVE IntakeInv' /\ TablesGrow
      BY <2>1, <3>1, RosterKnown, RecordReceipt
    <3> QED BY <2>1, <2>2, <3>1, ClaimBatch, Settle DEF ingest
  <2>3. CASE run_matching(s, roster.scopes)
    <3>1. ASSUME NEW scope \in roster.scopes, load_lines(s, scope) PROVE IntakeInv' /\ TablesGrow
      BY <2>1, <3>1, RosterKnown, LoadLines
    <3>2. ASSUME lock_proposed(s) PROVE IntakeInv' /\ TablesGrow
      BY <2>1, <3>2, LockOne DEF lock_proposed
    <3> QED BY <2>1, <2>3, <3>1, <3>2, DecideMatches, DropUnderException, InsertMatch,
               CommitMatches DEF run_matching
  <2>4. CASE run_classification(s, roster.scopes)
    <3>1. ASSUME NEW scope \in roster.scopes, load_residuals(s, scope) PROVE IntakeInv' /\ TablesGrow
      BY <2>1, <3>1, RosterKnown, LoadResiduals
    <3>2. ASSUME pin(s) PROVE IntakeInv' /\ TablesGrow
      BY <2>1, <3>2, LockOne DEF pin
    <3> QED BY <2>1, <2>4, <3>1, <3>2, LoadContext, DecideRules, Persist
            DEF run_classification
  <2> QED BY <1>2, <2>2, <2>3, <2>4 DEF IntakeStep
<1>3. ASSUME NEW s \in Sessions, DeskStep(s)
      PROVE  IntakeInv' /\ TablesGrow
  BY <1>3, IntakeUntouched DEF DeskStep
<1>4. ASSUME NEW s \in Sessions, Lost(s)
      PROVE  IntakeInv' /\ TablesGrow
  BY <1>4, EndQuiet DEF Lost
<1>5. CASE Elsewhere
  BY <1>5, IntakeUntouched DEF Elsewhere
<1> QED BY <1>1, <1>2, <1>3, <1>4, <1>5 DEF Next, AbortVictim, Crash

\* Whatever deliveries, matchers, classifiers, the desk and the crashes do
\* together, every part of the invariant holds.
THEOREM IntakeHolds == Spec => []IntakeInv
<1>1. Init => IntakeInv
  BY InitFits
<1>2. IntakeInv /\ [Next]_vars => IntakeInv'
  BY IntakeKept
<1> QED BY <1>1, <1>2, PTL DEF Spec

\* ingest/service.py: however deliveries overlap and die, a batch is stored whole
\* or not at all, and a quarantine accounts for every defect.
THEOREM BatchesWhole == Spec => []BatchWhole
<1>1. IntakeInv => BatchWhole
  BY DEF IntakeInv, StoredRight
<1> QED BY <1>1, IntakeHolds, PTL

\* matching/service.py and classification/service.py: a line is matched once or
\* under an exception, never both.
THEOREM FatesAreOne == Spec => []OneFate
<1>1. IntakeInv => OneFate
  BY DEF IntakeInv, StoredRight
<1> QED BY <1>1, IntakeHolds, PTL

\* classification/engine.py: what an exception says it reverses, the ledger
\* carries.
THEOREM CounterpartsAreBooked == Spec => []BookedCounterpart
<1>1. IntakeInv => BookedCounterpart
  BY DEF IntakeInv, StoredRight
<1> QED BY <1>1, IntakeHolds, PTL

-------------------------------------------------------------------------------
(* Deadlocks.                                                              *)

\* Whoever waits for a line waits above every line it holds.
LEMMA LinesInOrder ==
  ASSUME IntakeInv, NEW D \in SUBSET Sessions, Deadlocked(D), NEW s \in D
  PROVE  job[s].pc = "insert"
<1> DEFINE Waiting == {u \in D : job[u].pc \in {"lock", "pin"}}
<1>1. ASSUME NEW u \in D
      PROVE  /\ HoldsWhatItNeeds(u) /\ KnowsWhatStands(u) /\ job[u] \in Job
             /\ WaitsFor(u) \cap D # {}
  BY OfThisSession DEF Deadlocked
<1>2. \A u \in D : job[u].pc \in {"lock", "pin", "claim", "insert"}
  BY <1>1 DEF WaitsFor, waits_for_line, waits_for_batch, waits_for_insert
<1>3. \A u \in D : job[u].pc # "claim"
  <2> SUFFICES ASSUME NEW u \in D, job[u].pc = "claim" PROVE FALSE
    OBVIOUS
  <2>1. job[u].batch \in Batches /\ batch_lock[job[u].batch] \in D
    BY <1>1 DEF WaitsFor, waits_for_line, waits_for_batch, waits_for_insert, HoldsWhatItNeeds
  <2>2. job[batch_lock[job[u].batch]].pc = "settle"
    BY <1>1, <2>1 DEF HoldsWhatItNeeds
  <2> QED BY <1>2, <2>1, <2>2
<1>4. ASSUME NEW u \in D, NEW t \in D, t \in WaitsFor(u), job[t].pc # "insert"
      PROVE  /\ u \in Waiting /\ t \in Waiting
             /\ next_wanted(u) \in Pinned(t)
  <2>1. job[u].pc \in {"lock", "pin"}
    <3>1. ASSUME job[u].pc = "insert" PROVE FALSE
      <4>1. t \in InsertBlockedBy(u)
        BY <1>4, <3>1 DEF WaitsFor, waits_for_line, waits_for_batch, waits_for_insert
      <4>2. job[t].inserted # {}
        BY <4>1 DEF InsertBlockedBy
      <4> QED BY <1>1, <1>4, <4>2 DEF KnowsWhatStands
    <3> QED BY <1>2, <1>3, <3>1
  <2>2. t = line_lock[next_wanted(u)]
    BY <1>4, <2>1 DEF WaitsFor, waits_for_line, waits_for_batch, waits_for_insert
  <2>3. next_wanted(u) \in Lines
    <3>1. job[u].want \subseteq Lines /\ job[u].want # {} /\ Lines \subseteq Nat
      BY <1>1, <2>1, IdAssumption DEF Job, HoldsWhatItNeeds
    <3>2. job[u].want \in SUBSET Nat
      BY <3>1
    <3> QED BY <3>1, <3>2, LeastElement DEF next_wanted
  <2> QED BY <1>2, <1>3, <1>4, <2>1, <2>2, <2>3 DEF Pinned
<1>5. Waiting = {}
  <2> SUFFICES ASSUME Waiting # {} PROVE FALSE
    OBVIOUS
  <2> DEFINE N == {next_wanted(u) : u \in Waiting}
  <2>1. \A u \in Waiting : job[u].want \in SUBSET Nat /\ job[u].want # {}
    BY <1>1, IdAssumption DEF Job, HoldsWhatItNeeds
  <2>2. \A u \in Waiting : next_wanted(u) \in job[u].want
    BY <2>1, LeastElement DEF next_wanted
  <2>3. N \in SUBSET Nat /\ N # {}
    BY <2>1, <2>2
  <2>4. PICK u \in Waiting : next_wanted(u) = Min(N) /\ \A y \in N : Min(N) <= y
    BY <2>3, LeastElement
  <2>5. PICK w \in D : u \in WaitsFor(w)
    BY DEF Deadlocked
  <2>6. w \in Waiting /\ next_wanted(w) \in Pinned(u)
    BY <1>4, <2>4, <2>5
  <2>7. next_wanted(w) < next_wanted(u)
    BY <1>1, <2>2, <2>4, <2>6 DEF HoldsWhatItNeeds
  <2>8. next_wanted(w) \in N /\ next_wanted(w) \in Nat /\ next_wanted(u) \in Nat
    BY <2>1, <2>2, <2>4, <2>6
  <2> QED BY <2>4, <2>7, <2>8
<1> QED BY <1>2, <1>3, <1>5

\* matching/service.py:236, classification/service.py:154: ORDER BY id leaves no
\* deadlock on lines, however many matchers and classifiers there are.
THEOREM LineLocksAreOrdered == Spec => []LineLocksOrdered
<1>1. IntakeInv => LineLocksOrdered
  BY LinesInOrder DEF LineLocksOrdered
<1> QED BY <1>1, IntakeHolds, PTL

-------------------------------------------------------------------------------
(* Decisions.                                                              *)

\* matching/engine.py: what the tiers accept is beyond contest.
LEMMA MatchIsBeyond ==
  ASSUME NEW L, NEW E, NEW p \in match(L, E)
  PROVE  Beyond(p, L, E)
<1> DEFINE exact == "exact_amount"
           within == "amount_within_tolerance"
           left == L \ settled_lines(L, E, exact)
           free == E \ settled_entries(L, E, exact)
<1>1. CASE p \in accept_mutually_unique(L, E, exact)
  <2>1. /\ p.line \in L /\ p.entry \in E /\ p.rule = exact
        /\ candidates(p.line, E, exact) = {p.entry} /\ claimants(p.entry, L, exact) = {p.line}
    BY <1>1 DEF accept_mutually_unique
  <2> QED BY <2>1 DEF Beyond, candidates, claimants
<1>2. CASE p \in accept_mutually_unique(left, free, within)
  <2>1. /\ p.line \in left /\ p.entry \in free /\ p.rule = within
        /\ candidates(p.line, free, within) = {p.entry}
        /\ claimants(p.entry, left, within) = {p.line}
    BY <1>2 DEF accept_mutually_unique
  <2>2. /\ \A e \in E : ~eligible(p.line, e, exact)
        /\ \A l \in L : ~eligible(l, p.entry, exact)
    BY <2>1 DEF settled_lines, settled_entries, candidates, claimants
  <2>3. /\ eligible(p.line, p.entry, within)
        /\ \A e \in free : eligible(p.line, e, within) => e = p.entry
        /\ \A l \in left : eligible(l, p.entry, within) => l = p.line
    BY <2>1 DEF candidates, claimants
  <2>4. /\ \A e \in E \ free : \E l \in L : eligible(l, e, exact)
        /\ \A l \in L \ left : \E e \in E : eligible(l, e, exact)
    BY DEF settled_lines, settled_entries, candidates, claimants
  <2> HIDE DEF left, free
  <2>5. /\ \A e \in E : eligible(p.line, e, within)
             => e = p.entry \/ \E l \in L : eligible(l, e, exact)
        /\ \A l \in L : eligible(l, p.entry, within)
             => l = p.line \/ \E e \in E : eligible(l, e, exact)
    BY <2>3, <2>4
  <2> QED BY <2>1, <2>2, <2>3, <2>5 DEF Beyond
<1> QED BY <1>1, <1>2 DEF match

LEMMA OneSessionMoves ==
  ASSUME IntakeInv, NEW s \in Sessions, NEW t \in Sessions, t # s, NEW j, Do(t, j)
  PROVE  job'[s] = job[s]
BY DEF IntakeInv, IntakeTypes, Do

LEMMA DecisionIsSound ==
  ASSUME IntakeInv, [Next]_vars, NEW s \in Sessions,
         job[s].pc = "entries", job'[s].pc = "lock"
  PROVE  /\ decide_matches(s)
         /\ (job[s].proposed)' = match(job[s].read, unconsumed_entries(job[s].read))
<1>1. job \in [Sessions -> Job] /\ job' # job
  BY DEF IntakeInv, IntakeTypes
<1>2. PICK t \in Sessions : IntakeStep(t) \/ Lost(t)
  BY <1>1 DEF Next, vars, intakeVars, DeskStep, Elsewhere, AbortVictim, Crash
<1>3. \E j : Do(t, j)
  BY <1>2 DEF IntakeStep, ingest, record_receipt, claim_batch, settle, run_matching,
       load_lines, decide_matches, lock_proposed, LockLine, drop_under_exception,
       insert_match, commit_matches, run_classification, load_residuals, load_context, pin,
       decide_rules, persist, End, EndAs, Lost
<1>4. t = s
  BY <1>1, <1>3, OneSessionMoves
<1>5. ~End(s) /\ ~Lost(s)
  <2>1. ASSUME End(s) PROVE FALSE
    BY <1>1, <2>1 DEF End, EndAs, Do, Idle
  <2> QED BY <2>1 DEF Lost
<1>6. \/ ingest(s, roster.deliveries) \/ run_matching(s, roster.scopes)
      \/ run_classification(s, roster.scopes)
  BY <1>2, <1>4, <1>5 DEF IntakeStep
<1>7. decide_matches(s)
  BY <1>6 DEF ingest, record_receipt, claim_batch, settle, run_matching, load_lines,
       lock_proposed, drop_under_exception, insert_match, commit_matches,
       run_classification, load_residuals, load_context, pin, decide_rules, persist
<1>8. (job[s].proposed)' = match(job[s].read, unconsumed_entries(job[s].read))
  <2> DEFINE outcome == match(job[s].read, unconsumed_entries(job[s].read))
             want == {p.line : p \in outcome}
  <2>1. \/ Do(s, Idle)
        \/ Do(s, [job[s] EXCEPT !.pc = "lock", !.proposed = outcome, !.want = want])
    BY <1>7 DEF decide_matches
  <2>2. ~Do(s, Idle)
    BY <1>1 DEF Do, Idle
  <2> HIDE DEF outcome, want
  <2>3. job[s] \in Job
    BY <1>1
  <2>4. job'[s] = [job[s] EXCEPT !.pc = "lock", !.proposed = outcome, !.want = want]
    BY <1>1, <2>1, <2>2 DEF Do
  <2> QED BY <2>3, <2>4 DEF Job, outcome
<1> QED BY <1>7, <1>8

\* matching/service.py:119: every pair a run goes on to write was beyond contest
\* on what it had read.
THEOREM DecisionsAreSound == Spec => DecisionSound
<1>1. IntakeInv /\ [Next]_vars =>
        [\A s \in Sessions : job[s].pc = "entries" /\ job'[s].pc = "lock" =>
           \A p \in (job[s].proposed)' :
             Beyond(p, job[s].read, unconsumed_entries(job[s].read))]_vars
  BY DecisionIsSound, MatchIsBeyond
<1> QED BY <1>1, IntakeHolds, PTL DEF Spec, DecisionSound

\* An exception is raised by the session that decided it.
LEMMA RaisedAsDecided ==
  ASSUME IntakeInv, [Next]_vars, NEW s \in Sessions, NEW l \in Lines,
         job[s].pc = "persist", job[s].verdict[l] # NULL,
         exception[l] = NULL, exception'[l] # NULL
  PROVE  exception'[l] = AsRead(s, l)
<1>1. exception' # exception
  OBVIOUS
<1>2. PICK t \in Sessions : IntakeStep(t)
  BY <1>1 DEF Next, vars, intakeVars, DeskStep, Elsewhere, AbortVictim, Crash, Lost, tables
<1>3. persist(t)
  BY <1>1, <1>2 DEF IntakeStep, ingest, record_receipt, claim_batch, settle, run_matching,
       load_lines, decide_matches, lock_proposed, LockLine, drop_under_exception,
       insert_match, commit_matches, run_classification, load_residuals, load_context, pin,
       decide_rules, tables
<1>4. /\ HoldsWhatItNeeds(t) /\ KnowsWhatStands(t) /\ HoldsWhatItNeeds(s) /\ KnowsWhatStands(s)
  BY OfThisSession
<1>5. /\ job[t].pc = "persist" /\ l \in raised(t)
      /\ exception'[l] = job[t].verdict[l]
  BY <1>3 DEF persist
<1>6. l \in Pinned(t) /\ l \in Pinned(s)
  BY <1>4, <1>5 DEF raised, HoldsWhatItNeeds, KnowsWhatStands
<1>7. t = s
  BY <1>6 DEF Pinned
<1> QED BY <1>4, <1>5, <1>7 DEF KnowsWhatStands

\* classification/service.py:127: an exception commits only while the rows it was
\* decided from still say so.
THEOREM ClassificationsStand == Spec => ClassifiedOnWhatStands
<1>1. IntakeInv /\ [Next]_vars =>
        [\A s \in Sessions, l \in Lines :
           /\ job[s].pc = "persist" /\ job[s].verdict[l] # NULL
           /\ exception[l] = NULL /\ exception'[l] # NULL
           => exception'[l] = rule_for(l, context_of({l}) \cap job[s].read, Booked)]_vars
  BY RaisedAsDecided DEF AsRead, Seen
<1> QED BY <1>1, IntakeHolds, PTL DEF Spec, ClassifiedOnWhatStands

===============================================================================
