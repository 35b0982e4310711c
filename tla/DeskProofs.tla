-------------------------------- MODULE DeskProofs --------------------------------
(***************************************************************************)
(* Claims, proposals and recorded operations, on top of what intake keeps: *)
(* the invariant DeskInv, that every step keeps it, and what it shows.     *)
(***************************************************************************)
EXTENDS IntakeProofs

-------------------------------------------------------------------------------
(* Counting a trail.                                                       *)

Kept(q, b) == {i \in DOMAIN q : q[i].abstained = b}

\* One more proposal is one more of its own kind.
LEMMA OneMoreKept ==
  ASSUME NEW seq \in Seq(Proposal), NEW row \in Proposal, NEW b \in BOOLEAN
  PROVE  /\ Cardinality(Kept(seq, b)) \in Nat
         /\ Cardinality(Kept(Append(seq, row), b))
              = Cardinality(Kept(seq, b)) + (IF row.abstained = b THEN 1 ELSE 0)
<1> DEFINE kept(q) == {i \in DOMAIN q : q[i].abstained = b}
           more == Append(seq, row)
           n == Len(seq) + 1
<1>1. /\ DOMAIN seq = 1 .. Len(seq) /\ Len(seq) \in Nat /\ n \notin DOMAIN seq
      /\ DOMAIN more = DOMAIN seq \cup {n} /\ more[n] = row
      /\ \A i \in DOMAIN seq : more[i] = seq[i]
  OBVIOUS
<1>2. IsFiniteSet(kept(seq))
  <2>1. IsFiniteSet(1 .. Len(seq))
    BY <1>1, FS_Interval
  <2> QED BY <1>1, <2>1, FS_Subset
<1>3. Cardinality(kept(seq)) \in Nat
  BY <1>2, FS_CardinalityType
<1> HIDE DEF more, n
<1>4. ASSUME row.abstained = b
      PROVE  Cardinality(kept(more)) = Cardinality(kept(seq)) + 1
  <2>1. kept(more) = kept(seq) \cup {n} /\ n \notin kept(seq)
    BY <1>1, <1>4
  <2> HIDE DEF kept
  <2> QED BY <1>2, <2>1, FS_AddElement
<1>5. ASSUME row.abstained # b
      PROVE  kept(more) = kept(seq)
  BY <1>1, <1>5
<1>6. Cardinality(kept(more)) = Cardinality(kept(seq)) + (IF row.abstained = b THEN 1 ELSE 0)
  <2> HIDE DEF kept
  <2> QED BY <1>3, <1>4, <1>5
<1> QED BY <1>3, <1>6 DEF more, Kept

\* The trail, one exception at a time.
TrailOf(l, q, events, stored) ==
    /\ events["success"] = Cardinality(Kept(q, FALSE))
    /\ events["abstained"] = Cardinality(Kept(q, TRUE))
    /\ \A i \in DOMAIN q : q[i].cites \subseteq stored \cap ({l} \X Source)
LEMMA TrailMeans ==
  ProposalTrail <=> \A l \in Lines : TrailOf(l, proposal[l], proposal_events[l], evidence)
BY DEF ProposalTrail, TrailOf, Kept

-------------------------------------------------------------------------------
(* What a price rests on.                                                  *)

\* What is stored of a line is what a money column admits.
LEMMA StoredIsClean ==
  ASSUME IntakeTypes, StoredRight, NEW l \in Stored
  PROVE  /\ settlement_line[l].amount \in Int /\ settlement_line[l].currency \in Currencies
         /\ settlement_line[l].value_date \in Nat
<1>1. PICK b \in Batches : \E n \in Rows(b) :
        l = LineId[b][n] /\ batch[b].status = "parsed" /\ defects_of(Payload[b]) = {}
  BY DEF StoredRight, Provenance, Stored
<1>2. PICK n \in Rows(b) :
        l = LineId[b][n] /\ batch[b].status = "parsed" /\ defects_of(Payload[b]) = {}
  BY <1>1
<1>3. settlement_line[l] = line_of(b, n) /\ storable(settlement_line[l])
  BY <1>2 DEF StoredRight, BatchWhole
<1> QED BY <1>2, <1>3, CleanRowIsStorable DEF storable

BookedPeriods == {accounting_period(settlement_line[m].value_date) : m \in Booked}

\* i is the price of exception l that some configuration gave, and an accrual it
\* posts is booked where the counterpart was.
PriceOf(i, l) ==
    \E v \in Versions, period \in {NULL} \cup BookedPeriods :
      /\ priceable(facts_of(l, period), i.treatment, v)
      /\ i = instruction_for(facts_of(l, period), i.treatment, v)
Priced(i, l) ==
    /\ i \in Instruction
    /\ PriceOf(i, l)
    /\ i.treatment = "accrue" /\ exception[l] = "refund_of_booked_capture_across_periods"
         => i.period # accounting_period(settlement_line[l].value_date)

\* The counterpart originating_period found is the one the exception names.
LEMMA OriginIsCounterpart ==
  ASSUME IntakeTypes, StoredRight, NEW l \in Lines, exception[l] # NULL
  PROVE  /\ originating_period(l) \in {NULL} \cup BookedPeriods
         /\ \/ exception[l] # "refund_of_booked_capture_across_periods"
            \/ originating_period(l) = NULL
            \/ originating_period(l) # accounting_period(settlement_line[l].value_date)
<1> DEFINE offsets == booked_offsets(l, Booked, Booked)
<1>1. CASE Cardinality(offsets) # 1
  BY <1>1 DEF originating_period
<1>2. CASE Cardinality(offsets) = 1
  <2>1. PICK m : offsets = {m}
    <3>1. offsets \subseteq Lines
      BY DEF booked_offsets, Booked
    <3>2. IsFiniteSet(offsets)
      BY <3>1, IdAssumption, FS_Subset
    <3> HIDE DEF offsets
    <3> QED BY <1>2, <3>2, FS_Singleton
  <2>2. m \in Booked /\ (CHOOSE x \in offsets : TRUE) = m
    BY <2>1 DEF booked_offsets
  <2>3. originating_period(l) = accounting_period(settlement_line[m].value_date)
    BY <1>2, <2>2 DEF originating_period
  <2>4. ASSUME exception[l] = "refund_of_booked_capture_across_periods"
        PROVE  originating_period(l) # accounting_period(settlement_line[l].value_date)
    <3>1. PICK k \in Booked : /\ Reverses(l, k, "capture")
                              /\ accounting_period(settlement_line[k].value_date)
                                  # accounting_period(settlement_line[l].value_date)
      BY <2>4 DEF StoredRight, BookedCounterpart
    <3>2. k # l
      BY DEF StoredRight, OneFate, Booked
    <3>3. k \in offsets
      BY <3>1, <3>2 DEF booked_offsets, related, Reverses
    <3> QED BY <2>1, <2>3, <3>1, <3>3
  <2> QED BY <2>2, <2>3, <2>4 DEF BookedPeriods
<1> QED BY <1>1, <1>2

LEMMA RaisedAreStored ==
  ASSUME IntakeTypes, StoredRight, NEW l \in Lines, exception[l] # NULL
  PROVE  l \in Stored /\ exception[l] \in ClassificationRule
BY DEF IntakeTypes, ExceptionRecord, StoredRight, OneFate, Stored

\* money/calculator.py: what compute_adjustment returns can be posted.
LEMMA PricedIsPosted ==
  ASSUME IntakeTypes, StoredRight, NEW l \in Lines, exception[l] # NULL,
         NEW t \in Treatment, NEW v \in Versions, NEW period,
         period \in {NULL, originating_period(l)},
         priceable(facts_of(l, period), t, v)
  PROVE  /\ Priced(instruction_for(facts_of(l, period), t, v), l)
         /\ instruction_for(facts_of(l, period), t, v).exception_id = l
<1> DEFINE facts == facts_of(l, period)
           i == instruction_for(facts, t, v)
<1>1. \A reason \in NonCalculable : ~blocks(reason, facts, t, v)
  BY DEF priceable
<1>2. facts.classification \in Class
  <2>1. exception[l] \in ClassificationRule
    BY RaisedAreStored
  <2> QED BY <2>1 DEF facts_of, classification, Class, ClassificationRule
<1>3. account_for(facts, t, v) \in Accounts
  <2>1. account_for(facts, t, v) # NULL
    BY <1>1 DEF NonCalculable, blocks
  <2>2. Context[v].accounts[facts.classification, t] \in Accounts \cup {NULL}
    BY <1>2, ContextAssumption DEF LedgerContext
  <2> QED BY <2>1, <2>2 DEF account_for
<1>4. period_for(facts, t) \in Nat
  BY <1>1 DEF NonCalculable, blocks, is_period
<1>5. facts.amount \in Int /\ facts.currency \in Currencies /\ facts.exception_id = l
  BY StoredIsClean, RaisedAreStored DEF facts_of
<1>6. /\ i.exception_id = l /\ i.treatment = t /\ i.period = period_for(facts, t)
      /\ i \in Instruction
  <2> HIDE DEF facts
  <2> QED BY <1>3, <1>4, <1>5 DEF instruction_for, Instruction
<1>7. PriceOf(i, l)
  <2>1. period \in {NULL} \cup BookedPeriods
    BY OriginIsCounterpart
  <2> QED BY <1>6, <2>1 DEF PriceOf
<1>8. ASSUME t = "accrue", exception[l] = "refund_of_booked_capture_across_periods"
      PROVE  i.period # accounting_period(settlement_line[l].value_date)
  <2>1. i.period = period
    BY <1>6, <1>8 DEF period_for, facts_of
  <2>2. period # NULL
    BY <1>4, <1>6, <2>1, NullAssumption
  <2> QED BY <1>8, <2>1, <2>2, OriginIsCounterpart
<1> HIDE DEF i
<1> QED BY <1>6, <1>7, <1>8 DEF Priced, i

\* A price stands while intake goes on.
LEMMA PriceStands ==
  ASSUME IntakeTypes, StoredRight, TablesGrow, NEW l \in Lines, exception[l] # NULL,
         NEW i, Priced(i, l)
  PROVE  Priced(i, l)' /\ exception'[l] = exception[l]
<1>1. exception'[l] = exception[l] /\ settlement_line'[l] = settlement_line[l]
  BY RaisedAreStored DEF TablesGrow
<1>2. BookedPeriods \subseteq BookedPeriods'
  <2>1. \A m \in Booked : m \in Booked' /\ settlement_line'[m] = settlement_line[m]
    BY DEF TablesGrow, Booked, Stored, StoredRight, OneFate
  <2> QED BY <2>1 DEF BookedPeriods
<1>3. \A period : facts_of(l, period)' = facts_of(l, period)
  BY <1>1 DEF facts_of
<1>4. PriceOf(i, l)'
  BY <1>2, <1>3 DEF Priced, PriceOf
<1> QED BY <1>1, <1>4 DEF Priced

-------------------------------------------------------------------------------
(* The inductive invariant of the desk.                                    *)

DeskTypes ==
    /\ evidence \subseteq EvidenceId
    /\ proposal \in [Lines -> Seq(Proposal)]
    /\ proposal_events \in [Lines -> [Outcome -> Nat]]
    /\ exception_lock \in [Lines -> Sessions \cup {NULL}]
    /\ approval \in [Lines -> Treatment \cup {NULL}]
    /\ approval_lock \in [Lines -> Sessions \cup {NULL}]
    /\ adjustment \subseteq Adjustment
    /\ outbox \subseteq Lines
    /\ compute_events \in [Lines -> Nat]
    /\ ledger_ctx \in Versions
    /\ desk \in [Sessions -> Desk]

\* The row that records this instruction.
Records(row, i) ==
    /\ row.identity = derive_identity(i, row.approval, FIRST_RESOLUTION)
    /\ row.treatment = i.treatment
    /\ row.account_code = i.account_code /\ row.period = i.period

Proposers == {"persist_evidence", "ask", "record_answer"}
Enqueuers == {"priced", "look", "insert", "answered"}
AtTheDesk(s) ==
    LET d == desk[s]
    IN  /\ d.pc # "refused"
        /\ d.claimed # {} => d.pc = "claimed"
        /\ \A l \in d.claimed : exception_lock[l] = s
        /\ d.pc \in Proposers => d.line \in Lines /\ d.pack \subseteq {d.line} \X Source
        /\ d.pc \in {"ask", "record_answer"} => d.pack \subseteq evidence
        /\ d.pc = "record_answer" => d.answer \in Answers
        /\ d.pc \in Enqueuers =>
             /\ d.line \in Lines /\ exception[d.line] # NULL
             /\ d.instruction.exception_id = d.line /\ Priced(d.instruction, d.line)
        /\ d.pc \in {"look", "insert"} =>
             /\ d.approval \in Lines /\ approval_lock[d.approval] = s
             /\ approval[d.approval] # NULL
        /\ d.pc = "insert" =>
             authorised(d.instruction, d.approval) /\ recorded(d.approval) = {}
        /\ d.pc = "answered" =>
             \E row \in adjustment : row.approval = d.approval /\ Records(row, d.instruction)

\* A recorded operation is a price of its exception, for the approved treatment.
RowsRight ==
    \A row \in adjustment :
      /\ row.approval \in Lines /\ exception[row.approval] # NULL
      /\ approval[row.approval] = row.treatment
      /\ \E i \in Instruction : Priced(i, row.approval) /\ Records(row, i)

\* One adjustment per approval, and its outbox row and its event with it.
BooksRight ==
    /\ \A r, q \in adjustment : r.approval = q.approval => r = q
    /\ outbox = {row.approval : row \in adjustment}
    /\ \A l \in Lines : compute_events[l] = IF l \in outbox THEN 1 ELSE 0

DeskInv ==
    /\ DeskTypes
    /\ \A s \in Sessions : AtTheDesk(s)
    /\ RowsRight /\ BooksRight /\ ProposalTrail

-------------------------------------------------------------------------------
(* A step of one session, seen by the others.                              *)

OthersAttend(s) ==
    \A t \in Sessions \ {s} :
      /\ desk'[t] = desk[t]
      /\ \A l \in Lines : /\ exception_lock'[l] = t <=> exception_lock[l] = t
                          /\ approval_lock'[l] = t <=> approval_lock[l] = t
DeskGrows(s) ==
    /\ evidence \subseteq evidence' /\ adjustment \subseteq adjustment'
    /\ \A row \in adjustment' \ adjustment : row.approval \in Lines => approval_lock[row.approval] = s
    /\ \A l \in Lines : approval[l] # NULL => approval'[l] = approval[l]

LEMMA OthersAtDesk ==
  ASSUME IntakeInv, DeskInv, TablesGrow, NEW s, OthersAttend(s), DeskGrows(s),
         NEW t \in Sessions \ {s}
  PROVE  AtTheDesk(t)'
<1> DEFINE d == desk[t]
<1>1. /\ IntakeTypes /\ StoredRight /\ AtTheDesk(t) /\ desk'[t] = d /\ d \in Desk
      /\ \A l \in Lines : /\ exception_lock'[l] = t <=> exception_lock[l] = t
                          /\ approval_lock'[l] = t <=> approval_lock[l] = t
  BY DEF IntakeInv, DeskInv, DeskTypes, OthersAttend
<1>2. /\ d.pc # "refused" /\ d.claimed # {} => d.pc = "claimed"
      /\ \A l \in d.claimed : exception_lock'[l] = t
      /\ d.pc \in Proposers => d.line \in Lines /\ d.pack \subseteq {d.line} \X Source
      /\ d.pc \in {"ask", "record_answer"} => d.pack \subseteq evidence'
      /\ d.pc = "record_answer" => d.answer \in Answers
  BY <1>1 DEF AtTheDesk, DeskGrows, Desk
<1>3. ASSUME d.pc \in Enqueuers
      PROVE  /\ d.line \in Lines /\ exception'[d.line] # NULL
             /\ d.instruction.exception_id = d.line /\ Priced(desk[t].instruction, desk[t].line)'
  <2>1. /\ d.line \in Lines /\ exception[d.line] # NULL
        /\ d.instruction.exception_id = d.line /\ Priced(d.instruction, d.line)
    BY <1>1, <1>3 DEF AtTheDesk
  <2>2. PICK i : i = d.instruction
    OBVIOUS
  <2>3. PICK l \in Lines : l = d.line
    BY <2>1
  <2>4. Priced(i, l)' /\ exception'[l] = exception[l]
    BY <1>1, <2>1, <2>2, <2>3, PriceStands
  <2>5. (desk[t].instruction)' = i /\ (desk[t].line)' = l
    BY <1>1, <2>2, <2>3
  <2>6. Priced(desk[t].instruction, desk[t].line)'
    BY <2>4, <2>5 DEF Priced, PriceOf
  <2> QED BY <2>1, <2>2, <2>3, <2>4, <2>6
<1>4. ASSUME d.pc \in {"look", "insert"}
      PROVE  /\ d.approval \in Lines /\ approval_lock'[d.approval] = t
             /\ approval'[d.approval] # NULL /\ approval'[d.approval] = approval[d.approval]
             /\ \A row \in adjustment' : row.approval = d.approval => row \in adjustment
  BY <1>1, <1>4 DEF AtTheDesk, DeskGrows
<1>5. ASSUME d.pc = "insert"
      PROVE  authorised(desk[t].instruction, desk[t].approval)'
               /\ recorded(desk[t].approval)' = {}
  <2>1. authorised(d.instruction, d.approval) /\ recorded(d.approval) = {}
    BY <1>1, <1>5 DEF AtTheDesk
  <2>2. authorised(desk[t].instruction, desk[t].approval)'
    BY <1>1, <1>4, <1>5, <2>1 DEF authorised
  <2>3. recorded(desk[t].approval)' = {}
    BY <1>1, <1>4, <1>5, <2>1 DEF recorded
  <2> QED BY <2>2, <2>3
<1>6. ASSUME d.pc = "answered"
      PROVE  \E row \in adjustment' : row.approval = d.approval /\ Records(row, d.instruction)
  BY <1>1, <1>6 DEF AtTheDesk, DeskGrows
<1> QED BY <1>1, <1>2, <1>3, <1>4, <1>5, <1>6 DEF AtTheDesk

\* What is recorded stands.
LEMMA RowsStand ==
  ASSUME IntakeInv, DeskInv, TablesGrow, NEW row \in adjustment,
         \A l \in Lines : approval[l] # NULL => approval'[l] = approval[l]
  PROVE  /\ row.approval \in Lines /\ exception'[row.approval] # NULL
         /\ approval'[row.approval] = row.treatment
         /\ \E i \in Instruction : Priced(i, row.approval)' /\ Records(row, i)
<1>1. /\ IntakeTypes /\ StoredRight
      /\ row.approval \in Lines /\ exception[row.approval] # NULL
      /\ approval[row.approval] = row.treatment /\ row.treatment \in Treatment
  BY DEF IntakeInv, DeskInv, DeskTypes, RowsRight, Adjustment
<1>2. PICK i \in Instruction : Priced(i, row.approval) /\ Records(row, i)
  BY DEF DeskInv, RowsRight
<1>3. Priced(i, row.approval)' /\ exception'[row.approval] = exception[row.approval]
  BY <1>1, <1>2, PriceStands
<1>4. approval[row.approval] # NULL
  BY <1>1, ContextAssumption
<1> QED BY <1>1, <1>2, <1>3, <1>4

LEMMA DeskStands ==
  ASSUME IntakeInv, DeskInv, TablesGrow, NEW s, OthersAttend(s), UNCHANGED deskTables,
         exception_lock' \in [Lines -> Sessions \cup {NULL}],
         approval_lock' \in [Lines -> Sessions \cup {NULL}],
         ledger_ctx' \in Versions, desk' \in [Sessions -> Desk],
         s \in Sessions => AtTheDesk(s)'
  PROVE  DeskInv'
<1>1. UNCHANGED <<evidence, proposal, proposal_events, approval, adjustment, outbox,
                  compute_events>>
  BY DEF deskTables
<1>2. DeskGrows(s)
  BY <1>1 DEF DeskGrows
<1>3. \A t \in Sessions : AtTheDesk(t)'
  BY <1>2, OthersAtDesk
<1>4. DeskTypes'
  BY <1>1 DEF DeskInv, DeskTypes
<1>5. RowsRight'
  <2>1. \A row \in adjustment :
          /\ row.approval \in Lines /\ exception'[row.approval] # NULL
          /\ approval'[row.approval] = row.treatment
          /\ \E i \in Instruction : Priced(i, row.approval)' /\ Records(row, i)
    BY <1>2, RowsStand DEF DeskGrows
  <2> QED BY <1>1, <2>1 DEF RowsRight
<1>6. BooksRight' /\ ProposalTrail'
  BY <1>1 DEF DeskInv, BooksRight, ProposalTrail
<1> QED BY <1>3, <1>4, <1>5, <1>6 DEF DeskInv
-------------------------------------------------------------------------------
(* What a session at the desk does to the tables of locks.                 *)

LEMMA RestIsADesk == AtRest \in Desk
BY DEF AtRest, Desk, DeskStage

LEMMA AttendsOnly ==
  ASSUME DeskTypes, NEW s \in Sessions, NEW d \in Desk, Attend(s, d)
  PROVE  /\ desk' \in [Sessions -> Desk] /\ desk'[s] = d
         /\ \A t \in Sessions \ {s} : desk'[t] = desk[t]
BY DEF Attend, DeskTypes

LEMMA AttendsAlone ==
  ASSUME DeskTypes, NEW s \in Sessions, NEW d \in Desk, Attend(s, d),
         UNCHANGED <<exception_lock, approval_lock>>
  PROVE  OthersAttend(s)
BY AttendsOnly DEF OthersAttend

LEMMA LeavesOwn ==
  ASSUME DeskTypes, NEW s \in Sessions, NEW d \in Desk, Leave(s, d)
  PROVE  /\ OthersAttend(s) /\ desk' \in [Sessions -> Desk] /\ desk'[s] = d
         /\ exception_lock' \in [Lines -> Sessions \cup {NULL}]
         /\ approval_lock' \in [Lines -> Sessions \cup {NULL}]
<1>1. Attend(s, d) /\ LetGo(s)
  BY DEF Leave
<1>2. /\ exception_lock' \in [Lines -> Sessions \cup {NULL}]
      /\ approval_lock' \in [Lines -> Sessions \cup {NULL}]
  BY <1>1 DEF LetGo, DeskTypes
<1>3. ASSUME NEW t \in Sessions \ {s}, NEW l \in Lines
      PROVE  /\ exception_lock'[l] = t <=> exception_lock[l] = t
             /\ approval_lock'[l] = t <=> approval_lock[l] = t
  BY <1>1, AbsenceAssumption DEF LetGo, DeskTypes
<1> QED BY <1>1, <1>2, <1>3, AttendsOnly DEF OthersAttend

LEMMA RestFits ==
  ASSUME NEW s, desk'[s] = AtRest
  PROVE  AtTheDesk(s)'
BY DEF AtTheDesk, AtRest, Proposers, Enqueuers

LEMMA DeskStarts ==
  ASSUME InitDesk
  PROVE  DeskInv
<1>1. DeskTypes
  <2>1. ledger_ctx \in Versions
    BY ContextAssumption DEF InitDesk
  <2>2. \A l \in Lines : proposal[l] \in Seq(Proposal)
    BY DEF InitDesk
  <2>3. proposal \in [Lines -> Seq(Proposal)]
    BY <2>2 DEF InitDesk
  <2> QED BY <2>1, <2>3, RestIsADesk DEF InitDesk, DeskTypes
<1>2. \A s \in Sessions : AtTheDesk(s)
  BY DEF InitDesk, AtTheDesk, AtRest, Proposers, Enqueuers
<1>3. RowsRight /\ BooksRight
  BY DEF InitDesk, RowsRight, BooksRight
<1>4. ProposalTrail
  <2>1. ASSUME NEW l \in Lines, NEW b
        PROVE  Cardinality({i \in DOMAIN proposal[l] : proposal[l][i].abstained = b}) = 0
    <3>1. {i \in DOMAIN proposal[l] : proposal[l][i].abstained = b} = {}
      BY DEF InitDesk
    <3> QED BY <3>1, FS_EmptySet
  <2>2. \A l \in Lines : proposal_events[l]["success"] = 0 /\ proposal_events[l]["abstained"] = 0
    BY DEF InitDesk, Outcome
  <2>3. \A l \in Lines : DOMAIN proposal[l] = {}
    BY DEF InitDesk
  <2> QED BY <2>1, <2>2, <2>3 DEF ProposalTrail
<1> QED BY <1>1, <1>2, <1>3, <1>4 DEF DeskInv
-------------------------------------------------------------------------------
(* claim_residuals and propose_for_exception.                              *)

LEMMA Claims ==
  ASSUME IntakeInv, DeskInv, TablesGrow, NEW s \in Sessions,
         NEW limit \in {1, 2}, claim_residuals(s, limit)
  PROVE  DeskInv'
<1>1. PICK S \in claimable(limit) :
        /\ exception_lock' = [l \in Lines |-> IF l \in S THEN s ELSE exception_lock[l]]
        /\ Attend(s, [AtRest EXCEPT !.pc = "claimed", !.claimed = S, !.requested = limit])
  BY DEF claim_residuals
<1> DEFINE d == [AtRest EXCEPT !.pc = "claimed", !.claimed = S, !.requested = limit]
<1>2. S \subseteq Lines /\ \A l \in S : exception_lock[l] = NULL
  BY DEF claimable, Unlocked, Raised
<1>3. d \in Desk
  <2>1. limit \in Nat /\ "claimed" \in DeskStage /\ S \in SUBSET Lines
    BY <1>2 DEF DeskStage
  <2> HIDE <1>1
  <2> QED BY <2>1 DEF AtRest, Desk
<1>4. /\ desk' \in [Sessions -> Desk] /\ desk'[s] = d
      /\ \A t \in Sessions \ {s} : desk'[t] = desk[t]
  BY <1>1, <1>3, AttendsOnly DEF DeskInv
<1>5. /\ UNCHANGED <<deskTables, approval_lock, ledger_ctx>>
      /\ exception_lock' \in [Lines -> Sessions \cup {NULL}]
  BY <1>1 DEF claim_residuals, DeskInv, DeskTypes
<1>6. OthersAttend(s)
  BY <1>1, <1>2, <1>4, <1>5, AbsenceAssumption DEF OthersAttend
<1>7. AtTheDesk(s)'
  <2>1. /\ desk'[s].pc = "claimed" /\ desk'[s].claimed = S
    BY <1>4 DEF AtRest
  <2> QED BY <1>1, <1>2, <2>1 DEF AtTheDesk, Proposers, Enqueuers
<1> QED BY <1>4, <1>5, <1>6, <1>7, DeskStands DEF DeskInv, DeskTypes

\* A step that takes a session to a desk it may stand at, and writes nothing.
LEMMA Reads ==
  ASSUME IntakeInv, DeskInv, TablesGrow, NEW s \in Sessions, NEW d \in Desk, Attend(s, d),
         UNCHANGED <<deskTables, exception_lock, approval_lock, ledger_ctx>>,
         AtTheDesk(s)'
  PROVE  DeskInv'
BY AttendsOnly, AttendsAlone, DeskStands DEF DeskInv, DeskTypes

LEMMA ReleasesClaim ==
  ASSUME IntakeInv, DeskInv, TablesGrow, NEW s \in Sessions,
         Leave(s, AtRest), UNCHANGED <<deskTables, ledger_ctx>>
  PROVE  DeskInv'
<1>1. /\ OthersAttend(s) /\ desk' \in [Sessions -> Desk] /\ desk'[s] = AtRest
      /\ exception_lock' \in [Lines -> Sessions \cup {NULL}]
      /\ approval_lock' \in [Lines -> Sessions \cup {NULL}]
  BY LeavesOwn, RestIsADesk DEF DeskInv
<1> QED BY <1>1, RestFits, DeskStands DEF DeskInv, DeskTypes

LEMMA LoadsSubject ==
  ASSUME IntakeInv, DeskInv, TablesGrow, NEW s \in Sessions,
         NEW l \in Raised, load_subject(s, l)
  PROVE  DeskInv'
<1> DEFINE pack == assemble_evidence(l, unconsumed_entries({l}))
           d == [AtRest EXCEPT !.pc = "persist_evidence", !.line = l, !.pack = pack]
<1>1. l \in Lines /\ pack \subseteq {l} \X Source
  <2>1. unconsumed_entries({l}) \subseteq Entries
    BY DEF unconsumed_entries
  <2>2. \A x \in pack : x = <<l, "remittance">> \/ \E e \in Entries : x = <<l, e>>
    BY <2>1 DEF assemble_evidence
  <2>3. \A x \in pack : \E e \in Source : x = <<l, e>>
    BY <2>2 DEF Source
  <2> HIDE DEF pack
  <2> QED BY <2>3 DEF Raised
<1>2. Attend(s, d) /\ UNCHANGED <<deskTables, exception_lock, approval_lock, ledger_ctx>>
  BY DEF load_subject
<1> HIDE DEF pack
<1>3. d \in Desk
  BY <1>1 DEF AtRest, Desk, DeskStage, EvidenceId
<1>4. desk'[s] = d
  BY <1>2, <1>3, AttendsOnly DEF DeskInv
<1>5. AtTheDesk(s)'
  BY <1>1, <1>4 DEF AtTheDesk, AtRest, Proposers, Enqueuers
<1> QED BY <1>2, <1>3, <1>5, Reads

LEMMA PersistsEvidence ==
  ASSUME IntakeInv, DeskInv, TablesGrow, NEW s \in Sessions, persist_evidence(s)
  PROVE  DeskInv'
<1> DEFINE d == [desk[s] EXCEPT !.pc = "ask"]
<1>1. /\ evidence' = evidence \cup desk[s].pack /\ Attend(s, d) /\ desk[s].pc = "persist_evidence"
      /\ UNCHANGED <<proposal, proposal_events, approval, adjustment, outbox, compute_events,
                     exception_lock, approval_lock, ledger_ctx>>
  BY DEF persist_evidence
<1>2. /\ desk[s] \in Desk /\ d \in Desk
      /\ AtTheDesk(s) /\ DeskTypes /\ RowsRight /\ BooksRight /\ ProposalTrail
  BY DEF DeskInv, DeskTypes, Desk, DeskStage
<1>3. desk' \in [Sessions -> Desk] /\ desk'[s] = d
  BY <1>1, <1>2, AttendsOnly
<1>4. desk[s].line \in Lines /\ desk[s].pack \subseteq {desk[s].line} \X Source
        /\ desk[s].claimed = {}
  BY <1>1, <1>2 DEF AtTheDesk, Proposers
<1>5. AtTheDesk(s)'
  <2>1. /\ desk'[s].pc = "ask" /\ desk'[s].line = desk[s].line /\ desk'[s].pack = desk[s].pack
        /\ desk'[s].claimed = desk[s].claimed
    BY <1>2, <1>3 DEF Desk
  <2> QED BY <1>1, <1>4, <2>1 DEF AtTheDesk, Proposers, Enqueuers
<1>6. OthersAttend(s) /\ DeskGrows(s)
  BY <1>1, <1>2, AttendsAlone DEF DeskGrows
<1>7. \A t \in Sessions : AtTheDesk(t)'
  BY <1>5, <1>6, OthersAtDesk
<1>8. DeskTypes'
  <2>1. evidence' \subseteq EvidenceId
    BY <1>1, <1>2, <1>4 DEF DeskTypes, EvidenceId
  <2> QED BY <1>1, <1>2, <1>3, <2>1 DEF DeskTypes
<1>9. RowsRight'
  <2>1. \A row \in adjustment :
          /\ row.approval \in Lines /\ exception'[row.approval] # NULL
          /\ approval'[row.approval] = row.treatment
          /\ \E i \in Instruction : Priced(i, row.approval)' /\ Records(row, i)
    BY <1>6, RowsStand DEF DeskGrows
  <2> QED BY <1>1, <2>1 DEF RowsRight
<1>10. BooksRight' /\ ProposalTrail'
  BY <1>1, <1>2 DEF BooksRight, ProposalTrail
<1> QED BY <1>7, <1>8, <1>9, <1>10 DEF DeskInv

LEMMA Asks ==
  ASSUME IntakeInv, DeskInv, TablesGrow, NEW s \in Sessions, NEW a \in Answers, ask(s, a)
  PROVE  DeskInv'
<1> DEFINE d == [desk[s] EXCEPT !.pc = "record_answer", !.answer = a]
<1>1. /\ Attend(s, d) /\ desk[s].pc = "ask"
      /\ UNCHANGED <<deskTables, exception_lock, approval_lock, ledger_ctx>>
  BY DEF ask
<1>2. desk[s] \in Desk /\ d \in Desk /\ AtTheDesk(s) /\ evidence' = evidence
  BY <1>1 DEF DeskInv, DeskTypes, Desk, DeskStage, deskTables
<1>3. desk'[s] = d
  BY <1>1, <1>2, AttendsOnly DEF DeskInv
<1>4. AtTheDesk(s)'
  <2>1. /\ desk'[s].pc = "record_answer" /\ desk'[s].line = desk[s].line
        /\ desk'[s].pack = desk[s].pack /\ desk'[s].claimed = desk[s].claimed
        /\ desk'[s].answer = a
    BY <1>2, <1>3 DEF Desk
  <2> QED BY <1>1, <1>2, <2>1 DEF AtTheDesk, Proposers, Enqueuers
<1> QED BY <1>1, <1>2, <1>4, Reads

\* What is quarantined is what the schema would refuse.
LEMMA UsableIsAdmitted ==
  ASSUME NEW l, NEW pack, pack \subseteq evidence, NEW a,
         audit_outcome(l, pack, a) \in {"success", "abstained"}
  PROVE  /\ ~citation_refused(l, a) /\ cited(l, a) \subseteq pack
         /\ a.abstained => a.treatment = "escalate"
         /\ (audit_outcome(l, pack, a) = "abstained") <=> a.abstained
<1>1. /\ a.kind # "unavailable" /\ a.kind # "malformed"
      /\ ~(a.abstained /\ a.treatment # "escalate") /\ citations_were_supplied(l, pack, a)
  BY DEF audit_outcome
<1>2. audit_outcome(l, pack, a) = IF a.abstained THEN "abstained" ELSE "success"
  BY <1>1 DEF audit_outcome
<1> QED BY <1>1, <1>2 DEF citation_refused, citations_were_supplied
LEMMA RecordsAnswer ==
  ASSUME IntakeInv, DeskInv, TablesGrow, NEW s \in Sessions, record_answer(s)
  PROVE  DeskInv'
<1> DEFINE l == desk[s].line
           a == desk[s].answer
           outcome == audit_outcome(l, desk[s].pack, a)
           usable == outcome \in {"success", "abstained"}
           row == [treatment |-> a.treatment, abstained |-> a.abstained, cites |-> cited(l, a)]
<1>1. /\ DeskTypes /\ AtTheDesk(s) /\ RowsRight /\ BooksRight /\ ProposalTrail
      /\ desk[s].pc = "record_answer"
      /\ UNCHANGED <<evidence, approval, adjustment, outbox, compute_events,
                     exception_lock, approval_lock, ledger_ctx>>
  BY DEF record_answer, DeskInv
<1>2. /\ l \in Lines /\ a \in Answer /\ desk[s].pack \subseteq evidence
      /\ desk[s].pack \subseteq {l} \X Source
  BY <1>1, AnswersAssumption DEF AtTheDesk, Proposers
<1>3. outcome \in Outcome
  BY DEF audit_outcome, Outcome
<1>4. ASSUME usable
      PROVE  /\ ~citation_refused(l, a) /\ ~proposal_refused(row)
             /\ cited(l, a) \subseteq desk[s].pack /\ row \in Proposal
             /\ outcome = IF row.abstained THEN "abstained" ELSE "success"
  <2>1. /\ ~citation_refused(l, a) /\ cited(l, a) \subseteq desk[s].pack
        /\ a.abstained => a.treatment = "escalate"
        /\ (outcome = "abstained") <=> a.abstained
    <3>1. desk[s].pack \subseteq evidence /\ outcome \in {"success", "abstained"}
      BY <1>2, <1>4
    <3>2. PICK pack : pack = desk[s].pack
      OBVIOUS
    <3>3. /\ ~citation_refused(l, a) /\ cited(l, a) \subseteq pack
      BY <3>1, <3>2, UsableIsAdmitted
    <3>4. (outcome = "abstained") <=> a.abstained
      BY <3>1, <3>2, UsableIsAdmitted
    <3>5. a.abstained => a.treatment = "escalate"
      BY <3>1 DEF audit_outcome
    <3> QED BY <3>2, <3>3, <3>4, <3>5
  <2>2. row \in Proposal
    BY <1>1, <1>2, <2>1 DEF Answer, Proposal, DeskTypes
  <2>3. ~proposal_refused(row)
    BY <2>1 DEF proposal_refused
  <2> QED BY <1>4, <2>1, <2>2, <2>3
<1>5. /\ proposal_events' = emitted(l, outcome)
      /\ proposal' = IF usable THEN [proposal EXCEPT ![l] = Append(@, row)] ELSE proposal
      /\ Attend(s, AtRest)
  BY <1>4 DEF record_answer
<1> HIDE DEF outcome, row
<1>6. /\ desk' \in [Sessions -> Desk] /\ desk'[s] = AtRest /\ OthersAttend(s)
  BY <1>1, <1>5, RestIsADesk, AttendsOnly, AttendsAlone
<1>7. DeskGrows(s)
  BY <1>1 DEF DeskGrows
<1>8. \A t \in Sessions : AtTheDesk(t)'
  BY <1>6, <1>7, RestFits, OthersAtDesk
<1>9. /\ proposal_events' \in [Lines -> [Outcome -> Nat]]
      /\ \A k \in Lines, o \in Outcome :
           proposal_events'[k][o] =
             proposal_events[k][o] + (IF k = l /\ o = outcome THEN 1 ELSE 0)
  <2>1. proposal_events \in [Lines -> [Outcome -> Nat]]
    BY <1>1 DEF DeskTypes
  <2>2. proposal_events' =
          [proposal_events EXCEPT ![l] = [proposal_events[l] EXCEPT
                                            ![outcome] = proposal_events[l][outcome] + 1]]
    BY <1>5 DEF emitted
  <2> DEFINE counts == [proposal_events[l] EXCEPT ![outcome] = proposal_events[l][outcome] + 1]
  <2>3. /\ counts \in [Outcome -> Nat]
        /\ \A o \in Outcome :
             counts[o] = proposal_events[l][o] + (IF o = outcome THEN 1 ELSE 0)
    BY <1>2, <1>3, <2>1
  <2> HIDE DEF counts
  <2>4. proposal_events' = [proposal_events EXCEPT ![l] = counts]
    BY <2>2 DEF counts
  <2>5. ASSUME NEW k \in Lines, NEW o \in Outcome
        PROVE  proposal_events'[k][o] =
                 proposal_events[k][o] + (IF k = l /\ o = outcome THEN 1 ELSE 0)
    <3>1. proposal_events[k][o] \in Nat
      BY <2>1
    <3> QED BY <1>2, <2>1, <2>3, <2>4, <3>1
  <2> QED BY <1>2, <2>1, <2>3, <2>4, <2>5
<1>10. proposal' \in [Lines -> Seq(Proposal)]
  <2>1. ASSUME usable PROVE Append(proposal[l], row) \in Seq(Proposal)
    BY <1>1, <1>2, <1>4, <2>1 DEF DeskTypes
  <2> QED BY <1>1, <1>2, <1>5, <2>1 DEF DeskTypes
<1>11. DeskTypes'
  BY <1>1, <1>6, <1>9, <1>10 DEF DeskTypes
<1>12. RowsRight'
  <2>1. \A r \in adjustment :
          /\ r.approval \in Lines /\ exception'[r.approval] # NULL
          /\ approval'[r.approval] = r.treatment
          /\ \E i \in Instruction : Priced(i, r.approval)' /\ Records(r, i)
    BY <1>7, RowsStand DEF DeskGrows
  <2> QED BY <1>1, <2>1 DEF RowsRight
<1>13. BooksRight'
  BY <1>1 DEF BooksRight
<1>14. ProposalTrail'
  <2>1. ASSUME NEW k \in Lines
        PROVE  TrailOf(k, proposal'[k], proposal_events'[k], evidence)
    <3>1. /\ TrailOf(k, proposal[k], proposal_events[k], evidence)
          /\ proposal[k] \in Seq(Proposal)
          /\ proposal_events[k]["success"] \in Nat /\ proposal_events[k]["abstained"] \in Nat
      BY <1>1, TrailMeans DEF DeskTypes, Outcome
    <3>2. \A o \in {"success", "abstained"} :
            proposal_events'[k][o] =
              proposal_events[k][o] + (IF k = l /\ o = outcome THEN 1 ELSE 0)
      BY <1>9 DEF Outcome
    <3>3. CASE k = l /\ usable
      <4>1. proposal'[k] = Append(proposal[k], row)
        BY <1>1, <1>2, <1>5, <3>3 DEF DeskTypes
      <4>2. \A b \in BOOLEAN :
              Cardinality(Kept(proposal'[k], b))
                = Cardinality(Kept(proposal[k], b)) + (IF row.abstained = b THEN 1 ELSE 0)
        BY <1>4, <3>1, <3>3, <4>1, OneMoreKept
      <4>3. row.abstained \in BOOLEAN /\ outcome = IF row.abstained THEN "abstained" ELSE "success"
        BY <1>4, <3>3 DEF Proposal
      <4>4. /\ proposal_events'[k]["success"] = Cardinality(Kept(proposal'[k], FALSE))
            /\ proposal_events'[k]["abstained"] = Cardinality(Kept(proposal'[k], TRUE))
        BY <3>1, <3>2, <3>3, <4>2, <4>3 DEF TrailOf
      <4>5. \A i \in DOMAIN proposal'[k] :
              \/ i \in DOMAIN proposal[k] /\ proposal'[k][i] = proposal[k][i]
              \/ proposal'[k][i] = row
        BY <3>1, <4>1
      <4>6. row.cites \subseteq evidence \cap ({k} \X Source)
        BY <1>2, <1>4, <3>3 DEF row
      <4> QED BY <3>1, <4>4, <4>5, <4>6 DEF TrailOf
    <3>4. CASE ~(k = l /\ usable)
      <4>1. proposal'[k] = proposal[k]
        BY <1>1, <1>2, <1>5, <3>4 DEF DeskTypes
      <4>2. /\ proposal_events'[k]["success"] = proposal_events[k]["success"]
            /\ proposal_events'[k]["abstained"] = proposal_events[k]["abstained"]
        BY <3>1, <3>2, <3>4
      <4> QED BY <3>1, <4>1, <4>2 DEF TrailOf
    <3> QED BY <3>3, <3>4
  <2>2. evidence' = evidence
    BY <1>1
  <2> QED BY <2>1, <2>2 DEF ProposalTrail, TrailOf, Kept
<1> QED BY <1>8, <1>11, <1>12, <1>13, <1>14 DEF DeskInv
-------------------------------------------------------------------------------
(* From a price to a recorded operation.                                   *)

LEMMA Prices ==
  ASSUME IntakeInv, DeskInv, TablesGrow, UNCHANGED intakeVars, NEW s \in Sessions,
         NEW l \in Raised, NEW t \in Treatment, compute_adjustment(s, l, t)
  PROVE  DeskInv'
<1>1. PICK period \in {NULL, originating_period(l)} :
        /\ priceable(facts_of(l, period), t, ledger_ctx)
        /\ Attend(s, [AtRest EXCEPT
               !.pc = "priced", !.line = l,
               !.instruction = instruction_for(facts_of(l, period), t, ledger_ctx)])
  BY DEF compute_adjustment
<1>2. PICK i : i = instruction_for(facts_of(l, period), t, ledger_ctx)
  OBVIOUS
<1> DEFINE d == [AtRest EXCEPT !.pc = "priced", !.line = l, !.instruction = i]
<1>3. Attend(s, d) /\ UNCHANGED <<deskTables, exception_lock, approval_lock, ledger_ctx>>
  BY <1>1, <1>2 DEF compute_adjustment
<1>4. IntakeTypes /\ StoredRight /\ l \in Lines /\ exception[l] # NULL /\ ledger_ctx \in Versions
  BY DEF IntakeInv, DeskInv, DeskTypes, Raised
<1>5. Priced(i, l) /\ i.exception_id = l
  BY <1>1, <1>2, <1>4, PricedIsPosted
<1>6. i \in Instruction
  BY <1>5 DEF Priced
<1>7. d \in Desk
  BY <1>4, <1>6 DEF AtRest, Desk, DeskStage
<1>8. desk'[s] = d
  BY <1>3, <1>7, AttendsOnly DEF DeskInv
<1>9. Priced(i, l)' /\ exception'[l] # NULL
  BY <1>4, <1>5, PriceStands
<1>10. AtTheDesk(s)'
  <2>1. /\ desk'[s].pc = "priced" /\ desk'[s].line = l /\ desk'[s].instruction = i
        /\ desk'[s].claimed = {}
    BY <1>8 DEF AtRest
  <2>2. Priced(desk[s].instruction, desk[s].line)'
    BY <1>9, <2>1 DEF Priced, PriceOf
  <2> QED BY <1>4, <1>5, <1>9, <2>1, <2>2 DEF AtTheDesk, Proposers, Enqueuers
<1> QED BY <1>3, <1>7, <1>10, Reads

\* What an enqueuer knows of its instruction, at any desk it goes on to with it.
LEMMA InstructionStands ==
  ASSUME IntakeInv, DeskInv, TablesGrow, NEW s \in Sessions, desk[s].pc \in Enqueuers,
         (desk[s].instruction)' = desk[s].instruction, (desk[s].line)' = desk[s].line
  PROVE  /\ desk[s].line \in Lines /\ exception'[desk[s].line] # NULL
         /\ desk[s].instruction.exception_id = desk[s].line
         /\ Priced(desk[s].instruction, desk[s].line)'
<1>1. /\ IntakeTypes /\ StoredRight /\ AtTheDesk(s)
  BY DEF IntakeInv, DeskInv
<1>2. PICK i : i = desk[s].instruction
  OBVIOUS
<1>3. PICK l \in Lines : l = desk[s].line
  BY <1>1 DEF AtTheDesk
<1>4. exception[l] # NULL /\ i.exception_id = l /\ Priced(i, l)
  BY <1>1, <1>2, <1>3 DEF AtTheDesk
<1>5. Priced(i, l)' /\ exception'[l] # NULL
  BY <1>1, <1>3, <1>4, PriceStands
<1>6. Priced(desk[s].instruction, desk[s].line)'
  <2>1. (desk[s].instruction)' = i /\ (desk[s].line)' = l
    BY <1>2, <1>3
  <2> QED BY <1>5, <2>1 DEF Priced, PriceOf
<1> QED BY <1>2, <1>3, <1>4, <1>5, <1>6

LEMMA LocksApproval ==
  ASSUME IntakeInv, DeskInv, TablesGrow, NEW s \in Sessions, NEW a \in Lines,
         lock_approval(s, a)
  PROVE  DeskInv'
<1>1. /\ desk[s].pc = "priced" /\ approval_lock[a] = NULL
      /\ UNCHANGED <<deskTables, exception_lock, ledger_ctx>>
  BY DEF lock_approval
<1>2. CASE approval[a] = NULL
  <2>1. Attend(s, AtRest) /\ UNCHANGED approval_lock
    BY <1>2 DEF lock_approval
  <2>2. desk'[s] = AtRest
    BY <2>1, RestIsADesk, AttendsOnly DEF DeskInv
  <2> QED BY <1>1, <2>1, <2>2, RestIsADesk, RestFits, Reads
<1>3. CASE approval[a] # NULL
  <2> DEFINE d == [desk[s] EXCEPT !.pc = "look", !.approval = a]
  <2>1. Attend(s, d) /\ approval_lock' = [approval_lock EXCEPT ![a] = s]
    BY <1>3 DEF lock_approval
  <2>2. /\ desk[s] \in Desk /\ d \in Desk /\ AtTheDesk(s) /\ DeskTypes
        /\ approval' = approval
    <3>1. desk[s] \in Desk /\ AtTheDesk(s) /\ DeskTypes /\ approval' = approval
      BY <1>1 DEF DeskInv, DeskTypes, deskTables
    <3>2. d \in Desk
      BY <3>1 DEF Desk, DeskStage
    <3> QED BY <3>1, <3>2
  <2>3. /\ desk' \in [Sessions -> Desk] /\ desk'[s] = d
        /\ \A t \in Sessions \ {s} : desk'[t] = desk[t]
    BY <2>1, <2>2, AttendsOnly
  <2>4. /\ approval_lock' \in [Lines -> Sessions \cup {NULL}]
        /\ approval_lock'[a] = s
        /\ \A t \in Sessions \ {s}, l \in Lines : approval_lock'[l] = t <=> approval_lock[l] = t
    BY <1>1, <2>1, <2>2, AbsenceAssumption DEF DeskTypes
  <2>5. OthersAttend(s)
    BY <1>1, <2>3, <2>4 DEF OthersAttend
  <2>6. /\ desk'[s].pc = "look" /\ desk'[s].approval = a
        /\ desk'[s].line = desk[s].line /\ desk'[s].claimed = desk[s].claimed
        /\ desk'[s].instruction = desk[s].instruction
    BY <2>2, <2>3 DEF Desk
  <2>7. /\ desk[s].line \in Lines /\ exception'[desk[s].line] # NULL
        /\ desk[s].instruction.exception_id = desk[s].line
        /\ Priced(desk[s].instruction, desk[s].line)'
    BY <1>1, <2>6, InstructionStands DEF Enqueuers
  <2>8. desk[s].claimed = {}
    BY <1>1, <2>2 DEF AtTheDesk
  <2>9. AtTheDesk(s)'
    BY <1>3, <2>2, <2>4, <2>6, <2>7, <2>8 DEF AtTheDesk, Proposers, Enqueuers
  <2>10. /\ exception_lock' \in [Lines -> Sessions \cup {NULL}] /\ ledger_ctx' \in Versions
    BY <1>1, <2>2 DEF DeskTypes
  <2> QED BY <1>1, <2>3, <2>4, <2>5, <2>9, <2>10, DeskStands
<1> QED BY <1>2, <1>3

\* What is on record under this approval is what this instruction would put there.
LEMMA AgreesIsItsOwn ==
  ASSUME DeskInv, NEW s \in Sessions, NEW row \in adjustment,
         row.approval = desk[s].approval, agrees(s, row)
  PROVE  Records(row, desk[s].instruction)
<1>1. PICK i \in Instruction : Records(row, i)
  BY DEF DeskInv, RowsRight
<1>2. row.identity = derive_identity(desk[s].instruction, desk[s].approval, FIRST_RESOLUTION)
  BY DEF agrees, identity
<1>3. instruction_payload(i) = instruction_payload(desk[s].instruction)
  BY <1>1, <1>2 DEF Records, derive_identity
<1>4. /\ i.treatment = desk[s].instruction.treatment
      /\ i.account_code = desk[s].instruction.account_code
      /\ i.period = desk[s].instruction.period
  BY <1>3 DEF instruction_payload
<1> QED BY <1>1, <1>2, <1>4 DEF Records
LEMMA LooksUp ==
  ASSUME IntakeInv, DeskInv, TablesGrow, NEW s \in Sessions, look_up(s)
  PROVE  DeskInv'
<1> DEFINE a == desk[s].approval
           rows == recorded(a)
           ok == authorised(desk[s].instruction, a)
<1>1. /\ desk[s].pc = "look" /\ desk[s] \in Desk /\ AtTheDesk(s) /\ DeskTypes /\ BooksRight
      /\ UNCHANGED <<evidence, proposal, proposal_events, approval, adjustment,
                     compute_events, ledger_ctx>>
  BY DEF look_up, DeskInv, DeskTypes
<1>2. /\ a \in Lines /\ approval_lock[a] = s /\ approval[a] # NULL /\ desk[s].claimed = {}
  BY <1>1 DEF AtTheDesk
<1>3. ASSUME ok, rows = {}, Attend(s, [desk[s] EXCEPT !.pc = "insert"]),
             UNCHANGED <<outbox, exception_lock, approval_lock>>
      PROVE  DeskInv'
  <2> DEFINE d == [desk[s] EXCEPT !.pc = "insert"]
  <2>1. d \in Desk
    BY <1>1 DEF Desk, DeskStage
  <2>2. desk'[s] = d
    BY <1>1, <1>3, <2>1, AttendsOnly
  <2>3. /\ desk'[s].pc = "insert" /\ desk'[s].approval = a
        /\ desk'[s].line = desk[s].line /\ desk'[s].claimed = desk[s].claimed
        /\ desk'[s].instruction = desk[s].instruction
    BY <1>1, <2>2 DEF Desk
  <2>4. /\ desk[s].line \in Lines /\ exception'[desk[s].line] # NULL
        /\ desk[s].instruction.exception_id = desk[s].line
        /\ Priced(desk[s].instruction, desk[s].line)'
    BY <1>1, <2>3, InstructionStands DEF Enqueuers
  <2>5. authorised(desk[s].instruction, desk[s].approval)' /\ recorded(desk[s].approval)' = {}
    BY <1>1, <1>3, <2>3 DEF authorised, recorded
  <2>6. AtTheDesk(s)'
    BY <1>1, <1>2, <1>3, <2>3, <2>4, <2>5 DEF AtTheDesk, Proposers, Enqueuers
  <2> QED BY <1>1, <1>3, <2>1, <2>6, Reads DEF deskTables
<1>4. ASSUME rows # {}, \A row \in rows : agrees(s, row), outbox' = outbox \cup {a},
             Leave(s, [desk[s] EXCEPT !.pc = "answered"])
      PROVE  DeskInv'
  <2> DEFINE d == [desk[s] EXCEPT !.pc = "answered"]
  <2>1. d \in Desk
    BY <1>1 DEF Desk, DeskStage
  <2>2. PICK row \in adjustment : row.approval = a /\ agrees(s, row)
    BY <1>4 DEF recorded
  <2>3. outbox' = outbox
    BY <1>1, <1>4, <2>2 DEF BooksRight
  <2>4. Records(row, desk[s].instruction)
    BY <2>2, AgreesIsItsOwn
  <2>5. /\ OthersAttend(s) /\ desk' \in [Sessions -> Desk] /\ desk'[s] = d
        /\ exception_lock' \in [Lines -> Sessions \cup {NULL}]
        /\ approval_lock' \in [Lines -> Sessions \cup {NULL}]
    BY <1>1, <1>4, <2>1, LeavesOwn
  <2>6. /\ desk'[s].pc = "answered" /\ desk'[s].approval = a
        /\ desk'[s].line = desk[s].line /\ desk'[s].claimed = desk[s].claimed
        /\ desk'[s].instruction = desk[s].instruction
    BY <1>1, <2>5 DEF Desk
  <2>7. /\ desk[s].line \in Lines /\ exception'[desk[s].line] # NULL
        /\ desk[s].instruction.exception_id = desk[s].line
        /\ Priced(desk[s].instruction, desk[s].line)'
    BY <1>1, <2>6, InstructionStands DEF Enqueuers
  <2>8. AtTheDesk(s)'
    BY <1>1, <1>2, <2>2, <2>4, <2>6, <2>7 DEF AtTheDesk, Proposers, Enqueuers
  <2> QED BY <1>1, <2>3, <2>5, <2>8, DeskStands DEF deskTables, DeskTypes
<1>5. ASSUME Leave(s, AtRest), UNCHANGED outbox
      PROVE  DeskInv'
  BY <1>1, <1>5, ReleasesClaim DEF deskTables
<1> QED BY <1>3, <1>4, <1>5 DEF look_up

LEMMA InsertsOperation ==
  ASSUME IntakeInv, DeskInv, TablesGrow, NEW s \in Sessions, insert_operation(s)
  PROVE  DeskInv'
<1> DEFINE a == desk[s].approval
           row == [approval |-> a, treatment |-> approval[a],
                   amount |-> desk[s].instruction.amount,
                   currency |-> desk[s].instruction.currency,
                   account_code |-> desk[s].instruction.account_code,
                   period |-> desk[s].instruction.period, identity |-> identity(s)]
           d == [desk[s] EXCEPT !.pc = "answered"]
<1>1. /\ desk[s].pc = "insert" /\ desk[s] \in Desk /\ AtTheDesk(s)
      /\ DeskTypes /\ RowsRight /\ BooksRight /\ ProposalTrail
      /\ UNCHANGED <<evidence, proposal, proposal_events, approval, ledger_ctx>>
  BY DEF insert_operation, DeskInv, DeskTypes
<1>2. PICK i : i = desk[s].instruction
  OBVIOUS
<1>3. /\ a \in Lines /\ approval_lock[a] = s /\ approval[a] # NULL
      /\ desk[s].claimed = {} /\ desk[s].line \in Lines /\ exception[desk[s].line] # NULL
      /\ i.exception_id = desk[s].line /\ Priced(desk[s].instruction, desk[s].line)
      /\ authorised(desk[s].instruction, a) /\ recorded(a) = {}
  BY <1>1, <1>2 DEF AtTheDesk, Enqueuers
<1>4. /\ desk[s].line = a /\ i.treatment = approval[a] /\ i \in Instruction
      /\ Priced(i, a) /\ exception[a] # NULL
  BY <1>2, <1>3 DEF authorised, Priced
<1>5. /\ adjustment' = adjustment \cup {row} /\ outbox' = outbox \cup {a}
      /\ compute_events' = [compute_events EXCEPT ![a] = @ + 1]
      /\ Leave(s, d)
  BY <1>3 DEF insert_operation, insert_refused
<1>6. row \in Adjustment /\ Records(row, i) /\ row.approval = a /\ row.treatment = approval[a]
  <2>1. identity(s) = derive_identity(i, a, FIRST_RESOLUTION)
    BY <1>2 DEF identity
  <2>2. instruction_payload(i) \in PayloadHash
    BY <1>4 DEF instruction_payload, Instruction, PayloadHash
  <2>3. identity(s) \in Identity
    BY <1>3, <2>1, <2>2 DEF derive_identity, Identity
  <2>4. /\ approval[a] \in Treatment /\ i.amount \in Int /\ i.currency \in Currencies
        /\ i.account_code \in Accounts /\ i.period \in Nat
    BY <1>4 DEF Instruction
  <2>5. row \in Adjustment
    BY <1>2, <1>3, <2>3, <2>4 DEF Adjustment
  <2> QED BY <1>2, <1>4, <2>1, <2>5 DEF Records
<1> HIDE DEF row
<1>7. d \in Desk
  BY <1>1 DEF Desk, DeskStage
<1>8. /\ OthersAttend(s) /\ desk' \in [Sessions -> Desk] /\ desk'[s] = d
      /\ exception_lock' \in [Lines -> Sessions \cup {NULL}]
      /\ approval_lock' \in [Lines -> Sessions \cup {NULL}]
  BY <1>1, <1>5, <1>7, LeavesOwn
<1>9. DeskGrows(s)
  BY <1>1, <1>3, <1>5, <1>6 DEF DeskGrows
<1>10. AtTheDesk(s)'
  <2>1. /\ desk'[s].pc = "answered" /\ desk'[s].approval = a
        /\ desk'[s].line = desk[s].line /\ desk'[s].claimed = desk[s].claimed
        /\ desk'[s].instruction = desk[s].instruction
    BY <1>1, <1>8 DEF Desk
  <2>2. /\ desk[s].line \in Lines /\ exception'[desk[s].line] # NULL
        /\ desk[s].instruction.exception_id = desk[s].line
        /\ Priced(desk[s].instruction, desk[s].line)'
    BY <1>1, <2>1, InstructionStands DEF Enqueuers
  <2>3. \E r \in adjustment' : r.approval = a /\ Records(r, desk[s].instruction)
    BY <1>2, <1>5, <1>6
  <2> QED BY <1>3, <2>1, <2>2, <2>3 DEF AtTheDesk, Proposers, Enqueuers
<1>11. \A t \in Sessions : AtTheDesk(t)'
  BY <1>8, <1>9, <1>10, OthersAtDesk
<1>12. DeskTypes'
  <2>1. /\ adjustment' \subseteq Adjustment /\ outbox' \subseteq Lines
        /\ compute_events' \in [Lines -> Nat]
    BY <1>1, <1>3, <1>5, <1>6 DEF DeskTypes
  <2> QED BY <1>1, <1>8, <2>1 DEF DeskTypes
<1>13. RowsRight'
  <2>1. \A r \in adjustment :
          /\ r.approval \in Lines /\ exception'[r.approval] # NULL
          /\ approval'[r.approval] = r.treatment
          /\ \E j \in Instruction : Priced(j, r.approval)' /\ Records(r, j)
    BY <1>9, RowsStand DEF DeskGrows
  <2>2. PICK b \in Lines : b = a
    BY <1>3
  <2>3. Priced(i, b)' /\ exception'[b] # NULL
    BY <1>3, <1>4, <2>2, PriceStands DEF IntakeInv
  <2>4. PICK r : r = row
    OBVIOUS
  <2>5. \E j \in Instruction : Priced(j, r.approval)' /\ Records(r, j)
    <3>1. Priced(i, b)'
      BY <2>3
    <3>2. r.approval = b /\ Records(r, i)
      BY <1>6, <2>2, <2>4
    <3> QED BY <1>4, <3>1, <3>2
  <2>6. /\ r.approval \in Lines /\ exception'[r.approval] # NULL
        /\ approval'[r.approval] = r.treatment
    BY <1>1, <1>3, <1>6, <2>2, <2>3, <2>4
  <2>7. adjustment' = adjustment \cup {r}
    BY <1>5, <2>4
  <2> QED BY <2>1, <2>5, <2>6, <2>7 DEF RowsRight
<1>14. BooksRight'
  <2>1. \A r \in adjustment : r.approval # a
    BY <1>3 DEF recorded
  <2>2. outbox' = {r.approval : r \in adjustment'} /\ a \notin outbox
    BY <1>1, <1>5, <1>6, <2>1 DEF BooksRight
  <2>3. \A r, q \in adjustment' : r.approval = q.approval => r = q
    BY <1>1, <1>5, <1>6, <2>1 DEF BooksRight
  <2>4. \A l \in Lines : compute_events'[l] = IF l \in outbox' THEN 1 ELSE 0
    <3>1. compute_events[a] = 0 /\ compute_events'[a] = compute_events[a] + 1 /\ a \in outbox'
      BY <1>1, <1>3, <1>5, <2>2 DEF BooksRight, DeskTypes
    <3>2. ASSUME NEW l \in Lines, l # a
          PROVE  compute_events'[l] = IF l \in outbox' THEN 1 ELSE 0
      BY <1>1, <1>5, <3>2 DEF BooksRight, DeskTypes
    <3> QED BY <3>1, <3>2
  <2> QED BY <2>2, <2>3, <2>4 DEF BooksRight
<1>15. ProposalTrail'
  BY <1>1 DEF ProposalTrail
<1> QED BY <1>11, <1>12, <1>13, <1>14, <1>15 DEF DeskInv
LEMMA TakesAnswer ==
  ASSUME IntakeInv, DeskInv, TablesGrow, NEW s \in Sessions, take_answer(s)
  PROVE  DeskInv'
<1>1. /\ Attend(s, AtRest)
      /\ UNCHANGED <<deskTables, exception_lock, approval_lock, ledger_ctx>>
  BY DEF take_answer
<1>2. desk'[s] = AtRest
  BY <1>1, RestIsADesk, AttendsOnly DEF DeskInv
<1> QED BY <1>1, <1>2, RestIsADesk, RestFits, Reads

-------------------------------------------------------------------------------
(* People, deployments and intake.                                         *)

\* A step nobody at the desk takes.
LEMMA NobodyMoves ==
  ASSUME IntakeInv, DeskInv, TablesGrow, UNCHANGED <<exception_lock, approval_lock, desk>>,
         UNCHANGED deskTables, ledger_ctx' \in Versions
  PROVE  DeskInv'
<1>1. PICK s : s = NULL
  OBVIOUS
<1>2. s \notin Sessions
  BY <1>1, AbsenceAssumption
<1>3. OthersAttend(s)
  BY DEF OthersAttend
<1> QED BY <1>2, <1>3, DeskStands DEF DeskInv, DeskTypes

LEMMA Approves ==
  ASSUME IntakeInv, DeskInv, TablesGrow, NEW l \in Lines, NEW t \in Treatment, approve(l, t)
  PROVE  DeskInv'
<1>1. /\ DeskTypes /\ RowsRight /\ BooksRight /\ ProposalTrail
      /\ approval[l] = NULL /\ approval' = [approval EXCEPT ![l] = t]
      /\ UNCHANGED <<evidence, proposal, proposal_events, adjustment, outbox, compute_events,
                     exception_lock, approval_lock, ledger_ctx, desk>>
  BY DEF approve, DeskInv
<1>2. PICK s : s = NULL
  OBVIOUS
<1>3. s \notin Sessions
  BY <1>2, AbsenceAssumption
<1>4. /\ approval' \in [Lines -> Treatment \cup {NULL}]
      /\ \A k \in Lines : approval[k] # NULL => approval'[k] = approval[k]
  BY <1>1 DEF DeskTypes
<1>5. OthersAttend(s) /\ DeskGrows(s)
  BY <1>1, <1>4 DEF OthersAttend, DeskGrows
<1>6. \A u \in Sessions : AtTheDesk(u)'
  BY <1>3, <1>5, OthersAtDesk
<1>7. DeskTypes'
  BY <1>1, <1>4 DEF DeskTypes
<1>8. RowsRight'
  <2>1. \A row \in adjustment :
          /\ row.approval \in Lines /\ exception'[row.approval] # NULL
          /\ approval'[row.approval] = row.treatment
          /\ \E i \in Instruction : Priced(i, row.approval)' /\ Records(row, i)
    BY <1>4, RowsStand
  <2> QED BY <1>1, <2>1 DEF RowsRight
<1>9. BooksRight' /\ ProposalTrail'
  BY <1>1 DEF BooksRight, ProposalTrail
<1> QED BY <1>6, <1>7, <1>8, <1>9 DEF DeskInv

LEMMA DeskKept ==
  ASSUME IntakeInv, DeskInv, [Next]_vars
  PROVE  DeskInv'
<1>1. TablesGrow
  BY IntakeKept
<1>2. ASSUME UNCHANGED deskVars
      PROVE  DeskInv'
  BY <1>1, <1>2, NobodyMoves DEF deskVars, deskTables, DeskInv, DeskTypes
<1>3. ASSUME NEW s \in Sessions, DeskStep(s)
      PROVE  DeskInv'
  <2>1. UNCHANGED intakeVars
    BY <1>3 DEF DeskStep
  <2>2. CASE claiming(s)
    BY <1>1, <2>2, Claims, ReleasesClaim DEF claiming, release_claim
  <2>3. CASE proposing(s)
    BY <1>1, <2>3, LoadsSubject, PersistsEvidence, Asks, RecordsAnswer DEF proposing
  <2>4. ASSUME NEW l \in Raised, NEW t \in Treatments, compute_adjustment(s, l, t)
        PROVE  DeskInv'
    <3>1. t \in Treatment
      BY <2>4, RosterAssumption
    <3> QED BY <1>1, <2>1, <2>4, <3>1, Prices
  <2>5. CASE enqueue_posting(s)
    BY <1>1, <2>5, LocksApproval, LooksUp, InsertsOperation, TakesAnswer DEF enqueue_posting
  <2> QED BY <1>3, <2>2, <2>3, <2>4, <2>5 DEF DeskStep
<1>4. ASSUME NEW s \in Sessions, Lost(s)
      PROVE  DeskInv'
  BY <1>1, <1>4, ReleasesClaim DEF Lost
<1>5. CASE Elsewhere
  <2>1. ASSUME NEW l \in Raised, NEW t \in Treatments, approve(l, t)
        PROVE  DeskInv'
    <3>1. l \in Lines /\ t \in Treatment
      BY <2>1, RosterAssumption DEF Raised
    <3> QED BY <1>1, <2>1, <3>1, Approves
  <2>2. ASSUME NEW v \in Versions, reconfigure(v)
        PROVE  DeskInv'
    BY <1>1, <2>2, NobodyMoves DEF reconfigure
  <2> QED BY <1>5, <2>1, <2>2 DEF Elsewhere
<1> QED BY <1>2, <1>3, <1>4, <1>5 DEF Next, vars, IntakeStep, AbortVictim, Crash

\* Every part of both invariants holds of every run.
LEMMA DeskHolds == Spec => [](IntakeInv /\ DeskInv)
<1>1. Init => IntakeInv /\ DeskInv
  BY InitFits, DeskStarts DEF Init
<1>2. IntakeInv /\ DeskInv /\ [Next]_vars => IntakeInv' /\ DeskInv'
  BY IntakeKept, DeskKept
<1> QED BY <1>1, <1>2, PTL DEF Spec

-------------------------------------------------------------------------------
(* What it shows.                                                          *)

\* Every row, lock and step of the pipeline is one the schema and the code know.
THEOREM PipelineTypes == Spec => []TypeOK
<1>1. IntakeInv /\ DeskInv => TypeOK
  BY DEF IntakeInv, IntakeTypes, DeskInv, DeskTypes, TypeOK
<1> QED BY <1>1, DeskHolds, PTL

\* Ingestion, matching, classification, proposals and enqueueing: no write meets
\* a constraint it was not written to absorb.
THEOREM NothingIsRefused == Spec => []NeverRefused
<1>1. IntakeInv /\ DeskInv => NeverRefused
  BY DEF IntakeInv, KnowsWhatStands, DeskInv, AtTheDesk, NeverRefused
<1> QED BY <1>1, DeskHolds, PTL

\* llm/service.py: the trail counts every proposal once, and a proposal cites
\* stored evidence of its own exception.
THEOREM ProposalsAreTrailed == Spec => []ProposalTrail
<1>1. DeskInv => ProposalTrail
  BY DEF DeskInv
<1> QED BY <1>1, DeskHolds, PTL

\* operations/service.py, money/calculator.py: an adjustment is one
\* configuration's price of the treatment approved, once per approval, with its
\* event and its outbox row.
THEOREM OperationsAreComplete == Spec => []OperationComplete
<1>1. DeskInv => OperationComplete
  <2> SUFFICES ASSUME DeskInv PROVE OperationComplete
    OBVIOUS
  <2>1. ASSUME NEW row \in adjustment
        PROVE  PricedAsApproved(row)
    <3>1. PICK i \in Instruction : Priced(i, row.approval) /\ Records(row, i)
      BY DEF DeskInv, RowsRight
    <3>2. approval[row.approval] = i.treatment
      BY <3>1 DEF DeskInv, RowsRight, Records
    <3>3. PICK v \in Versions, period \in {NULL} \cup BookedPeriods :
            /\ priceable(facts_of(row.approval, period), i.treatment, v)
            /\ i = instruction_for(facts_of(row.approval, period), i.treatment, v)
      BY <3>1 DEF Priced, PriceOf
    <3>4. row.identity = derive_identity(i, row.approval, FIRST_RESOLUTION)
      BY <3>1 DEF Records
    <3> QED BY <3>2, <3>3, <3>4 DEF PricedAsApproved, BookedPeriods
  <2> QED BY <2>1 DEF DeskInv, BooksRight, OperationComplete
<1> QED BY <1>1, DeskHolds, PTL

\* operations/service.py: who is told its posting is on record is told of its
\* own posting.
THEOREM AnswersAreOwn == Spec => []AnsweredForItself
<1>1. DeskInv => AnsweredForItself
  <2> SUFFICES ASSUME DeskInv, NEW s \in Sessions, desk[s].pc = "answered"
               PROVE  \E row \in adjustment :
                        /\ row.approval = desk[s].approval
                        /\ row.identity = identity(s)
                        /\ row.account_code = desk[s].instruction.account_code
                        /\ row.period = desk[s].instruction.period
    BY DEF AnsweredForItself
  <2>1. PICK row \in adjustment : /\ row.approval = desk[s].approval
                                  /\ Records(row, desk[s].instruction)
    BY DEF DeskInv, AtTheDesk
  <2> QED BY <2>1 DEF Records, identity
<1> QED BY <1>1, DeskHolds, PTL

\* money/calculator.py, _period_for: an accrued cross-period refund never lands
\* in the period it settled in.
THEOREM AccrualsGoElsewhere == Spec => []AccruedElsewhere
<1>1. DeskInv => AccruedElsewhere
  <2> SUFFICES ASSUME DeskInv, NEW row \in adjustment, row.treatment = "accrue",
                      exception[row.approval] = "refund_of_booked_capture_across_periods"
               PROVE  row.period # accounting_period(settlement_line[row.approval].value_date)
    BY DEF AccruedElsewhere
  <2>1. PICK i \in Instruction : Priced(i, row.approval) /\ Records(row, i)
    BY DEF DeskInv, RowsRight
  <2> QED BY <2>1 DEF Priced, Records
<1> QED BY <1>1, DeskHolds, PTL
-------------------------------------------------------------------------------
(* Claims.                                                                 *)

LEMMA OneDeskMoves ==
  ASSUME DeskInv, NEW s \in Sessions, NEW t \in Sessions, t # s, NEW d, Attend(t, d)
  PROVE  desk'[s] = desk[s]
BY DEF DeskInv, DeskTypes, Attend

LEMMA ClaimIsMade ==
  ASSUME IntakeInv, DeskInv, [Next]_vars, NEW s \in Sessions,
         desk[s].pc = "rest", desk'[s].pc = "claimed"
  PROVE  \E limit \in {1, 2} : claim_residuals(s, limit)
<1>1. desk \in [Sessions -> Desk] /\ desk' # desk
  BY DEF DeskInv, DeskTypes
<1>2. PICK t \in Sessions : DeskStep(t) \/ Lost(t)
  BY <1>1 DEF Next, vars, deskVars, IntakeStep, Elsewhere, approve, reconfigure,
       AbortVictim, Crash
<1>3. \E d : Attend(t, d)
  BY <1>2 DEF DeskStep, claiming, claim_residuals, release_claim, proposing, load_subject,
       persist_evidence, ask, record_answer, compute_adjustment, enqueue_posting,
       lock_approval, look_up, insert_operation, take_answer, Leave, Lost
<1>4. t = s
  BY <1>1, <1>3, OneDeskMoves
<1>5. ASSUME NEW d, Attend(s, d), d.pc # "claimed"
      PROVE  FALSE
  BY <1>1, <1>5 DEF Attend
<1>6. ~Lost(s)
  BY <1>5 DEF Lost, Leave, AtRest
<1>7. \/ \E limit \in {1, 2} : claim_residuals(s, limit)
      \/ \E l \in Raised : load_subject(s, l)
      \/ \E l \in Raised, t1 \in Treatments : compute_adjustment(s, l, t1)
  BY <1>2, <1>4, <1>6 DEF DeskStep, claiming, release_claim, proposing, persist_evidence, ask,
       record_answer, enqueue_posting, lock_approval, look_up, insert_operation, take_answer
<1>8. ASSUME NEW l \in Raised, load_subject(s, l)
      PROVE  FALSE
  <2>1. \E pack : Attend(s, [AtRest EXCEPT !.pc = "persist_evidence", !.line = l, !.pack = pack])
    BY <1>8 DEF load_subject
  <2> QED BY <1>5, <2>1 DEF AtRest
<1>9. ASSUME NEW l \in Raised, NEW t1 \in Treatments, compute_adjustment(s, l, t1)
      PROVE  FALSE
  <2>1. \E i : Attend(s, [AtRest EXCEPT !.pc = "priced", !.line = l, !.instruction = i])
    BY <1>9 DEF compute_adjustment
  <2> QED BY <1>5, <2>1 DEF AtRest
<1> QED BY <1>7, <1>8, <1>9

LEMMA ClaimIsFull ==
  ASSUME IntakeInv, DeskInv, NEW s \in Sessions, NEW limit \in {1, 2},
         claim_residuals(s, limit)
  PROVE  LET mine == (desk[s].claimed)'
         IN  /\ \A t \in Sessions \ {s} : desk[t].claimed \cap mine = {}
             /\ Cardinality(mine) < (desk[s].requested)' => Unlocked \subseteq mine
<1>1. PICK S \in claimable(limit) :
        Attend(s, [AtRest EXCEPT !.pc = "claimed", !.claimed = S, !.requested = limit])
  BY DEF claim_residuals
<1>2. (desk[s].claimed)' = S /\ (desk[s].requested)' = limit
  BY <1>1 DEF DeskInv, DeskTypes, Attend, AtRest
<1>3. S \subseteq Unlocked /\ Cardinality(S) = Least(limit, Cardinality(Unlocked))
  BY DEF claimable
<1>4. ASSUME NEW t \in Sessions \ {s}, NEW l \in desk[t].claimed \cap S
      PROVE  FALSE
  <2>1. exception_lock[l] = t /\ exception_lock[l] = NULL
    BY <1>3, <1>4 DEF DeskInv, AtTheDesk, Unlocked
  <2> QED BY <2>1, AbsenceAssumption
<1>5. ASSUME Cardinality(S) < limit
      PROVE  Unlocked \subseteq S
  <2>1. IsFiniteSet(Unlocked)
    BY IdAssumption, FS_Subset DEF Unlocked, Raised
  <2>2. Cardinality(Unlocked) \in Nat
    BY <2>1, FS_CardinalityType
  <2>3. Cardinality(S) = Cardinality(Unlocked)
    BY <1>3, <1>5, <2>2 DEF Least
  <2> QED BY <1>3, <2>1, <2>3, FS_Subset
<1> QED BY <1>2, <1>4, <1>5

\* operations/claim.py, FOR UPDATE SKIP LOCKED: no residual goes to two workers,
\* and a short claim is all that nobody else held.
THEOREM ClaimsAreDisjointAndFull == Spec => ClaimsDisjointAndFull
<1>1. IntakeInv /\ DeskInv /\ [Next]_vars =>
        [\A s \in Sessions : desk[s].pc = "rest" /\ desk'[s].pc = "claimed" =>
           LET mine == (desk[s].claimed)'
           IN  /\ \A t \in Sessions \ {s} : desk[t].claimed \cap mine = {}
               /\ Cardinality(mine) < (desk[s].requested)' => Unlocked \subseteq mine]_vars
  BY ClaimIsMade, ClaimIsFull
<1> QED BY <1>1, DeskHolds, PTL DEF Spec, ClaimsDisjointAndFull

===============================================================================
