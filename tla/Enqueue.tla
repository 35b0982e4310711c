--------------------------------- MODULE Enqueue ---------------------------------
(***************************************************************************)
(* From an exception to a recorded operation: a caller prices a treatment, *)
(* a human approves one, and operations/service.py records the instruction *)
(* under the approval's lock, with its outbox row.  The configuration may  *)
(* change between any two of those steps.                                  *)
(***************************************************************************)
EXTENDS DeskState

\* RULE_CLASSIFICATION
classification(rule) ==
    CASE rule = "reversal_of_booked_chargeback" -> "chargeback_reversal"
      [] rule = "refund_of_booked_capture_across_periods" -> "cross_period_refund"
      [] rule = "fees_deducted_from_a_capture" -> "fee_split"
      [] rule = "no_rule_matched" -> "unclassified"

\* The period of the one booked movement this line exactly reverses.
originating_period(l) ==
    LET offsets == booked_offsets(l, Booked, Booked)
    IN  IF Cardinality(offsets) = 1
        THEN accounting_period(settlement_line[CHOOSE m \in offsets : TRUE].value_date)
        ELSE NULL

\* ExceptionFacts, read from the stored rows; the originating period is the
\* caller's to supply, and one caller supplies none.
facts_of(l, period) ==
    [exception_id       |-> l,
     classification     |-> classification(exception[l]),
     amount             |-> settlement_line[l].amount,
     currency           |-> settlement_line[l].currency,
     value_date         |-> settlement_line[l].value_date,
     originating_period |-> period]

\* compute_adjustment; what cannot be priced is left to a human.
compute_adjustment(s, l, treatment) ==
    /\ Free(s)
    /\ exception[l] # NULL
    /\ \E period \in {NULL, originating_period(l)} :
         LET facts == facts_of(l, period)
         IN  /\ priceable(facts, treatment, ledger_ctx)
             /\ Attend(s, [AtRest EXCEPT
                    !.pc = "priced", !.line = l,
                    !.instruction = instruction_for(facts, treatment, ledger_ctx)])
    /\ UNCHANGED <<deskTables, exception_lock, approval_lock, ledger_ctx>>

\* record_decision, first resolution: the unique index keeps one per exception.
approve(l, treatment) ==
    /\ exception[l] # NULL
    /\ approval[l] = NULL
    /\ approval' = [approval EXCEPT ![l] = treatment]
    /\ UNCHANGED <<evidence, proposal, proposal_events, adjustment, outbox, compute_events,
                   exception_lock, approval_lock, ledger_ctx, desk>>

\* A deployment changes accounts or periods, and with them the version.
reconfigure(v) ==
    /\ v # ledger_ctx
    /\ ledger_ctx' = v
    /\ UNCHANGED <<deskTables, exception_lock, approval_lock, desk>>

\* SELECT ... FROM approval ... FOR UPDATE.  With no approval nothing
\* authorises the write.
lock_approval(s, a) ==
    /\ desk[s].pc = "priced"
    /\ approval_lock[a] = NULL
    /\ IF approval[a] = NULL
         THEN Attend(s, AtRest) /\ UNCHANGED approval_lock
         ELSE /\ approval_lock' = [approval_lock EXCEPT ![a] = s]
              /\ Attend(s, [desk[s] EXCEPT !.pc = "look", !.approval = a])
    /\ UNCHANGED <<deskTables, exception_lock, ledger_ctx>>

\* Mutant: the instruction's treatment is not compared with the approved one.
of_this_exception(i, a) == i.exception_id = a /\ postable(i)

\* The instruction and the approval describe the same authorised operation.
authorised(i, a) == i.exception_id = a /\ i.treatment = approval[a] /\ postable(i)

identity(s) == derive_identity(desk[s].instruction, desk[s].approval, FIRST_RESOLUTION)
recorded(a) == {row \in adjustment : row.approval = a}

\* Mutant: what is on record is returned without asking what it was for.
agrees_with_anything(s, row) == TRUE

\* Both digests of the stored row are the ones these inputs derive.
agrees(s, row) == row.identity = identity(s)

\* record_operation, under the lock: refuse, answer with what is on record,
\* refuse to overwrite it, or go on to insert.
look_up(s) ==
    LET a    == desk[s].approval
        rows == recorded(a)
        ok   == authorised(desk[s].instruction, a)
    IN  /\ desk[s].pc = "look"
        /\ \/ /\ ok /\ rows = {}
              /\ Attend(s, [desk[s] EXCEPT !.pc = "insert"])
              /\ UNCHANGED <<outbox, exception_lock, approval_lock>>
           \/ /\ ok /\ rows # {} /\ \A row \in rows : agrees(s, row)
              /\ outbox' = outbox \cup {a}
              /\ Leave(s, [desk[s] EXCEPT !.pc = "answered"])
           \/ /\ ~ok \/ \E row \in rows : ~agrees(s, row)
              /\ Leave(s, AtRest)     \* RecordingRefused, IdentifierContradiction
              /\ UNCHANGED outbox
        /\ UNCHANGED <<evidence, proposal, proposal_events, approval, adjustment,
                       compute_events, ledger_ctx>>

\* uq_adjustment_approval_id
insert_refused(s) == recorded(desk[s].approval) # {}

\* The adjustment, its COMPUTE_AMOUNT event and its outbox row, in one commit.
insert_operation(s) ==
    LET a == desk[s].approval
        i == desk[s].instruction
        row == [approval |-> a, treatment |-> approval[a], amount |-> i.amount,
                currency |-> i.currency, account_code |-> i.account_code,
                period |-> i.period, identity |-> identity(s)]
    IN  /\ desk[s].pc = "insert"
        /\ IF insert_refused(s)
             THEN /\ Leave(s, [AtRest EXCEPT !.pc = "refused"])
                  /\ UNCHANGED <<adjustment, outbox, compute_events>>
             ELSE /\ adjustment' = adjustment \cup {row}
                  /\ outbox' = outbox \cup {a}
                  /\ compute_events' = [compute_events EXCEPT ![a] = @ + 1]
                  /\ Leave(s, [desk[s] EXCEPT !.pc = "answered"])
        /\ UNCHANGED <<evidence, proposal, proposal_events, approval, ledger_ctx>>

\* The caller takes the answer.
take_answer(s) ==
    /\ desk[s].pc = "answered"
    /\ Attend(s, AtRest)
    /\ UNCHANGED <<deskTables, exception_lock, approval_lock, ledger_ctx>>

enqueue_posting(s) ==
    \/ \E a \in Lines : lock_approval(s, a)
    \/ look_up(s)
    \/ insert_operation(s)
    \/ take_answer(s)
===============================================================================
