-------------------------------- MODULE Proposing --------------------------------
(***************************************************************************)
(* operations/claim.py, llm/service.py, flow.py and evidence.py: a worker  *)
(* claims open residuals, and a provider is asked about one, outside any   *)
(* transaction, on evidence committed before.                              *)
(***************************************************************************)
EXTENDS DeskState

\* Nothing sets an exception's status to resolved.
Open(l) == exception[l] # NULL
Unlocked == {l \in Raised : exception_lock[l] = NULL}

\* Mutant: the limit is taken before the locked rows are skipped.
limited_then_skipped(limit) ==
    {S \cap Unlocked : S \in {T \in SUBSET Raised :
                                Cardinality(T) = Least(limit, Cardinality(Raised))}}

\* LIMIT counts the rows SKIP LOCKED leaves.  The order, by age and then by a
\* random id, is left open: any of them may be the oldest.
claimable(limit) ==
    {S \in SUBSET Unlocked : Cardinality(S) = Least(limit, Cardinality(Unlocked))}

\* claim_residuals, in the caller's transaction.
claim_residuals(s, limit) ==
    /\ Free(s)
    /\ \E S \in claimable(limit) :
         /\ exception_lock' = [l \in Lines |-> IF l \in S THEN s ELSE exception_lock[l]]
         /\ Attend(s, [AtRest EXCEPT !.pc = "claimed", !.claimed = S, !.requested = limit])
    /\ UNCHANGED <<deskTables, approval_lock, ledger_ctx>>

\* The caller commits or rolls back.
release_claim(s) ==
    /\ desk[s].pc = "claimed"
    /\ Leave(s, AtRest)
    /\ UNCHANGED <<deskTables, ledger_ctx>>

-------------------------------------------------------------------------------
\* _ranked: amount, then date, then the reference.
amount_delta(l, e) == Distance(Entry[e].amount, settlement_line[l].amount)
day_delta(l, e)    == Distance(Entry[e].booked_on, settlement_line[l].value_date)
nearer(l, d, e) ==
    \/ amount_delta(l, d) < amount_delta(l, e)
    \/ /\ amount_delta(l, d) = amount_delta(l, e)
       /\ \/ day_delta(l, d) < day_delta(l, e)
          \/ day_delta(l, d) = day_delta(l, e) /\ Entry[d].external_ref < Entry[e].external_ref

\* assemble_evidence: the references, and the nearest unconsumed entries.
assemble_evidence(l, entries) ==
    LET nearby == {e \in entries : /\ Entry[e].currency = settlement_line[l].currency
                                   /\ day_delta(l, e) <= EvidenceWindow}
        shown  == {e \in nearby :
                     Cardinality({d \in nearby : nearer(l, d, e)}) < MaxCandidates}
    IN  {<<l, "remittance">>} \cup {<<l, e>> : e \in shown}

answers_recorded ==
    MapThenSumSet(LAMBDA l : MapThenSumSet(LAMBDA o : proposal_events[l][o], Outcome), Lines)

\* _load_subject and _load_candidates.
load_subject(s, l) ==
    /\ Free(s)
    /\ Open(l)
    /\ answers_recorded < MaxAsks
    /\ Attend(s, [AtRest EXCEPT !.pc = "persist_evidence", !.line = l,
                                !.pack = assemble_evidence(l, unconsumed_entries({l}))])
    /\ UNCHANGED <<deskTables, exception_lock, approval_lock, ledger_ctx>>

\* The foreign key of a new row waits for a claim on its exception.
key_share_blocked(s, l) == exception_lock[l] \notin {NULL, s}

\* _persist_evidence commits: DO NOTHING on ids already there.
persist_evidence(s) ==
    /\ desk[s].pc = "persist_evidence"
    /\ desk[s].pack \subseteq evidence \/ ~key_share_blocked(s, desk[s].line)
    /\ evidence' = evidence \cup desk[s].pack
    /\ Attend(s, [desk[s] EXCEPT !.pc = "ask"])
    /\ UNCHANGED <<proposal, proposal_events, approval, adjustment, outbox, compute_events,
                   exception_lock, approval_lock, ledger_ctx>>

cited(l, a) == {<<l, x>> : x \in a.cites}

\* assert_citations_were_supplied.
citations_were_supplied(l, pack, a) == cited(l, a) \subseteq pack /\ ~a.repeats

\* propose_treatment and the audit reading of its outcome: an abstention that
\* does not escalate is no proposal at all.
audit_outcome(l, pack, a) ==
    IF a.kind = "unavailable" THEN "failure"
    ELSE IF \/ a.kind = "malformed"
            \/ a.abstained /\ a.treatment # "escalate"
            \/ ~citations_were_supplied(l, pack, a)
         THEN "quarantined"
    ELSE IF a.abstained THEN "abstained" ELSE "success"

\* The provider answers, or does not.
ask(s, a) ==
    /\ desk[s].pc = "ask"
    /\ Attend(s, [desk[s] EXCEPT !.pc = "record_answer", !.answer = a])
    /\ UNCHANGED <<deskTables, exception_lock, approval_lock, ledger_ctx>>

\* Mutant: the event is left to a transaction that may never come.
no_event(l, outcome) == proposal_events

emitted(l, outcome) == [proposal_events EXCEPT ![l][outcome] = @ + 1]

\* The citation's foreign key, and its composite key.
citation_refused(l, a) == ~(cited(l, a) \subseteq evidence) \/ a.repeats

\* abstention_escalates
proposal_refused(row) == row.abstained /\ row.treatment # "escalate"

\* The proposal, its citations and the event commit together, or the event
\* alone when the answer was unusable.
record_answer(s) ==
    LET l       == desk[s].line
        a       == desk[s].answer
        outcome == audit_outcome(l, desk[s].pack, a)
        usable  == outcome \in {"success", "abstained"}
        row     == [treatment |-> a.treatment, abstained |-> a.abstained, cites |-> cited(l, a)]
    IN  /\ desk[s].pc = "record_answer"
        /\ usable => ~key_share_blocked(s, l)
        /\ IF usable /\ (proposal_refused(row) \/ citation_refused(l, a))
             THEN /\ Attend(s, [AtRest EXCEPT !.pc = "refused"])
                  /\ UNCHANGED <<proposal, proposal_events>>
             ELSE /\ proposal_events' = emitted(l, outcome)
                  /\ proposal' = IF usable THEN [proposal EXCEPT ![l] = Append(@, row)]
                                 ELSE proposal
                  /\ Attend(s, AtRest)
        /\ UNCHANGED <<evidence, approval, adjustment, outbox, compute_events,
                       exception_lock, approval_lock, ledger_ctx>>

claiming(s)  == (\E limit \in {1, 2} : claim_residuals(s, limit)) \/ release_claim(s)
proposing(s) ==
    \/ \E l \in Raised : load_subject(s, l)
    \/ persist_evidence(s)
    \/ \E a \in Answers : ask(s, a)
    \/ record_answer(s)
===============================================================================
