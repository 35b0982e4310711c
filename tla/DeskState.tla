-------------------------------- MODULE DeskState --------------------------------
(***************************************************************************)
(* The tables that hang off an exception (db/control.py): the evidence and *)
(* the proposals, the decision and the adjustment it authorises.  An       *)
(* exception is named by its settlement line, which it is unique for, and  *)
(* an approval by its exception: resolutions after the first are the       *)
(* subject of Approvals.                                                   *)
(***************************************************************************)
EXTENDS Classification, Pricing, Sequences

CONSTANTS
    EvidenceWindow,     \* EVIDENCE_WINDOW_DAYS
    MaxCandidates,      \* MAX_CANDIDATES
    Answers,            \* bound: what a provider may answer
    MaxAsks             \* bound: how many answers are recorded

FIRST_RESOLUTION == 1

\* Evidence ids are derived from the exception and the source, so the pair is
\* the id: the settlement line itself, or a candidate ledger entry.
Source == {"remittance"} \cup Entries
EvidenceId == Lines \X Source

Outcome == {"success", "abstained", "failure", "quarantined"}
Proposal == [treatment : Treatment, abstained : BOOLEAN, cites : SUBSET EvidenceId]
Answer == [kind : {"unavailable", "malformed", "answer"}, treatment : Treatment,
           abstained : BOOLEAN, cites : SUBSET Source, repeats : BOOLEAN]

ASSUME AnswersAssumption ==
    /\ MaxCandidates \in Nat /\ EvidenceWindow \in Nat /\ MaxAsks \in Nat
    /\ Answers \subseteq Answer

Instruction ==
    [exception_id : Lines, treatment : Treatment, amount : Int, currency : Currencies,
     account_code : Accounts, period : Nat, quantum : {MONEY_QUANTUM},
     rounding : {ROUNDING}, ledger_context_version : Versions]
PayloadHash ==
    Lines \X Treatment \X Int \X Currencies \X Accounts \X Nat \X {MONEY_QUANTUM}
      \X {ROUNDING} \X Versions
Identity == [operation_id : Lines \X {FIRST_RESOLUTION} \X PayloadHash,
             instruction_payload_hash : PayloadHash]
Adjustment ==
    [approval : Lines, treatment : Treatment, amount : Int, currency : Currencies,
     account_code : Accounts, period : Nat, identity : Identity]

DeskStage == {"rest", "claimed",                            \* claim_residuals
              "persist_evidence", "ask", "record_answer",   \* propose_for_exception
              "priced", "look", "insert", "answered",       \* enqueue_posting
              "refused"}
Desk == [pc : DeskStage, line : Lines \cup {NULL}, claimed : SUBSET Lines, requested : Nat,
         pack : SUBSET EvidenceId, answer : Answers \cup {NULL},
         approval : Lines \cup {NULL}, instruction : Instruction \cup {NULL}]

VARIABLES
    evidence,           \* evidence rows, by id
    proposal,           \* treatment_proposal rows of an exception, in order
    proposal_events,    \* audit_event rows of tool PROPOSE_TREATMENT, by outcome
    exception_lock,     \* FOR UPDATE on exception
    approval,           \* the treatment a human approved, NULL until one has
    approval_lock,      \* FOR UPDATE on approval
    adjustment,         \* adjustment rows
    outbox,             \* approvals whose adjustment has an outbox row
    compute_events,     \* audit_event rows of tool COMPUTE_AMOUNT
    ledger_ctx,         \* the configured ledger context version
    desk                \* what each session is doing at the desk

deskTables == <<evidence, proposal, proposal_events, approval, adjustment, outbox,
                compute_events>>
deskVars == <<evidence, proposal, proposal_events, exception_lock, approval,
              approval_lock, adjustment, outbox, compute_events, ledger_ctx, desk>>

AtRest == [pc |-> "rest", line |-> NULL, claimed |-> {}, requested |-> 0, pack |-> {}, answer |-> NULL,
           approval |-> NULL, instruction |-> NULL]

Attend(s, d) == desk' = [desk EXCEPT ![s] = d]

\* A session takes up one thing at a time.
Free(s) == job[s].pc = "idle" /\ desk[s].pc = "rest"

\* The transaction of s at the desk is over.
LetGo(s) ==
    /\ exception_lock' = [l \in Lines |-> IF exception_lock[l] = s THEN NULL ELSE exception_lock[l]]
    /\ approval_lock'  = [l \in Lines |-> IF approval_lock[l] = s THEN NULL ELSE approval_lock[l]]
Leave(s, d) == LetGo(s) /\ Attend(s, d)

Raised == {l \in Lines : exception[l] # NULL}

InitDesk ==
    /\ evidence = {}
    /\ proposal = [l \in Lines |-> <<>>]
    /\ proposal_events = [l \in Lines |-> [o \in Outcome |-> 0]]
    /\ exception_lock = [l \in Lines |-> NULL]
    /\ approval = [l \in Lines |-> NULL]
    /\ approval_lock = [l \in Lines |-> NULL]
    /\ adjustment = {}
    /\ outbox = {}
    /\ compute_events = [l \in Lines |-> 0]
    /\ ledger_ctx = CHOOSE v \in Versions : TRUE
    /\ desk = [s \in Sessions |-> AtRest]
===============================================================================
