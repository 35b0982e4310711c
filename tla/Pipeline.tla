-------------------------------- MODULE Pipeline --------------------------------
(***************************************************************************)
(* From a settlement file to a recorded operation: deliveries, matchers,   *)
(* classifiers and the desk at once on one database, with processes dying  *)
(* and PostgreSQL breaking deadlocks.                                      *)
(***************************************************************************)
EXTENDS Proposing, Enqueue

CONSTANTS
    Rosters,        \* bound: which session does what, on which payloads
    Treatments      \* bound: the treatments priced and approved

Duty == {"ingest", "match", "classify", "claim", "propose", "price"}

ASSUME RosterAssumption ==
    /\ Rosters \subseteq [duty : [Sessions -> SUBSET Duty], deliveries : SUBSET Batches,
                          scopes : SUBSET Scopes]
    /\ Treatments \subseteq Treatment

VARIABLE roster     \* one of Rosters, for good

vars == <<intakeVars, deskVars, roster>>

On(s, duty) == duty \in roster.duty[s]

IntakeStep(s) ==
    /\ desk[s].pc = "rest"
    /\ \/ On(s, "ingest")   /\ ingest(s, roster.deliveries)
       \/ On(s, "match")    /\ run_matching(s, roster.scopes)
       \/ On(s, "classify") /\ run_classification(s, roster.scopes)
    /\ UNCHANGED <<deskVars, roster>>

DeskStep(s) ==
    /\ \/ On(s, "claim")   /\ claiming(s)
       \/ On(s, "propose") /\ proposing(s)
       \/ /\ On(s, "price")
          /\ \/ \E l \in Raised, t \in Treatments : compute_adjustment(s, l, t)
             \/ enqueue_posting(s)
    /\ UNCHANGED <<intakeVars, roster>>

\* People and deployments, in the rosters that have somebody pricing.
Elsewhere ==
    /\ \E s \in Sessions : On(s, "price")
    /\ \/ \E l \in Raised, t \in Treatments : approve(l, t)
       \/ \E v \in Versions : reconfigure(v)
    /\ UNCHANGED <<intakeVars, roster>>

-------------------------------------------------------------------------------
\* The session whose row or uncommitted insert s waits for.
waits_for_line(s) ==
    IF job[s].pc \in {"lock", "pin"} /\ line_lock[next_wanted(s)] # NULL
    THEN {line_lock[next_wanted(s)]} ELSE {}
waits_for_batch(s) ==
    IF job[s].pc = "claim" /\ batch_lock[job[s].batch] # NULL
    THEN {batch_lock[job[s].batch]} ELSE {}
waits_for_insert(s) ==
    IF job[s].pc = "insert" THEN InsertBlockedBy(s) ELSE {}
WaitsFor(s) == waits_for_line(s) \cup waits_for_batch(s) \cup waits_for_insert(s)

\* Sessions none of which can go on before another of them has.
Deadlocked(D) ==
    /\ D # {}
    /\ \A s \in D : WaitsFor(s) \cap D # {}
    /\ \A t \in D : \E s \in D : t \in WaitsFor(s)

\* Whatever s had locked or not committed is gone.
Lost(s) == End(s) /\ Leave(s, AtRest) /\ UNCHANGED <<tables, deskTables, ledger_ctx, roster>>

\* The deadlock detector aborts one of them; the run raises.
AbortVictim(s) == (\E D \in SUBSET Sessions : s \in D /\ Deadlocked(D)) /\ Lost(s)

\* The process dies.
Crash(s) == (job[s].pc \notin {"idle", "refused"} \/ desk[s].pc \notin {"rest", "refused"})
            /\ Lost(s)

Init == InitIntake /\ InitDesk /\ roster \in Rosters
Next ==
    \/ \E s \in Sessions : IntakeStep(s) \/ DeskStep(s) \/ AbortVictim(s) \/ Crash(s)
    \/ Elsewhere
Spec == Init /\ [][Next]_vars
-------------------------------------------------------------------------------
\* Every row, lock and step is one the schema and the code know.
TypeOK ==
    /\ batch \in [Batches -> BatchRow]
    /\ settlement_line \in [Lines -> SettlementLine \cup {NULL}]
    /\ match_state \in [Lines -> MatchState \cup {"absent"}]
    /\ match_result \subseteq ProposedMatch
    /\ exception \in [Lines -> ExceptionRecord]
    /\ matched_events \in [Lines -> Nat]
    /\ batch_lock \in [Batches -> Sessions \cup {NULL}]
    /\ line_lock \in [Lines -> Sessions \cup {NULL}]
    /\ job \in [Sessions -> Job]
    /\ evidence \subseteq EvidenceId
    /\ proposal \in [Lines -> Seq(Proposal)]
    /\ proposal_events \in [Lines -> [Outcome -> Nat]]
    /\ exception_lock \in [Lines -> Sessions \cup {NULL}]
    /\ approval \in [Lines -> Treatment \cup {NULL}]
    /\ approval_lock \in [Lines -> Sessions \cup {NULL}]
    /\ adjustment \subseteq Adjustment
    /\ outbox \subseteq Lines
    /\ compute_events \in [Lines -> Nat]
    /\ ledger_ctx \in Versions
    /\ desk \in [Sessions -> Desk]
    /\ roster \in Rosters

\* Whatever other sessions did since it read, no write of any of them ever meets
\* a constraint it was not written to absorb: the line numbers of a batch, the
\* composite foreign key of exception, the keys of a citation, one adjustment
\* per approval.
NeverRefused == \A s \in Sessions : job[s].pc # "refused" /\ desk[s].pc # "refused"

\* The id order of the row locks leaves matchers and classifiers no deadlock on
\* lines; what remains is matchers waiting for each other's inserts.
LineLocksOrdered ==
    \A D \in SUBSET Sessions : Deadlocked(D) => \A s \in D : job[s].pc = "insert"

\* However deliveries of one payload overlap and die, a batch that says it was
\* parsed has every row stored and storable, any other has none, and a
\* quarantine accounts for every defect.
BatchWhole ==
    \A b \in Batches :
      /\ \A n \in Rows(b) :
           LET l == LineId[b][n]
           IN  IF batch[b].status = "parsed"
               THEN settlement_line[l] = line_of(b, n) /\ storable(settlement_line[l])
               ELSE settlement_line[l] = NULL
      /\ IF batch[b].status = "quarantined"
         THEN batch[b].reason.shown + batch[b].reason.more = Cardinality(defects_of(Payload[b]))
         ELSE batch[b].reason = NULL

\* A line is matched once, against an entry nothing else is matched against, and
\* says so with one audit event; or it is under an exception; never both.
OneFate ==
    /\ \A p, q \in match_result : Conflicts(p, q) => p = q
    /\ \A l \in Lines :
         /\ (match_state[l] = "absent") = (settlement_line[l] = NULL)
         /\ (match_state[l] = "matched") = (\E p \in match_result : p.line = l)
         /\ matched_events[l] = IF match_state[l] = "matched" THEN 1 ELSE 0
         /\ exception[l] # NULL => match_state[l] = "unmatched"

\* What a run proposes is beyond contest on what it read: of the lines and the
\* entries it saw, no other could have had either half, and no tolerance match
\* takes what an exact amount names.
Beyond(p, lines, entries) ==
    /\ eligible(p.line, p.entry, p.rule)
    /\ \A e \in entries \ {p.entry} : eligible(p.line, e, "exact_amount") => FALSE
    /\ \A l \in lines \ {p.line} : eligible(l, p.entry, "exact_amount") => FALSE
    /\ p.rule = "amount_within_tolerance" =>
         /\ \A e \in entries : eligible(p.line, e, "amount_within_tolerance")
              => e = p.entry \/ \E l \in lines : eligible(l, e, "exact_amount")
         /\ \A l \in lines : eligible(l, p.entry, "amount_within_tolerance")
              => l = p.line \/ \E e \in entries : eligible(l, e, "exact_amount")
DecisionSound ==
    [][\A s \in Sessions : job[s].pc = "entries" /\ job'[s].pc = "lock" =>
         \A p \in (job[s].proposed)' : Beyond(p, job[s].read, unconsumed_entries(job[s].read))]_vars

\* A rule is recorded only if the rows it was decided from still say so when the
\* exception commits.
ClassifiedOnWhatStands ==
    [][\A s \in Sessions, l \in Lines :
         /\ job[s].pc = "persist" /\ job[s].verdict[l] # NULL
         /\ exception[l] = NULL /\ exception'[l] # NULL
         => exception'[l] = rule_for(l, context_of({l}) \cap job[s].read, Booked)]_vars

\* What an exception says it reverses is a movement the ledger carries, for as
\* long as the exception exists.
Reverses(l, m, kind) ==
    /\ same_order(l, m) /\ movement_type(m) = kind
    /\ settlement_line[m].amount = -settlement_line[l].amount
BookedCounterpart ==
    \A l \in Lines :
      /\ exception[l] = "reversal_of_booked_chargeback" =>
           \E m \in Booked : Reverses(l, m, "chargeback")
      /\ exception[l] = "refund_of_booked_capture_across_periods" =>
           \E m \in Booked : /\ Reverses(l, m, "capture")
                             /\ accounting_period(settlement_line[m].value_date)
                                 # accounting_period(settlement_line[l].value_date)

\* No residual is claimed by two workers, and a worker comes away with fewer
\* than it asked for only if it has all that nobody else held.
ClaimsDisjointAndFull ==
    [][\A s \in Sessions : desk[s].pc = "rest" /\ desk'[s].pc = "claimed" =>
         LET mine == (desk[s].claimed)'
         IN  /\ \A t \in Sessions \ {s} : desk[t].claimed \cap mine = {}
             /\ Cardinality(mine) < (desk[s].requested)' => Unlocked \subseteq mine]_vars

\* The trail counts every proposal and every abstention once, and every proposal
\* cites stored evidence of its own exception.
ProposalTrail ==
    \A l \in Lines :
      LET kept(b) == {i \in DOMAIN proposal[l] : proposal[l][i].abstained = b}
      IN  /\ proposal_events[l]["success"] = Cardinality(kept(FALSE))
          /\ proposal_events[l]["abstained"] = Cardinality(kept(TRUE))
          /\ \A i \in DOMAIN proposal[l] :
               proposal[l][i].cites \subseteq evidence \cap ({l} \X Source)

\* An adjustment is what one configuration makes of the approved treatment of
\* its own exception; it is the only one of its approval, and its event and its
\* outbox row came with it.
PricedAsApproved(row) ==
    \E v \in Versions,
       period \in {NULL} \cup {accounting_period(settlement_line[m].value_date) : m \in Booked} :
      LET l == row.approval
          facts == facts_of(l, period)
      IN  /\ priceable(facts, approval[l], v)
          /\ row.identity = derive_identity(instruction_for(facts, approval[l], v), l,
                                            FIRST_RESOLUTION)
OperationComplete ==
    /\ \A row \in adjustment : PricedAsApproved(row)
    /\ \A r, q \in adjustment : r.approval = q.approval => r = q
    /\ outbox = {row.approval : row \in adjustment}
    /\ \A l \in Lines : compute_events[l] = IF l \in outbox THEN 1 ELSE 0

\* A caller that is told its posting is on record is told of its own posting:
\* account, period and configuration included.
AnsweredForItself ==
    \A s \in Sessions : desk[s].pc = "answered" =>
      \E row \in adjustment :
        /\ row.approval = desk[s].approval
        /\ row.identity = identity(s)
        /\ row.account_code = desk[s].instruction.account_code
        /\ row.period = desk[s].instruction.period

\* An accrued cross-period refund never lands in the period it settled in.
AccruedElsewhere ==
    \A row \in adjustment :
      /\ row.treatment = "accrue"
      /\ exception[row.approval] = "refund_of_booked_capture_across_periods"
      => row.period # accounting_period(settlement_line[row.approval].value_date)
===============================================================================
