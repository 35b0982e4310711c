-------------------------------- MODULE Matching --------------------------------
(***************************************************************************)
(* matching/engine.py, policy.py and service.py: which lines the ledger    *)
(* already carries.  The decision is taken on a read whose transaction is  *)
(* over; a second one locks the lines in id order, drops those that came   *)
(* under an exception, and lets the unique indexes settle the rest.        *)
(***************************************************************************)
EXTENDS Ingest

ASSUME PolicyAssumption ==
    /\ Band \in [Currencies -> Nat \cup {NULL}]
    /\ Window \in Nat

\* RULE_PRECEDENCE
Precedence == <<"exact_amount", "amount_within_tolerance">>
Rank(rule) == CHOOSE i \in DOMAIN Precedence : Precedence[i] = rule

within_window(value_date, booked_on) == Distance(value_date, booked_on) <= Window

\* A currency without a band has no tolerance at all; a band is inclusive.
within_band(currency, difference) == Band[currency] # NULL /\ difference <= Band[currency]

\* _eligible: no conversion, no reference, no movement type.
eligible(l, e, rule) ==
    LET line       == settlement_line[l]
        difference == Distance(line.amount, Entry[e].amount)
    IN  /\ line.currency = Entry[e].currency
        /\ within_window(line.value_date, Entry[e].booked_on)
        /\ IF rule = "exact_amount" THEN difference = 0
           ELSE within_band(line.currency, difference)

candidates(l, entries, rule) == {e \in entries : eligible(l, e, rule)}
claimants(e, lines, rule)    == {l \in lines : eligible(l, e, rule)}

\* Mutant: a line with one candidate takes it, whoever else wants it.
accept_first_come(lines, entries, rule) ==
    {p \in [line : lines, entry : entries, rule : {rule}] :
        candidates(p.line, entries, rule) = {p.entry}}

\* _accept_mutually_unique: each is the only choice of the other.
accept_mutually_unique(lines, entries, rule) ==
    {p \in [line : lines, entry : entries, rule : {rule}] :
        /\ candidates(p.line, entries, rule) = {p.entry}
        /\ claimants(p.entry, lines, rule) = {p.line}}

\* A line with a candidate is settled by its tier, accepted or ambiguous, and
\* so is every entry such a line named: an open contest stays out of the tiers
\* below it.
settled_lines(lines, entries, rule) ==
    {l \in lines : candidates(l, entries, rule) # {}}
settled_entries(lines, entries, rule) ==
    {e \in entries : claimants(e, lines, rule) # {}}

\* match(): the tiers in order, each on what the one above left.
match(lines, entries) ==
    LET exact == "exact_amount"
        left  == lines \ settled_lines(lines, entries, exact)
        free  == entries \ settled_entries(lines, entries, exact)
    IN  accept_mutually_unique(lines, entries, exact)
          \cup accept_mutually_unique(left, free, "amount_within_tolerance")

-------------------------------------------------------------------------------
unconsumed_entries(lines) ==
    {e \in Entries : /\ \A row \in match_result : row.entry # e
                     /\ \E l \in lines : settlement_line[l].currency = Entry[e].currency}

\* _load_candidates, first statement.  With no line there is nothing to do.
load_lines(s, scope) ==
    /\ job[s].pc = "idle"
    /\ eligible_lines(scope) # {}
    /\ Do(s, [Idle EXCEPT !.pc = "entries", !.read = eligible_lines(scope)])
    /\ UNCHANGED <<tables, batch_lock, line_lock>>

\* Second statement, and the decision, with no transaction held.
decide_matches(s) ==
    LET outcome == match(job[s].read, unconsumed_entries(job[s].read))
    IN  /\ job[s].pc = "entries"
        /\ IF outcome = {} THEN Do(s, Idle)
           ELSE Do(s, [job[s] EXCEPT !.pc = "lock", !.proposed = outcome,
                                     !.want = {p.line : p \in outcome}])
        /\ UNCHANGED <<tables, batch_lock, line_lock>>

lock_proposed(s) == job[s].pc = "lock" /\ LockLine(s, "examine")

\* Mutant: nobody asks whether a line came under an exception meanwhile.
examine_nothing(s) ==
    /\ job[s].pc = "examine"
    /\ Do(s, [job[s] EXCEPT !.pc = "insert"])
    /\ UNCHANGED <<tables, batch_lock, line_lock>>

\* Under the locks, the lines a classifier took since the read are dropped.
drop_under_exception(s) ==
    /\ job[s].pc = "examine"
    /\ Do(s, [job[s] EXCEPT !.pc = "insert",
                            !.proposed = {p \in @ : exception[p.line] = NULL}])
    /\ UNCHANGED <<tables, batch_lock, line_lock>>

\* The order of outcome.matches.
before(p, q) ==
    LET m == settlement_line[p.line].line_number
        n == settlement_line[q.line].line_number
    IN  \/ Rank(p.rule) < Rank(q.rule)
        \/ p.rule = q.rule /\ m < n
        \/ p.rule = q.rule /\ m = n /\ p.line <= q.line
next_insert(s) == {p \in job[s].proposed : \A q \in job[s].proposed : before(p, q)}

Conflicts(p, q) == p.line = q.line \/ p.entry = q.entry

\* The sessions whose uncommitted row an insert of s would collide with.
InsertBlockedBy(s) ==
    {t \in Sessions \ {s} : \E p \in next_insert(s), q \in job[t].inserted : Conflicts(p, q)}

\* ON CONFLICT DO NOTHING on both unique indexes: a committed row is skipped,
\* an uncommitted one is waited for.
insert_match(s) ==
    /\ job[s].pc = "insert"
    /\ InsertBlockedBy(s) = {}
    /\ \E p \in next_insert(s) :
         Do(s, [job[s] EXCEPT
               !.proposed = @ \ {p},
               !.inserted = IF \E q \in match_result \cup job[s].inserted : Conflicts(p, q)
                            THEN @ ELSE @ \cup {p}])
    /\ UNCHANGED <<tables, batch_lock, line_lock>>

\* Mutant: an event for every pair the run proposed on, landed or not.
audit_considered(s) == Pinned(s)

\* _audit: one MATCH event per line that changed state.
audited(s) == {q.line : q \in job[s].inserted}

\* The foreign key of exception pins its line's match_state to unmatched.
update_refused(s) == \E q \in job[s].inserted : exception[q.line] # NULL

\* The lines that landed change state, with their events, and the run commits.
commit_matches(s) ==
    LET landed == {q.line : q \in job[s].inserted}
    IN  /\ job[s].pc = "insert"
        /\ job[s].proposed = {}
        /\ IF update_refused(s)
             THEN EndAs(s, "refused") /\ UNCHANGED <<match_result, match_state, matched_events>>
             ELSE /\ match_result' = match_result \cup job[s].inserted
                  /\ match_state' = [l \in Lines |-> IF l \in landed THEN "matched"
                                                     ELSE match_state[l]]
                  /\ matched_events' = [l \in Lines |-> IF l \in audited(s)
                                          THEN matched_events[l] + 1 ELSE matched_events[l]]
                  /\ End(s)
        /\ UNCHANGED <<batch, settlement_line, exception>>

run_matching(s, scopes) ==
    \/ \E scope \in scopes : load_lines(s, scope)
    \/ decide_matches(s)
    \/ lock_proposed(s)
    \/ drop_under_exception(s)
    \/ insert_match(s)
    \/ commit_matches(s)
===============================================================================
