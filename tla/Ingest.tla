--------------------------------- MODULE Ingest ---------------------------------
(***************************************************************************)
(* ingest/service.py: a delivery commits its receipt, then interprets the  *)
(* payload, then claims the batch and commits one outcome for it.  Any     *)
(* number of deliveries of one payload may be under way.                   *)
(***************************************************************************)
EXTENDS IntakeState

\* T1.  ON CONFLICT DO NOTHING on the content hash.
record_receipt(s, b) ==
    /\ job[s].pc = "idle"
    /\ batch' = [batch EXCEPT ![b].status = IF @ = "absent" THEN "received" ELSE @]
    /\ Do(s, [Idle EXCEPT !.pc = "claim", !.batch = b])
    /\ UNCHANGED <<settlement_line, match_state, match_result, exception, matched_events,
                   batch_lock, line_lock>>

\* T2 opens: the batch row is locked and its status read under the lock.  A
\* batch somebody finished is reported and left alone.
claim_batch(s) ==
    LET b == job[s].batch
    IN  /\ job[s].pc = "claim"
        /\ batch_lock[b] = NULL
        /\ IF batch[b].status = "received"
             THEN /\ batch_lock' = [batch_lock EXCEPT ![b] = s]
                  /\ Do(s, [job[s] EXCEPT !.pc = "settle"])
                  /\ UNCHANGED line_lock
             ELSE End(s)
        /\ UNCHANGED tables

\* Mutant: the rows that parsed are kept beside the quarantine.
keep_good_rows(b) == {n \in Rows(b) : row_defects(n, Payload[b].rows[n]) = {}}

\* interpret(): one bad row condemns the file, and its good rows with it.
accepted_rows(b) == IF defects_of(Payload[b]) = {} THEN Rows(b) ELSE {}

\* What the line constraints refuse: a line number twice, or a value the
\* columns cannot hold.
write_refused(b) ==
    \E n \in accepted_rows(b) :
        settlement_line[LineId[b][n]] # NULL \/ ~storable(line_of(b, n))

\* T2 commits: the lines and the status that vouches for them, or the reason.
settle(s) ==
    LET b       == job[s].batch
        defects == defects_of(Payload[b])
    IN  /\ job[s].pc = "settle"
        /\ IF write_refused(b)
             THEN EndAs(s, "refused") /\ UNCHANGED <<batch, settlement_line, match_state>>
             ELSE /\ batch' = [batch EXCEPT ![b] =
                       IF defects = {} THEN [status |-> "parsed", reason |-> NULL]
                       ELSE [status |-> "quarantined", reason |-> render_reason(defects)]]
                  /\ settlement_line' = [l \in Lines |->
                       IF \E n \in accepted_rows(b) : LineId[b][n] = l
                       THEN line_of(b, CHOOSE n \in accepted_rows(b) : LineId[b][n] = l)
                       ELSE settlement_line[l]]
                  /\ match_state' = [l \in Lines |->
                       IF \E n \in accepted_rows(b) : LineId[b][n] = l
                       THEN "unmatched" ELSE match_state[l]]
                  /\ End(s)
        /\ UNCHANGED <<match_result, exception, matched_events>>

ingest(s, deliveries) ==
    \/ \E b \in deliveries : record_receipt(s, b)
    \/ claim_batch(s)
    \/ settle(s)
===============================================================================
