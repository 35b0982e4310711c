------------------------------- MODULE SendBudget -------------------------------
(***************************************************************************)
(* The control plane with a history variable: how many of its sends were   *)
(* replays of a dead letter.  A replay is an ordinary dispatch and leaves  *)
(* the same row as any other, so the record alone does not tell them apart.*)
(***************************************************************************)
EXTENDS Supersession

ASSUME WorkersAssumption == IsFiniteSet(Workers)

VARIABLE replayed       \* attempts whose write-ahead row a replay inserted

countedVars == <<vars, replayed>>

\* The replay's dispatch_once inserts its row: this send was asked for by a person.
ReplaySends(w) ==
    /\ task[w].job = "replay" /\ task[w].pc = "write"
    /\ task'[w].pc = "post"

CountedInit == Init /\ replayed = 0

CountedNext ==
    /\ Next
    /\ replayed' = IF \E w \in Workers : ReplaySends(w) THEN replayed + 1 ELSE replayed

CountedSpec == CountedInit /\ [][CountedNext]_countedVars

-------------------------------------------------------------------------------
\* How often a financial write is offered to the ledger, in every state: max_attempts
\* times; once more for each further worker, which may have claimed the row, still due,
\* before the pass that sent last has counted its send (_retry_or_dead_letter counts in
\* a transaction of its own, and the claim does not count at all); once more for each
\* process that died before it counted; and once for each replay an operator asked for.
SendsWithinBudget ==
    ~suppresses_duplicates =>
        Len(attempts) <= MaxAttempts + (Cardinality(Workers) - 1) + crashes + replayed
===============================================================================
