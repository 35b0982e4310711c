------------------------------ MODULE LedgerBooks ------------------------------
(***************************************************************************)
(* The external ledger and the wire to it, as the reference adapters       *)
(* (ledger/simulated.py, ledger/faults.py) and the declared capabilities   *)
(* describe them.  The books keep one entry per posting they really made,  *)
(* so a duplicate is two entries.                                          *)
(***************************************************************************)
EXTENDS ControlState

CONSTANTS
    Answers,        \* what this ledger may answer a request with
    RetryAfter,     \* the delays its throttles may ask for
    MaxStall        \* bound: ticks from reading `now` to writing the socket

ASSUME LedgerAssumption ==
    /\ Answers \subseteq {"confirmed", "rejected", "throttled", "partially_applied"}
    /\ RetryAfter \subseteq Nat /\ MaxStall \in Nat

\* The ledger still holds the operation's key for a request to endpoint ep: inside
\* the declared scope and the declared window of a posting it applied.
KeyHeld(ep) ==
    /\ suppresses_duplicates
    /\ \E a \in applied :
        /\ Caps.idempotency_scope = "per_endpoint" => a.endpoint = ep
        /\ \/ Caps.idempotency_window = Unbounded
           \/ clock - a.at < Caps.idempotency_window

\* The answer reaches the worker that awaits it; nobody else ever sees it.
Deliver(n, answer) ==
    task' = [w \in Workers |->
                IF task[w].pc = "await" /\ task[w].attempt_no = n
                THEN [task[w] EXCEPT !.pc = "record", !.got = answer]
                ELSE task[w]]

\* The ledger takes request n.  A throttle is decided in front of the books; behind
\* it a held key suppresses the posting and answers as the first one did.
LedgerTakes(n, answer) ==
    LET ep == attempts[n].endpoint IN
    /\ n \in wire
    /\ KeyHeld(ep) => answer \in {"confirmed", "throttled"}
    /\ wire' = wire \ {n}
    /\ applied' = IF answer = "confirmed" /\ ~KeyHeld(ep)
                  THEN applied \cup {[no |-> n, at |-> clock, endpoint |-> ep]}
                  ELSE applied
    /\ partial' = IF answer = "partially_applied" THEN partial \cup {n} ELSE partial
    /\ Deliver(n, answer)
    /\ UNCHANGED <<rowVars, clock, crashes>>

\* A request that never reaches the books: lost on the way, or a 5xx in front of them.
DropRequest(n) ==
    /\ n \in wire
    /\ wire' = wire \ {n}
    /\ UNCHANGED <<rowVars, task, applied, partial, clock, crashes>>

\* Every effect the operation has had on the books, by attempt.
Effects == {a.no : a \in applied} \cup partial

\* What a query by operation identifier may answer.  A posting older than the
\* visibility bound is always found; a younger one may be; an eventually consistent
\* ledger may also decline to say.
QueryAnswers ==
    {x \in QueryAnswer :
        CASE x = "found" -> Effects # {}
          [] x = "not_found" -> \A a \in applied : clock - a.at < visibility_bound_of
          [] x = "indeterminate" -> ~Caps.linearizable}

\* Time passes.  A request lands strictly inside the declared in-flight window of
\* its recorded send time, and a worker writes the socket at most MaxStall ticks
\* after it read the clock.
Tick ==
    /\ clock < MaxTime
    /\ \A n \in wire : clock + 1 - attempts[n].sent_at < Caps.max_inflight_window
    /\ \A w \in Workers : task[w].pc \in {"claimed", "gate", "write", "post"}
                            => clock + 1 - task[w].now <= MaxStall
    /\ clock' = clock + 1
    /\ UNCHANGED <<rowVars, task, ledgerVars, crashes>>
===============================================================================
