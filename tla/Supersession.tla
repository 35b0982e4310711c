------------------------------ MODULE Supersession ------------------------------
(***************************************************************************)
(* The control plane as the supersession interlock of approval.py reads it *)
(* when a later resolution of the same exception is to be decided.         *)
(***************************************************************************)
EXTENDS ControlPlane

item == IF open_recovery THEN "open"
        ELSE IF recovery = <<>> THEN "none" ELSE "resolved"

books == IF Effects # {} THEN "moved" ELSE IF wire # {} THEN "wire" ELSE "none"

life == [in_flight |-> InFlight # {}, outcome |-> outbox.last_outcome,
         item |-> item, books |-> books]

Seen == INSTANCE OperationLife WITH Outcomes <- OutcomeCode

\* Everything the detailed control plane does to one operation is a step of its life
\* as Approvals composes it (dispatcher, retry, reconciliation, recovery).
ImplementsLife ==
    life = Seen!Enqueued /\ [][life' \in Seen!Successors(life)]_life

\* An operation the interlock lets a new resolution supersede, and no operator has
\* judged, is one whose effect is known: its request is not under way, and the books
\* moved exactly if it is recorded confirmed (the write-ahead row, transaction 3 and
\* the three conditions of supersession_is_blocked together).
InterlockSound ==
    (~Seen!blocked(life) /\ recovery = <<>>) =>
        /\ books # "wire"
        /\ books = "moved" <=> outbox.last_outcome = "confirmed"

\* approval.py:169-172: once an operator has adjudicated, the prior resolution is no
\* longer live, and what was settled on evidence does not block its successor; checked
\* when no process has anything left to record about it.
InterlockReleases ==
    /\ outbox.last_outcome \in TERMINAL /\ item = "resolved"
    /\ \A w \in Workers : task[w].pc = "idle"
    => ~Seen!blocked(life)
===============================================================================
