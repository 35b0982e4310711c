------------------------------ MODULE PostingOnce ------------------------------
(***************************************************************************)
(* What the control plane promises about one operation, with no attempts,  *)
(* queues or clocks: at most one effect on the books, and one verdict that *)
(* is given once, is true when given and stays true.  This is the promise  *)
(* of PROJECT_SPEC 13.5 and 13.6 in its strongest form.                    *)
(***************************************************************************)
VARIABLES
    effects,    \* which attempts moved the books
    verdict     \* NoVerdict, "confirmed" or "rejected"

CONSTANT NoVerdict

PostInit == effects = {} /\ verdict = NoVerdict

\* The books move: never a second time, never after a rejection.
Apply ==
    /\ effects = {} /\ verdict # "rejected"
    /\ effects' # {} /\ \A m, n \in effects' : m = n
    /\ UNCHANGED verdict

Confirm ==
    /\ effects # {} /\ verdict = NoVerdict
    /\ verdict' = "confirmed"
    /\ UNCHANGED effects

Reject ==
    /\ effects = {} /\ verdict = NoVerdict
    /\ verdict' = "rejected"
    /\ UNCHANGED effects

PostSpec == PostInit /\ [][Apply \/ Confirm \/ Reject]_<<effects, verdict>>
===============================================================================
