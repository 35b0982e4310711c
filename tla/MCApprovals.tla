------------------------------ MODULE MCApprovals ------------------------------
(***************************************************************************)
(* Instances of the gate for TLC: an analyst and a controller.             *)
(***************************************************************************)
EXTENDS Approvals, TLC

CONSTANTS c1, c2, ana, con1, t1, t2

Roles == (ana :> "analyst") @@ (con1 :> "controller")

Symmetry == Permutations(Clients) \cup Permutations(Tokens)
===============================================================================
