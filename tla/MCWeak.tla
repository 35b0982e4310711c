--------------------------------- MODULE MCWeak ---------------------------------
(***************************************************************************)
(* The instance of the run against the weak ledger: the control plane with *)
(* its replays counted.                                                    *)
(***************************************************************************)
EXTENDS MCControlPlane, SendBudget
===============================================================================
