---------------------------- MODULE MCCostLedger ----------------------------
(***************************************************************************)
(* Instances of CostLedger for TLC.  In the budget instance two attempts   *)
(* of a client, over two days of one month, compete for a budget that an   *)
(* administrator changes.  In the reconciliation instance two              *)
(* administrators race for the same cost and the same budget.              *)
(***************************************************************************)
EXTENDS CostLedger, TLC

OneMonth == 1 :> 1 @@ 2 :> 1
OneDay == 1 :> 1

Symmetry == Permutations(Attempts) \cup Permutations(Admins)
=============================================================================
