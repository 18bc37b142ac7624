-------------------------- MODULE MCEvaluationRuns --------------------------
(***************************************************************************)
(* Instances of EvaluationRuns for TLC.  The trials instance follows one   *)
(* run through three trials of up to three tries, with calls that cost     *)
(* nothing, their estimate, or more than the whole budget.  The register   *)
(* instance has two runs, so that one can be created while the worker of a *)
(* cancelled one is still there, each of a single call.                    *)
(***************************************************************************)
EXTENDS EvaluationRuns

OneTrial == 0 .. 0
ThreeTrials == 0 .. 2
=============================================================================
