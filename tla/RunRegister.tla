----------------------------- MODULE RunRegister ----------------------------
(***************************************************************************)
(* What administrators are promised of batch evaluations: one at a time,   *)
(* each ends, and how it ended is never rewritten.  Workers, restarts and  *)
(* trials do not show here.                                                *)
(***************************************************************************)
CONSTANTS Runs         \* the identifiers evaluation runs can have

Active == {"queued", "running"}
Ended == {"completed", "budget_exhausted", "interrupted", "cancelled"}

VARIABLE status        \* "none" for a run that is not, or no longer, kept

Init == status = [e \in Runs |-> "none"]

Register(e) ==
    /\ status[e] = "none"
    /\ \A f \in Runs : status[f] \notin Active
    /\ status' = [status EXCEPT ![e] = "queued"]

Start(e) ==
    /\ status[e] = "queued"
    /\ status' = [status EXCEPT ![e] = "running"]

End(e) ==
    /\ status[e] \in Active
    /\ \E s \in Ended : status' = [status EXCEPT ![e] = s]

Forget(e) ==
    /\ status[e] \in Ended
    /\ status' = [status EXCEPT ![e] = "none"]

Next == \E e \in Runs : Register(e) \/ Start(e) \/ End(e) \/ Forget(e)

Spec == Init /\ [][Next]_status /\ \A e \in Runs : WF_status(End(e))
=============================================================================
