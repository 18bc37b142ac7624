------------------------------ MODULE KeyMutex ------------------------------
(***************************************************************************)
(* What keyed_gate.go promises its callers: one mutual-exclusion lock per  *)
(* key, keys independent of each other, and a lock that is given back.     *)
(* Nothing is said of how the locks are represented or when they exist.    *)
(***************************************************************************)
CONSTANTS Keys,      \* the strings a lock can be asked for
          Callers,   \* the requests that ask
          NoOwner    \* stands for "nobody"

VARIABLE owner       \* owner[k] is the caller that holds the lock on k

Init == owner = [k \in Keys |-> NoOwner]

Grant(p, k) ==
    /\ owner[k] = NoOwner
    /\ \A j \in Keys : owner[j] # p
    /\ owner' = [owner EXCEPT ![k] = p]

GiveBack(p, k) ==
    /\ owner[k] = p
    /\ owner' = [owner EXCEPT ![k] = NoOwner]

Next == \E p \in Callers, k \in Keys : Grant(p, k) \/ GiveBack(p, k)

(***************************************************************************)
(* A lock that has been granted is given back.                             *)
(***************************************************************************)
Fairness == \A p \in Callers, k \in Keys : WF_owner(GiveBack(p, k))

Spec == Init /\ [][Next]_owner /\ Fairness
=============================================================================
