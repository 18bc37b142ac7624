--------------------------- MODULE MCAuditRequest ---------------------------
(***************************************************************************)
(* Three tiers, the first two with two channels each: then the first can   *)
(* recover while another channel of the second, which was passed over for  *)
(* the third, could still be called.                                       *)
(***************************************************************************)
EXTENDS AuditRequest, TLC

CONSTANTS a1, a2, b1, b2, c1

TierOf == a1 :> 1 @@ a2 :> 1 @@ b1 :> 2 @@ b2 :> 2 @@ c1 :> 3

Symmetry == Permutations({a1, a2}) \cup Permutations({b1, b2})
=============================================================================
