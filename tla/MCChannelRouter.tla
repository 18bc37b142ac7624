-------------------------- MODULE MCChannelRouter ---------------------------
(***************************************************************************)
(* Instances of ChannelRouter for TLC.  The quota instance has one channel *)
(* and three requests, so that calls overlap and end out of order; a sole  *)
(* channel has no cooldowns.  The health instance has two channels, so     *)
(* that cooldowns and probes apply, and edits only one of them.            *)
(***************************************************************************)
EXTENDS ChannelRouter, TLC

CONSTANTS c1, c2

QuotaRPM == c1 :> 2
QuotaConcurrency == c1 :> 2
QuotaRevision == c1 :> 2

HealthRPM == c1 :> 0 @@ c2 :> 1
HealthConcurrency == c1 :> 2 @@ c2 :> 1
HealthRevision == c1 :> 2 @@ c2 :> 1

Symmetry == Permutations(Requests)
=============================================================================
