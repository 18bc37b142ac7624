-------------------------- MODULE MCAdministration --------------------------
(***************************************************************************)
(* Two administrators and a few rows of each table.                        *)
(***************************************************************************)
EXTENDS Administration, TLC

Symmetry ==
    Permutations(Admins) \cup Permutations(Credentials) \cup
    Permutations(Channels) \cup Permutations(Policies)
=============================================================================
