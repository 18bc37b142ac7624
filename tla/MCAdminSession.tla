--------------------------- MODULE MCAdminSession ---------------------------
(* Three requests, two sessions at a time, two changes of the password.    *)
EXTENDS AdminSession, TLC

Symmetry == Permutations(Requests) \cup Permutations(Tokens)
=============================================================================
