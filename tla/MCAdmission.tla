----------------------------- MODULE MCAdmission -----------------------------
EXTENDS Admission, TLC

SomeLengths == {-1, 3}
Symmetry == Permutations(Requests) \cup Permutations(Clients)
=============================================================================
