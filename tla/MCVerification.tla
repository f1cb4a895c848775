--------------------------- MODULE MCVerification ---------------------------
EXTENDS Verification, TLC

Symmetry == Permutations(Operator) \cup Permutations(Evaluation)
=============================================================================
