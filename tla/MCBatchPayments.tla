--------------------------- MODULE MCBatchPayments --------------------------
EXTENDS BatchPayments, TLC
Symmetry == Permutations(Members) \cup Permutations(Sessions) \cup Permutations(Invocations)
=============================================================================
