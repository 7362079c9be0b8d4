--------------------------- MODULE MCBatchRefunds ---------------------------
\* BatchRefunds, with a decision that gives half of a share back.
EXTENDS BatchRefunds, TLC
Symmetry == Permutations(Members) \cup Permutations(BatchCalls) \cup Permutations(BatchDeliveries)
=============================================================================
