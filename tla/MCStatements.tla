---------------------------- MODULE MCStatements ----------------------------
EXTENDS Statements, TLC
Symmetry == Permutations(Orders) \cup Permutations(Tasks)
=============================================================================
