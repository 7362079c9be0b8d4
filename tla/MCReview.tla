------------------------------ MODULE MCReview ------------------------------
(* Two engineers, or two tabs of one, with one file in front of them. *)
EXTENDS Review, TLC

CONSTANTS e1, e2, i1, i2
Symmetry == Permutations({e1, e2}) \cup Permutations({i1, i2})
=============================================================================
