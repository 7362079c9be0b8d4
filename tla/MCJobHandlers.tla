--------------------------- MODULE MCJobHandlers ----------------------------
(* Two rows, an email key, a suppressed one and a notification, two          *)
(* overlapping workers.                                                      *)
EXTENDS JobHandlers, TLC

Symmetry == Permutations(Jobs) \cup Permutations(Callers) \cup Permutations(Workers)

\* Bound: any two of a killed worker or lost write-back, a lost answer or stamp,
\* an operator's retry and an outlived lease; the steps after a third are not
\* explored.
TwoTroubles == faults + slips + retries + (IF overrun THEN 1 ELSE 0) <= 2
=============================================================================
