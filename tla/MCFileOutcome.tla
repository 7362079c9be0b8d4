--------------------------- MODULE MCFileOutcome ----------------------------
(* One engineer and one file, from its evidence to its letter or its refund: a  *)
(* request that decides, two that seal and void, and the decisions' jobs.       *)
EXTENDS FileOutcome, TLC

\* The two that seal are told apart by nothing.
Symmetry == Permutations(Sealers)

\* Bound: one of a fault of the review or a job, one of the letters, and a letter
\* crossed; the steps after a second are not explored.
OneTrouble == faults + sealFaults + (IF crossed THEN 1 ELSE 0) <= 1
=============================================================================
