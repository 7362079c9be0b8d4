----------------------------- MODULE MCJobQueue -----------------------------
(* A small instance of the job queue: two rows, one shared key, two workers. *)
EXTENDS JobQueue
=============================================================================
