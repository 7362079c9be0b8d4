----------------------------- MODULE MCSealing ------------------------------
(* A file with up to two determinations, two requests at work on its letters. *)
EXTENDS Sealing
=============================================================================
