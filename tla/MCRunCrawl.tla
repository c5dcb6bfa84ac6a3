------------------------------ MODULE MCRunCrawl -------------------------------
(* Instances of RunCrawl for the model checker. *)
EXTENDS RunCrawl

CONSTANTS s, a, b
=============================================================================
