----------------------------- MODULE MCCallChain -----------------------------
(* CallChain with four callbacks and up to four changes in a traversal. *)
EXTENDS CallChain
=============================================================================
