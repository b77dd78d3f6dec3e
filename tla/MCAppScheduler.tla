--------------------------- MODULE MCAppScheduler ---------------------------
(* AppScheduler with two interrupt levels above the main thread. *)
EXTENDS AppScheduler
=============================================================================
