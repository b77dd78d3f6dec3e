----------------------------- MODULE MCEventPump ----------------------------
(* EventPump with up to MaxEvents events in each queue: enough for an      *)
(* event to arrive before the test of the flag, between the test and the   *)
(* clearing, during the drain behind and ahead of it, and while asleep.    *)
EXTENDS EventPump
=============================================================================
