-------------------------- MODULE MCRelaySequencer --------------------------
(* RelaySequencer with the durations of the source, in units of            *)
(* CTR12V_TIME = 100 ms: RELAY_TIME = 120 s is 1200 of them.               *)
EXTENDS RelaySequencer
=============================================================================
